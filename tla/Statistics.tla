----------------------------- MODULE Statistics -----------------------------
(***************************************************************************)
(* Data statistics (statistics/data_stats.cpp) of a typed column, and how  *)
(* the type of a column is deduced from its cells                          *)
(* (model/table/typed_column_data.cpp).  A cell is one of a few that the   *)
(* type checkers tell apart.  A typed column has its type, its number of   *)
(* rows, the rows that are null, and the values of the rows that are       *)
(* neither null nor empty: numbers, Booleans, or strings, which are        *)
(* sequences of character codes.  A statistic is {} without a value and a  *)
(* singleton with one; doubles are fractions, 0 below when nothing can be  *)
(* divided, and roots and logarithms are left undone.  Below the line are  *)
(* the definitions the results are compared with.                          *)
(***************************************************************************)
EXTENDS Integers, Sequences, FiniteSets, FiniteSetsExt, SequencesExt, Functions

(* What the checkers of the types accept of each cell, in the order they   *)
(* are asked, and the types a value of a type can also be read as.         *)
CandidateTypes == <<"date", "int", "bigint", "double", "bool", "string">>
CheckerOrder == <<"string", "date", "int", "bigint", "double", "bool">>
Accepts ==
  [hello |-> {"string"}, abc |-> {}, undelimited |-> {"date", "int", "double"}, delimited |-> {"date"},
   zero |-> {"int", "double", "bool"}, five |-> {"int", "double"}, digits20 |-> {"bigint", "double"},
   real |-> {"double"}, tf |-> {"bool"}, true |-> {"bool"}]
Bitset ==
  [date |-> {"date"}, int |-> {"int", "bigint", "double"}, bigint |-> {"bigint", "double"},
   double |-> {"double"}, bool |-> {"bool"}, string |-> {"string"}]
FirstOf(order, types) == order[Min({i \in DOMAIN order : order[i] \in types})]

MatchOf(cell) == IF Accepts[cell] = {} THEN "string" ELSE FirstOf(CheckerOrder, Accepts[cell])
CandidatesOf(cell) ==
  Bitset[MatchOf(cell)] \cup
    CASE cell = "undelimited" -> Bitset.int [] cell = "zero" -> Bitset.bool
      [] cell = "tf" -> Bitset.string [] OTHER -> {}
(* A cell of the first type says more than the first did.                  *)
Disambiguates(type, cell) ==
  \/ type = "date" /\ cell = "delimited"
  \/ type = "bool" /\ cell # "tf"
  \/ type = "int" /\ cell # "zero"
AcceptedAs(s, cell, type) ==
  IF s.disambiguated \/ ~Disambiguates(type, cell) THEN s
  ELSE [s EXCEPT !.candidates = @ \cap Bitset[type], !.disambiguated = TRUE]
Narrowed(s, candidates, treat_mixed_as_string) ==
  IF candidates # {} THEN [s EXCEPT !.candidates = candidates]
  ELSE IF treat_mixed_as_string THEN [s EXCEPT !.candidates = {"string"}]
  ELSE [s EXCEPT !.mixed = TRUE]
NextCell(s, cell, treat_mixed_as_string) ==
  IF s.mixed THEN s
  ELSE IF s.first # "undefined" /\ s.first \in Accepts[cell] THEN AcceptedAs(s, cell, s.first)
  ELSE Narrowed([s EXCEPT !.first = IF @ = "undefined" THEN MatchOf(cell) ELSE @],
                s.candidates \cap CandidatesOf(cell), treat_mixed_as_string)
IsValue(cell) == cell \notin {"null", "empty"}
DeduceColumnType(cells, treat_mixed_as_string) ==
  LET s == FoldLeft(LAMBDA a, cell : IF IsValue(cell) THEN NextCell(a, cell, treat_mixed_as_string) ELSE a,
                    [first |-> "undefined", candidates |-> Range(CandidateTypes), disambiguated |-> FALSE, mixed |-> FALSE],
                    cells)
  IN IF s.first = "undefined" THEN "undefined"
     ELSE IF s.mixed \/ s.candidates = {} THEN "mixed" ELSE FirstOf(CandidateTypes, s.candidates)

(* The type of each cell of the column: big integers take integers along.  *)
TypeOfCell(cell, type) == IF ~IsValue(cell) THEN cell ELSE IF type # "mixed" THEN type ELSE MatchOf(cell)
CreateTypeMap(cells, type) ==
  LET types == [i \in DOMAIN cells |-> TypeOfCell(cells[i], type)]
  IN [i \in DOMAIN cells |-> IF types[i] = "int" /\ "bigint" \in Range(types) THEN "bigint" ELSE types[i]]

-----------------------------------------------------------------------------
IsNumeric(col) == col.type \in {"int", "double"}
IsOrdered(col) == col.type \notin {"undefined", "mixed"}
NumberOfValues(col) == Cardinality(DOMAIN col.data)
DeleteNullAndEmpties(col) == FoldLeft(LAMBDA s, i : IF i \in DOMAIN col.data THEN Append(s, col.data[i]) ELSE s,
                                      <<>>, [i \in 1 .. col.rows |-> i])
SumOf(data) == FoldFunction(+, 0, data)

Fraction(n) == <<n, 1>>
Minus(a, b) == <<a[1] * b[2] - b[1] * a[2], a[2] * b[2]>>
Divide(a, b) == <<a[1] * b[2], a[2] * b[1]>>
Root(x) == [root |-> x]
Distance(v, x) == IF v * x[2] < x[1] THEN x[1] - v * x[2] ELSE v * x[2] - x[1]

(* Of the values of an ordered column; Booleans are 0 and 1, strings in    *)
(* the order of their codes.                                               *)
Precedes(col, v, w) ==
  IF col.type # "string" THEN v < w
  ELSE \/ Len(v) < Len(w) /\ v = SubSeq(w, 1, Len(v))
       \/ \E i \in DOMAIN v \cap DOMAIN w : v[i] < w[i] /\ SubSeq(v, 1, i - 1) = SubSeq(w, 1, i - 1)
Sorted(col) == SortSeq(DeleteNullAndEmpties(col), LAMBDA v, w : Precedes(col, v, w))
GetMin(col) ==
  IF IsOrdered(col) THEN {CHOOSE v \in Range(col.data) : \A w \in Range(col.data) : ~Precedes(col, w, v)} ELSE {}
GetMax(col) ==
  IF IsOrdered(col) THEN {CHOOSE v \in Range(col.data) : \A w \in Range(col.data) : ~Precedes(col, v, w)} ELSE {}
GetQuantile(col, part) ==
  IF IsOrdered(col) THEN {Sorted(col)[(NumberOfValues(col) * part[1]) \div part[2] + 1]} ELSE {}
Rises(col, data) == \A i \in 1 .. Len(data) - 1 : ~Precedes(col, data[i + 1], data[i])
Falls(col, data) == \A i \in 1 .. Len(data) - 1 : ~Precedes(col, data[i], data[i + 1])
MonotonicityOf(increasing, decreasing) ==
  IF increasing /\ decreasing THEN "equal"
  ELSE IF increasing THEN "ascending" ELSE IF decreasing THEN "descending" ELSE "none"
GetMonotonicity(col) ==
  IF ~IsOrdered(col) THEN {}
  ELSE {MonotonicityOf(Rises(col, DeleteNullAndEmpties(col)), Falls(col, DeleteNullAndEmpties(col)))}

(* Of the values of a numeric column.                                      *)
GetSum(col) == IF IsNumeric(col) THEN {SumOf(col.data)} ELSE {}
GetAvg(col) == {Divide(Fraction(s), Fraction(NumberOfValues(col))) : s \in GetSum(col)}
SumOfPowers(data, avg, number) == <<SumOf([i \in DOMAIN data |-> (data[i] * avg[2] - avg[1]) ^ number]), avg[2] ^ number>>
CalculateCentralMoment(col, number, bessel_correction) ==
  {Divide(SumOfPowers(col.data, avg, number), Fraction(NumberOfValues(col) - (IF bessel_correction THEN 1 ELSE 0))) :
     avg \in GetAvg(col)}
GetCorrectedSTD(col) == {Root(m) : m \in CalculateCentralMoment(col, 2, TRUE)}
GetStandardizedCentralMomentOfDist(col, number) ==
  {[moment |-> m, std |-> std, power |-> number] :
     m \in CalculateCentralMoment(col, number, FALSE), std \in GetCorrectedSTD(col)}
GetSkewness(col) == GetStandardizedCentralMomentOfDist(col, 3)
GetKurtosis(col) ==
  {Minus(Divide(k.moment, <<k.std.root[1] ^ 2, k.std.root[2] ^ 2>>), Fraction(3)) :
     k \in GetStandardizedCentralMomentOfDist(col, 4)}
GetSumOfSquares(col) == IF IsNumeric(col) THEN {SumOf([i \in DOMAIN col.data |-> col.data[i] ^ 2])} ELSE {}
GetGeometricMean(col) ==
  IF IsNumeric(col) /\ \A v \in Range(col.data) : v >= 0
  THEN {[product |-> FoldFunction(LAMBDA v, p : v * p, 1, col.data), root |-> NumberOfValues(col)]} ELSE {}
GetMeanAD(col) ==
  {Divide(<<SumOf([i \in DOMAIN col.data |-> Distance(col.data[i], avg)]), avg[2]>>, Fraction(NumberOfValues(col))) :
     avg \in GetAvg(col)}
NthElement(data, n) == SortSeq(data, <)[n + 1]
MedianOfNumericVector(data) ==
  LET mid == NthElement(data, Len(data) \div 2)
  IN IF Len(data) % 2 # 0 THEN <<mid, 1>> ELSE <<NthElement(data, Len(data) \div 2 - 1) + mid, 2>>
GetMedian(col) == IF IsNumeric(col) THEN {MedianOfNumericVector(DeleteNullAndEmpties(col))} ELSE {}
GetMedianAD(col) ==
  {LET data == DeleteNullAndEmpties(col)
       distances == MedianOfNumericVector([i \in DOMAIN data |-> Distance(data[i], median)])
   IN <<distances[1], distances[2] * median[2]>> : median \in GetMedian(col)}
CountIfInBinaryRelationWithZero(col, S) ==
  IF IsNumeric(col) THEN {Cardinality({i \in DOMAIN col.data : col.data[i] \in S})} ELSE {}
GetNumberOfZeros(col) == CountIfInBinaryRelationWithZero(col, {0})
GetNumberOfNegatives(col) == CountIfInBinaryRelationWithZero(col, {v \in Range(col.data) : v < 0})
(* The nulls are taken from the number of values, which has none; that the *)
(* rest is not negative is asserted, and the execution ends where it is.   *)
ZeroPercentTotal(col) == NumberOfValues(col) - Cardinality(col.nulls)
TotalIsAsserted(col) == IsNumeric(col) => ZeroPercentTotal(col) >= 0
GetZeroPercent(col) ==
  IF IsNumeric(col) /\ ZeroPercentTotal(col) # 0
  THEN {<<zeros, ZeroPercentTotal(col)>> : zeros \in GetNumberOfZeros(col)} ELSE {}
GetInterquartileRange(col, quantile25, quantile75) ==
  IF IsNumeric(col) THEN {q3 - q1 : q1 \in quantile25, q3 \in quantile75} ELSE {}
GetCoefficientOfVariation(col, STD, avg) ==
  IF IsNumeric(col) THEN {[std |-> s, mean |-> a] : s \in STD, a \in {a \in avg : a[1] # 0}} ELSE {}
(* The kurtosis is the excess already, and 3 is subtracted once more.      *)
GetJarqueBeraStatistic(col, skewness, kurtosis) ==
  IF IsNumeric(col) /\ NumberOfValues(col) >= 2
  THEN {[count |-> NumberOfValues(col), skewness |-> s, excess |-> Minus(k, Fraction(3))] : s \in skewness, k \in kurtosis}
  ELSE {}
CountBool(col, expected) ==
  IF col.type = "bool" THEN {Cardinality({i \in DOMAIN col.data : col.data[i] = expected})} ELSE {}

(* Values that differ: sorted ones, those of a mixed column by type.       *)
MixedDistinct(col) ==
  MapThenSumSet(LAMBDA t : Cardinality({v \in Range(col.data) : v[1] = t}), {v[1] : v \in Range(col.data)})
Distinct(col) == IF col.type = "mixed" THEN MixedDistinct(col) ELSE Cardinality(Range(col.data))
IsCategorical(col) ==
  Distinct(col) <= LET count == NumberOfValues(col) quantity == 10 + count \div 1000
                   IN IF count = 0 THEN quantity ELSE Min({count - 1, quantity})
GetNullColumns(cols) == {c \in DOMAIN cols : Cardinality(cols[c].nulls) = cols[1].rows}
GetColumnsWithNull(cols) == {c \in DOMAIN cols : cols[c].nulls # {}}
GetColumnsWithUniqueValues(cols) == {c \in DOMAIN cols : Distinct(cols[c]) = cols[1].rows}

(* Of the characters of the strings of a column.                           *)
Space == 32
IsSpace(c) == c \in (9 .. 13) \cup {Space}
IsUpper(c) == c \in 65 .. 90
IsLower(c) == c \in 97 .. 122
IsAlpha(c) == IsUpper(c) \/ IsLower(c)
IsDigit(c) == c \in 48 .. 57
SpecialChars == {64, 35, 36, 37, 94, 38, 33, 63, 42, 95, 43, 61, 126, 39, 45, 34}
IsString(col) == col.type = "string"
Chars(col) == UNION {Range(s) : s \in Range(col.data)}
Count(s, S) == Cardinality({i \in DOMAIN s : s[i] \in S})
CountIfInColumn(col, S) == IF IsString(col) THEN {SumOf([i \in DOMAIN col.data |-> Count(col.data[i], S)])} ELSE {}
GetNumberOfNonLetterChars(col) == CountIfInColumn(col, {c \in Chars(col) : ~IsAlpha(c)})
GetNumberOfDigitChars(col) == CountIfInColumn(col, {c \in Chars(col) : IsDigit(c)})
GetNumberOfLowercaseChars(col) == CountIfInColumn(col, {c \in Chars(col) : IsLower(c)})
GetNumberOfUppercaseChars(col) == CountIfInColumn(col, {c \in Chars(col) : IsUpper(c)})
GetVocab(col) == IF IsString(col) THEN {Chars(col)} ELSE {}

(* The words of a string, as a stream reads them, and their number.        *)
WordEnd(s, i) == Min({j \in i .. Len(s) : j = Len(s) \/ IsSpace(s[j + 1])})
StartsWord(s, i) == ~IsSpace(s[i]) /\ (i > 1 => IsSpace(s[i - 1]))
GetNumberOfWordsInString(s) == Cardinality({i \in DOMAIN s : StartsWord(s, i)})
ReadWord(read, s, i) ==
  IF i <= read.upto \/ IsSpace(s[i]) THEN read
  ELSE [upto |-> WordEnd(s, i), words |-> Append(read.words, SubSeq(s, i, WordEnd(s, i)))]
GetWordsInString(s) ==
  FoldLeft(LAMBDA read, i : ReadWord(read, s, i), [upto |-> 0, words |-> <<>>], [i \in DOMAIN s |-> i]).words
GetWords(col) == IF IsString(col) THEN UNION {Range(GetWordsInString(s)) : s \in Range(col.data)} ELSE {}
IsEntirelyUppercase(word) == \A i \in DOMAIN word : IsAlpha(word[i]) => IsUpper(word[i])
IsEntirelyLowercase(word) == \A i \in DOMAIN word : IsAlpha(word[i]) => IsLower(word[i])
CountIfInColumnForWords(col, S) ==
  IF IsString(col)
  THEN {SumOf([i \in DOMAIN col.data |-> Len(SelectSeq(GetWordsInString(col.data[i]), LAMBDA w : w \in S))])} ELSE {}
GetNumberOfEntirelyUppercaseWords(col) == CountIfInColumnForWords(col, {w \in GetWords(col) : IsEntirelyUppercase(w)})
GetNumberOfEntirelyLowercaseWords(col) == CountIfInColumnForWords(col, {w \in GetWords(col) : IsEntirelyLowercase(w)})

(* The least, the greatest and the sum of a measure of the strings.        *)
StringMinOf(col, measure) == IF IsString(col) THEN {Min(Range(measure))} ELSE {}
StringMaxOf(col, measure) == IF IsString(col) THEN {Max(Range(measure))} ELSE {}
StringSumOf(col, measure) == IF IsString(col) THEN {SumOf(measure)} ELSE {}
Sizes(col) == [i \in DOMAIN col.data |-> Len(col.data[i])]
Spaces(col) == [i \in DOMAIN col.data |-> Count(col.data[i], {Space})]
WordCounts(col) == [i \in DOMAIN col.data |-> GetNumberOfWordsInString(col.data[i])]
GetNumberOfChars(col) == StringSumOf(col, Sizes(col))
GetAvgNumberOfChars(col) == {<<n, col.rows - Cardinality(col.nulls)>> : n \in GetNumberOfChars(col)}
GetMinNumberOfChars(col) == StringMinOf(col, Sizes(col))
GetMaxNumberOfChars(col) == StringMaxOf(col, Sizes(col))
GetMinWhiteSpaces(col) == StringMinOf(col, Spaces(col))
GetMaxWhiteSpaces(col) == StringMaxOf(col, Spaces(col))
GetMinNumberOfWords(col) == StringMinOf(col, WordCounts(col))
GetMaxNumberOfWords(col) == StringMaxOf(col, WordCounts(col))
GetNumberOfWords(col) == StringSumOf(col, WordCounts(col))

(* The k most frequent characters, those of equal count in any order,      *)
(* filled up with spaces, and words.                                       *)
IsByCount(s, counts) == \A i \in 1 .. Len(s) - 1 : counts[s[i]] >= counts[s[i + 1]]
Resized(s, k, filler) == [i \in 1 .. k |-> IF i <= Len(s) THEN s[i] ELSE filler]
TopK(counts, k, filler) == {Resized(s, k, filler) : s \in {s \in SetToSeqs(DOMAIN counts) : IsByCount(s, counts)}}
CharCounts(col) == [c \in Chars(col) |-> SumOf([i \in DOMAIN col.data |-> Count(col.data[i], {c})])]
CountOfWord(col, w) == SumOf([i \in DOMAIN col.data |-> Len(SelectSeq(GetWordsInString(col.data[i]), LAMBDA u : u = w))])
GetTopKChars(col, k) == IF IsString(col) THEN TopK(CharCounts(col), k, Space) ELSE {<<>>}
GetTopKWords(col, k) ==
  IF IsString(col) THEN TopK([w \in GetWords(col) |-> CountOfWord(col, w)], k, <<Space>>) ELSE {<<>>}

(* Rows of a string column by what is in them, and at their ends.          *)
RowsOf(col, rows) == IF IsString(col) THEN {Cardinality(rows)} ELSE {}
GetWhitespaceOnlyCount(col) == RowsOf(col, {i \in DOMAIN col.data : \A j \in DOMAIN col.data[i] : IsSpace(col.data[i][j])})
CharAt(s, pos) == IF pos = "first" THEN Head(s) ELSE Last(s)
GetWhitespaceCount(col, pos) == RowsOf(col, {i \in DOMAIN col.data : IsSpace(CharAt(col.data[i], pos))})
GetNumberOfRowsWithSpecialChars(col) == RowsOf(col, {i \in DOMAIN col.data : Range(col.data[i]) \cap SpecialChars # {}})
CharFrequencies(col, pos) ==
  {<<c, Cardinality({i \in DOMAIN col.data : CharAt(col.data[i], pos) = c})>> : c \in Chars(col)}
GetCharFrequency(col, pos) ==
  IF ~IsString(col) THEN {}
  ELSE {CHOOSE f \in CharFrequencies(col, pos) :
          \A g \in CharFrequencies(col, pos) : g[2] < f[2] \/ (g[2] = f[2] /\ g[1] <= f[1])}

(* How the strings of a column are distributed.                            *)
Probabilities(col) == {<<v, <<Cardinality({i \in DOMAIN col.data : col.data[i] = v}), NumberOfValues(col)>>>> : v \in Range(col.data)}
GetEntropy(col) == IF IsString(col) /\ DOMAIN col.data # {} THEN {[minus_plogp |-> Probabilities(col)]} ELSE {}
GetGiniCoefficient(col) ==
  IF IsString(col) /\ DOMAIN col.data # {}
  THEN {<<NumberOfValues(col) ^ 2 - MapThenSumSet(LAMBDA p : p[2][1] ^ 2, Probabilities(col)), NumberOfValues(col) ^ 2>>}
  ELSE {}

(* What Execute keeps of a column, each statistic from those before it.    *)
Basic(col) ==
  [type |-> col.type, count |-> NumberOfValues(col), distinct |-> Distinct(col), is_categorical |-> IsCategorical(col)]
Quantiles(col) ==
  [min |-> GetMin(col), max |-> GetMax(col), quantile25 |-> GetQuantile(col, <<1, 4>>),
   quantile50 |-> GetQuantile(col, <<1, 2>>), quantile75 |-> GetQuantile(col, <<3, 4>>), monotonicity |-> GetMonotonicity(col)]
Numeric(col) ==
  [sum |-> GetSum(col), avg |-> GetAvg(col), kurtosis |-> GetKurtosis(col), skewness |-> GetSkewness(col), STD |-> GetCorrectedSTD(col),
   num_zeros |-> GetNumberOfZeros(col), zero_percent |-> GetZeroPercent(col), num_negatives |-> GetNumberOfNegatives(col),
   sum_of_squares |-> GetSumOfSquares(col), geometric_mean |-> GetGeometricMean(col), mean_ad |-> GetMeanAD(col),
   median |-> GetMedian(col), median_ad |-> GetMedianAD(col), true_count |-> CountBool(col, 1), false_count |-> CountBool(col, 0)]
Derived(col, q, n) ==
  [interquartile_range |-> GetInterquartileRange(col, q.quantile25, q.quantile75),
   coefficient_of_variation |-> GetCoefficientOfVariation(col, n.STD, n.avg),
   jarque_bera_statistic |-> GetJarqueBeraStatistic(col, n.skewness, n.kurtosis)]
Textual(col) ==
  [vocab |-> GetVocab(col), num_non_letter_chars |-> GetNumberOfNonLetterChars(col), num_digit_chars |-> GetNumberOfDigitChars(col),
   num_lowercase_chars |-> GetNumberOfLowercaseChars(col), num_uppercase_chars |-> GetNumberOfUppercaseChars(col),
   num_chars |-> GetNumberOfChars(col), num_avg_chars |-> GetAvgNumberOfChars(col),
   min_num_chars |-> GetMinNumberOfChars(col), max_num_chars |-> GetMaxNumberOfChars(col),
   min_num_words |-> GetMinNumberOfWords(col), max_num_words |-> GetMaxNumberOfWords(col), num_words |-> GetNumberOfWords(col),
   num_entirely_uppercase |-> GetNumberOfEntirelyUppercaseWords(col),
   num_entirely_lowercase |-> GetNumberOfEntirelyLowercaseWords(col),
   entropy |-> GetEntropy(col), gini_coefficient |-> GetGiniCoefficient(col),
   whitespace_only_count |-> GetWhitespaceOnlyCount(col), leading_whitespace_count |-> GetWhitespaceCount(col, "first"),
   trailing_whitespace_count |-> GetWhitespaceCount(col, "last"), special_chars_count |-> GetNumberOfRowsWithSpecialChars(col),
   first_char_freq |-> GetCharFrequency(col, "first"), last_char_freq |-> GetCharFrequency(col, "last"),
   min_white_spaces |-> GetMinWhiteSpaces(col), max_white_spaces |-> GetMaxWhiteSpaces(col)]
Execute(col) ==
  IF col.type = "mixed" THEN Basic(col)
  ELSE Basic(col) @@ Quantiles(col) @@ Numeric(col) @@ Derived(col, Quantiles(col), Numeric(col)) @@ Textual(col)
-----------------------------------------------------------------------------
(* The types every value of a column can be read as, in any order of them. *)
ReadableAs ==
  [hello |-> {"string"}, abc |-> {"string"}, undelimited |-> {"date", "int", "bigint", "double"}, delimited |-> {"date"},
   zero |-> {"int", "bigint", "double", "bool"}, five |-> {"int", "bigint", "double"}, digits20 |-> {"bigint", "double"},
   real |-> {"double"}, tf |-> {"bool", "string"}, true |-> {"bool"}]
CommonTypes(cells) == {t \in Range(CandidateTypes) : \A i \in DOMAIN cells : IsValue(cells[i]) => t \in ReadableAs[cells[i]]}
TypeIsRight(cells, type) ==
  IF \A i \in DOMAIN cells : ~IsValue(cells[i]) THEN type = "undefined"
  ELSE IF CommonTypes(cells) = {} THEN type = "mixed" ELSE type = FirstOf(CandidateTypes, CommonTypes(cells))
(* Mixed columns are read as strings on demand, or left mixed.             *)
TypesAreRight(cells) ==
  LET type == DeduceColumnType(cells, FALSE) forced == DeduceColumnType(cells, TRUE) IN
  /\ TypeIsRight(cells, type)
  /\ IF type = "mixed" THEN forced \in {"mixed", "string"} ELSE forced = type
  /\ \A i \in DOMAIN cells : IsValue(cells[i]) /\ type = "mixed" => CreateTypeMap(cells, type)[i] \in ReadableAs[cells[i]]
  /\ ~({"int", "bigint"} \subseteq Range(CreateTypeMap(cells, type)))

(* A value at position k of the sorted ones, and the middle of them.       *)
IsAtRank(f, v, k) ==
  /\ Cardinality({i \in DOMAIN f : f[i] < v}) <= k
  /\ k < Cardinality({i \in DOMAIN f : f[i] <= v})
IsMedian(f, x) ==
  LET n == Cardinality(DOMAIN f) IN
  \E low, high \in Range(f) : /\ IsAtRank(f, low, (n - 1) \div 2) /\ IsAtRank(f, high, n \div 2)
                              /\ (low + high) * x[2] = 2 * x[1]
PowerSum(f, k) == SumOf([i \in DOMAIN f |-> f[i] ^ k])
Same(a, b) == a[1] * b[2] = b[1] * a[2]
OnlyOf(S) == CHOOSE v \in S : TRUE

(* The statistics of numbers follow from their ranks and power sums.       *)
RanksAreRight(col, e) ==
  LET n == NumberOfValues(col) q25 == OnlyOf(e.quantile25) q75 == OnlyOf(e.quantile75) median == OnlyOf(e.median) IN
  /\ IsAtRank(col.data, OnlyOf(e.min), 0) /\ IsAtRank(col.data, OnlyOf(e.max), n - 1)
  /\ IsAtRank(col.data, q25, n \div 4) /\ IsAtRank(col.data, OnlyOf(e.quantile50), n \div 2)
  /\ IsAtRank(col.data, q75, (3 * n) \div 4) /\ e.interquartile_range = {q75 - q25}
  /\ IsMedian(col.data, median)
  /\ IsMedian([i \in DOMAIN col.data |-> Distance(col.data[i], median)],
              <<OnlyOf(e.median_ad)[1] * median[2], OnlyOf(e.median_ad)[2]>>)
  /\ e.distinct = Cardinality({i \in DOMAIN col.data : \A j \in DOMAIN col.data : j < i => col.data[j] # col.data[i]})
  /\ "equal" \in e.monotonicity <=> e.min = e.max
  /\ "ascending" \in e.monotonicity => \A i, j \in DOMAIN col.data : i < j => col.data[i] <= col.data[j]
  /\ "none" \in e.monotonicity <=>
       \E i, j, k \in DOMAIN col.data :
         i < j /\ j < k /\ (col.data[j] - col.data[i]) * (col.data[k] - col.data[j]) < 0
MomentsAreRight(col, e) ==
  LET n == NumberOfValues(col) avg == OnlyOf(e.avg)
      S1 == PowerSum(col.data, 1) S2 == PowerSum(col.data, 2) S3 == PowerSum(col.data, 3) S4 == PowerSum(col.data, 4)
      above == {i \in DOMAIN col.data : col.data[i] * n > S1}
  IN /\ e.sum = {S1} /\ e.sum_of_squares = {S2} /\ Same(avg, <<S1, n>>)
     /\ n > 1 => Same(OnlyOf(e.STD).root, <<n * S2 - S1 ^ 2, n * (n - 1)>>)
     /\ Same(OnlyOf(e.skewness).moment, <<n ^ 2 * S3 - 3 * n * S1 * S2 + 2 * S1 ^ 3, n ^ 3>>)
     /\ Same(OnlyOf(GetStandardizedCentralMomentOfDist(col, 4)).moment,
             <<n ^ 3 * S4 - 4 * n ^ 2 * S1 * S3 + 6 * n * S1 ^ 2 * S2 - 3 * S1 ^ 4, n ^ 4>>)
     /\ Same(OnlyOf(e.mean_ad), <<2 * SumOf([i \in above |-> col.data[i] * n - S1]), n ^ 2>>)
     /\ e.coefficient_of_variation = {} <=> S1 = 0
     /\ e.jarque_bera_statistic = {} <=> n = 1
SignsAreRight(col, e) ==
  /\ e.geometric_mean = {} <=> OnlyOf(e.num_negatives) > 0
  /\ OnlyOf(e.num_zeros) > 0 => \A g \in e.geometric_mean : g.product = 0
  /\ col.nulls = {} => \A z \in e.zero_percent : Same(z, <<OnlyOf(e.num_zeros), e.count>>)
  /\ e.vocab = {} /\ e.true_count = {}
ColumnIsRight(col, e) ==
  /\ GetNullColumns(<<col>>) \subseteq GetColumnsWithNull(<<col>>)
  /\ GetColumnsWithUniqueValues(<<col>>) \cap GetColumnsWithNull(<<col>>) = {}
  /\ e.is_categorical => e.count < 2 \/ e.distinct < e.count
NumbersAreRight(col) ==
  LET e == Execute(col) IN
  TotalIsAsserted(col) =>
  /\ ColumnIsRight(col, e)
  /\ IsNumeric(col) => RanksAreRight(col, e) /\ MomentsAreRight(col, e) /\ SignsAreRight(col, e)

(* Those of strings follow from their characters and words.                *)
Number(stat) == OnlyOf(stat)
CharsAreRight(col, e) ==
  /\ Number(e.num_non_letter_chars) + Number(e.num_lowercase_chars) + Number(e.num_uppercase_chars) = Number(e.num_chars)
  /\ Number(e.min_num_chars) * e.count <= Number(e.num_chars) /\ Number(e.num_chars) <= Number(e.max_num_chars) * e.count
  /\ \A top \in GetTopKChars(col, Cardinality(Chars(col)) + 1) : Range(top) = Chars(col) \cup {Space} /\ Last(top) = Space
  /\ \A top \in GetTopKWords(col, 1), w \in GetWords(col) : CountOfWord(col, w) <= CountOfWord(col, top[1])
  /\ \A pos \in {"first", "last"}, c \in Chars(col) :
       LET f == Number(GetCharFrequency(col, pos)) IN
       Cardinality({i \in DOMAIN col.data : CharAt(col.data[i], pos) = c}) <= f[2]
WordsAreRight(col, e) ==
  /\ \A i \in DOMAIN col.data :
       /\ FlattenSeq(GetWordsInString(col.data[i])) = SelectSeq(col.data[i], LAMBDA c : ~IsSpace(c))
       /\ Len(GetWordsInString(col.data[i])) = GetNumberOfWordsInString(col.data[i])
  /\ Number(e.num_words) = SumOf([i \in DOMAIN col.data |-> Len(GetWordsInString(col.data[i]))])
  /\ Number(e.whitespace_only_count) = Cardinality({i \in DOMAIN col.data : GetWordsInString(col.data[i]) = <<>>})
  /\ Number(e.whitespace_only_count) > 0 <=> Number(e.min_num_words) = 0
  /\ Number(e.whitespace_only_count) <= Min({Number(e.leading_whitespace_count), Number(e.trailing_whitespace_count)})
  /\ Number(e.num_entirely_uppercase) + Number(e.num_entirely_lowercase)
       >= Cardinality({w \in GetWords(col) : IsEntirelyUppercase(w) \/ IsEntirelyLowercase(w)})
SpreadIsRight(col, e) ==
  /\ Same(Number(e.gini_coefficient),
          <<Cardinality({p \in (DOMAIN col.data) \X (DOMAIN col.data) : col.data[p[1]] # col.data[p[2]]}), e.count ^ 2>>)
  /\ FoldSet(LAMBDA p, n : n + p[2][1], 0, Number(e.entropy).minus_plogp) = e.count
TextsAreRight(col) ==
  LET e == Execute(col) IN
  /\ ColumnIsRight(col, e)
  /\ IsString(col) => CharsAreRight(col, e) /\ WordsAreRight(col, e) /\ SpreadIsRight(col, e)
=============================================================================
