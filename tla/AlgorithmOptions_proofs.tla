----------------------- MODULE AlgorithmOptions_proofs ----------------------
(***************************************************************************)
(* Proofs about AlgorithmOptions, for every algorithm whose options are    *)
(* layered: an option's functions read the fields of those options only    *)
(* that have led to it.  Nothing of MCAlgorithmOptions is used for them.   *)
(* Then, that the three verifiers of MCAlgorithmOptions are such           *)
(* algorithms, and what is special to two of them.                         *)
(***************************************************************************)
EXTENDS MCAlgorithmOptions, TLAPS

CONSTANTS
  Uses(_),       \* the options whose fields an option's functions read
  Loading(_)     \* the options of an algorithm that loading asks for

(* Each option reads what was set on the way to it, and an option that is  *)
(* asked for again when the algorithm executes is not one of loading.      *)
LayeredRegistration ==
  \A a \in Algorithms :
    /\ LoadOptions(a) \subseteq Loading(a) /\ ExecuteOptions(a) \cap Loading(a) = {}
    /\ \A o \in LoadOptions(a) \cup ExecuteOptions(a) : Uses(o) = {}
    /\ \A o \in Options(a) :
         /\ o \notin Uses(o)
         /\ \A v, field : \A c \in CondOpts(o, v, field) :
              /\ c \in Options(a) /\ Uses(c) \subseteq Uses(o) \cup {o}
              /\ c \in Loading(a) <=> o \in Loading(a)
         /\ \A v, f, g : (\A u \in Uses(o) : f[u] = g[u]) =>
              /\ Accepts(o, v, f) <=> Accepts(o, v, g)
              /\ DefaultOf(o, f) = DefaultOf(o, g) /\ CondOpts(o, v, f) = CondOpts(o, v, g)
-----------------------------------------------------------------------------
(* The inductive invariant.                                                *)

(* What SetOption, UnsetOption and the end of a round are applied to.      *)
IsRegistry(s) ==
  /\ s = [algorithm |-> s.algorithm, available |-> s.available, set |-> s.set,
          field |-> s.field, children |-> s.children]
  /\ s.algorithm \in Algorithms
  /\ s.field = [o \in Options(s.algorithm) |-> s.field[o]]
  /\ s.children \in [Options(s.algorithm) -> SUBSET Options(s.algorithm)]
  /\ s.available \subseteq Options(s.algorithm) /\ s.set \subseteq Options(s.algorithm)
  /\ \A o \in s.set \ ClearedOptions : s.field[o] # NoValue

Called(s) == UNION {CondOpts(o, s.field[o], s.field) : o \in s.available \cap s.set}

(* What holds of the registry unless somebody else set options or data was *)
(* loaded twice: whatever is available was called for, and what called for *)
(* it is still set, to values that still pass their checks.                *)
Layered(s, base) ==
  /\ s.available = base \cup Called(s)
  /\ \A o \in s.available : Uses(o) \subseteq s.available \cap s.set
  /\ \A o \in s.available \cap s.set : Accepts(o, s.field[o], s.field)
InItsRound(s, data) ==
  IF data THEN s.available \cap Loading(s.algorithm) = {} /\ s.set \ s.available \subseteq Loading(s.algorithm)
  ELSE s.set \subseteq s.available /\ s.available \subseteq Loading(s.algorithm)

(* The snapshot, in both passes.                                           *)
SnapshotInv ==
  stage \in {"first", "second"} =>
    /\ pending \cup empty \subseteq opts.available \ opts.set /\ pending \cap empty = {}
    /\ \A o \in empty : request[o] = NoValue

(* What is set was set in this call, to what was given or to the default.  *)
Chosen(s, o, v) == IF v = NoValue THEN Default(o, s.field) ELSE v
SetAsAsked(s, r) ==
  \A o \in s.available \cap s.set : s.field[o] = Chosen(s, o, r[o])
CallInv == IF stage = "idle" THEN Active = {} ELSE SetAsAsked(opts, request)

OptionsInv ==
  /\ TypeOK /\ IsRegistry(opts) /\ SnapshotInv
  /\ disturbed # "forever" => Layered(opts, Base) /\ InItsRound(opts, loaded)
  /\ disturbed = "no" => CallInv
-----------------------------------------------------------------------------
(* What the operations of the registry do.                                 *)

Written(field, o, v) == [field EXCEPT ![o] = v]

(* Assign sets one option and makes the options it calls for available.    *)
LEMMA AssignMakes ==
  ASSUME NEW s, IsRegistry(s), NEW o \in Options(s.algorithm), NEW v, NEW new, new = CondOpts(o, v, s.field)
  PROVE  Assign(s, o, v) =
           [algorithm |-> s.algorithm, available |-> s.available \cup new, set |-> s.set \cup {o},
            field |-> Written(s.field, o, v), children |-> [s.children EXCEPT ![o] = @ \cup new]]
<1>1. /\ s = [algorithm |-> s.algorithm, available |-> s.available, set |-> s.set,
               field |-> s.field, children |-> s.children]
      /\ s.children \in [Options(s.algorithm) -> SUBSET Options(s.algorithm)]
      /\ s.field = [x \in Options(s.algorithm) |-> s.field[x]]
  BY DEF IsRegistry
<1>2. Assign(s, o, v) = [s EXCEPT !.set = @ \cup {o}, !.field[o] = v,
                                  !.available = @ \cup new, !.children[o] = @ \cup new]
  BY DEF Assign
<1> QED BY <1>1, <1>2 DEF Written

(* Field by field.                                                         *)
LEMMA AssignIs ==
  ASSUME NEW s, IsRegistry(s), NEW o \in Options(s.algorithm), NEW v
  PROVE  /\ Assign(s, o, v).algorithm = s.algorithm
         /\ Assign(s, o, v).available = s.available \cup CondOpts(o, v, s.field)
         /\ Assign(s, o, v).set = s.set \cup {o}
         /\ Assign(s, o, v).field = Written(s.field, o, v)
<1>1. PICK new : new = CondOpts(o, v, s.field)
  OBVIOUS
<1> QED BY <1>1, AssignMakes

(* The result is a registry.                                               *)
LEMMA AssignIsRegistry ==
  ASSUME LayeredRegistration, NEW s, IsRegistry(s), NEW o \in Options(s.algorithm), NEW v, v # NoValue
  PROVE  IsRegistry(Assign(s, o, v))
<1>1. PICK t : t = Assign(s, o, v)
  OBVIOUS
<1>2. PICK new : new = CondOpts(o, v, s.field)
  OBVIOUS
<1>3. t = [algorithm |-> s.algorithm, available |-> s.available \cup new, set |-> s.set \cup {o},
           field |-> Written(s.field, o, v), children |-> [s.children EXCEPT ![o] = @ \cup new]]
  BY <1>1, <1>2, AssignMakes
<1>4. /\ s.children \in [Options(s.algorithm) -> SUBSET Options(s.algorithm)]
      /\ s.field = [x \in Options(s.algorithm) |-> s.field[x]]
      /\ new \subseteq Options(s.algorithm)
  BY <1>2 DEF LayeredRegistration, IsRegistry
<1>5. t.field = [x \in Options(s.algorithm) |-> t.field[x]] /\ t.field[o] = v
      /\ \A x \in Options(s.algorithm) : x # o => t.field[x] = s.field[x]
  BY <1>3, <1>4 DEF Written
<1>6. t.children \in [Options(s.algorithm) -> SUBSET Options(s.algorithm)]
  BY <1>3, <1>4
<1>7. \A x \in t.set \ ClearedOptions : t.field[x] # NoValue
  BY <1>3, <1>5 DEF IsRegistry
<1>8. t = [algorithm |-> t.algorithm, available |-> t.available, set |-> t.set,
           field |-> t.field, children |-> t.children]
      /\ t.algorithm = s.algorithm /\ t.available = s.available \cup new /\ t.set = s.set \cup {o}
  BY <1>3
<1>9. IsRegistry(t)
  BY <1>4, <1>5, <1>6, <1>7, <1>8 DEF IsRegistry
<1> QED BY <1>1, <1>9

(* An option that is not set is set, or nothing is changed.                *)
LEMMA SetOptionIs ==
  ASSUME NEW s, NEW o \in s.available \ s.set, NEW v
  PROVE  \/ SetOption(s, o, v) = [opts |-> s, result |-> "rejected"]
         \/ \E w : /\ w = Chosen(s, o, v)
                   /\ w # NoValue /\ Accepts(o, w, s.field)
                   /\ SetOption(s, o, v) = [opts |-> Assign(s, o, w), result |-> "ok"]
<1>1. PICK w : w = Chosen(s, o, v)
  OBVIOUS
<1>2. SetOption(s, o, v) = IF w = NoValue \/ ~Accepts(o, w, s.field)
                           THEN [opts |-> s, result |-> "rejected"]
                           ELSE [opts |-> Assign(s, o, w), result |-> "ok"]
  BY <1>1 DEF SetOption, Chosen
<1> QED BY <1>1, <1>2

(* UnsetOption, and the end of a round, leave a registry.                  *)
LEMMA UnsetOptionIs ==
  ASSUME NEW s, IsRegistry(s), NEW o \in Options(s.algorithm)
  PROVE  IsRegistry(UnsetOption(s, o)) /\ UnsetOption(s, o).algorithm = s.algorithm
<1> DEFINE t == UnsetOption(s, o)
<1>1. /\ s = [algorithm |-> s.algorithm, available |-> s.available, set |-> s.set,
               field |-> s.field, children |-> s.children]
      /\ s.children \in [Options(s.algorithm) -> SUBSET Options(s.algorithm)]
  BY DEF IsRegistry
<1>2. CASE o \notin s.available
  BY <1>2 DEF UnsetOption
<1>3. CASE o \in s.available
  <2>1. t = [algorithm |-> s.algorithm, available |-> s.available \ s.children[o], set |-> s.set \ {o},
             field |-> s.field, children |-> [s.children EXCEPT ![o] = {}]]
    <3>1. t = ExcludeOptions([s EXCEPT !.set = @ \ {o}], o)
      BY <1>3 DEF UnsetOption
    <3>2. [s EXCEPT !.set = @ \ {o}]
            = [algorithm |-> s.algorithm, available |-> s.available, set |-> s.set \ {o},
               field |-> s.field, children |-> s.children]
      BY <1>1
    <3> QED BY <3>1, <3>2 DEF ExcludeOptions
  <2>2. [s.children EXCEPT ![o] = {}] \in [Options(s.algorithm) -> SUBSET Options(s.algorithm)]
    BY <1>1
  <2> HIDE DEF t
  <2> QED BY <2>1, <2>2 DEF IsRegistry, t
<1> QED BY <1>2, <1>3

(* SetOption leaves a registry, whatever it is given.                      *)
LEMMA AnySetOptionIs ==
  ASSUME LayeredRegistration, NEW s, IsRegistry(s), NEW o \in Options(s.algorithm), NEW v
  PROVE  IsRegistry(SetOption(s, o, v).opts) /\ SetOption(s, o, v).opts.algorithm = s.algorithm
<1>1. PICK u : u = IF o \in s.set THEN UnsetOption(s, o) ELSE s
  OBVIOUS
<1>2. PICK w : w = IF v = NoValue THEN Default(o, u.field) ELSE v
  OBVIOUS
<1>3. IsRegistry(u) /\ u.algorithm = s.algorithm
  <2>1. CASE o \in s.set
    BY <1>1, <2>1, UnsetOptionIs
  <2>2. CASE o \notin s.set
    BY <1>1, <2>2
  <2> QED BY <2>1, <2>2
<1>4. w # NoValue => IsRegistry(Assign(u, o, w)) /\ Assign(u, o, w).algorithm = s.algorithm
  <2>1. IsRegistry(u) /\ o \in Options(u.algorithm) /\ u.algorithm = s.algorithm
    BY <1>3
  <2>2. /\ Assign(u, o, w).algorithm = u.algorithm
        /\ w # NoValue => IsRegistry(Assign(u, o, w))
    BY <2>1, AssignIs, AssignIsRegistry
  <2> QED BY <2>1, <2>2
<1>5. SetOption(s, o, v) =
        IF o \notin s.available THEN [opts |-> s, result |-> "invalid"]
        ELSE IF w = NoValue \/ ~Accepts(o, w, u.field) THEN [opts |-> u, result |-> "rejected"]
        ELSE [opts |-> Assign(u, o, w), result |-> "ok"]
  BY <1>1, <1>2 DEF SetOption
<1> QED BY <1>3, <1>4, <1>5

(* The registry when a round ends, with X set and Y available.             *)
LEMMA StartRoundIs ==
  ASSUME NEW s, IsRegistry(s), NEW X, X \subseteq s.set
  PROVE  /\ IsRegistry(StartRound([s EXCEPT !.set = X]))
         /\ StartRound([s EXCEPT !.set = X]).algorithm = s.algorithm
         /\ StartRound([s EXCEPT !.set = X]).available = ExecuteOptions(s.algorithm)
         /\ StartRound([s EXCEPT !.set = X]).set = X
<1> DEFINE u == [s EXCEPT !.set = X]
           t == StartRound(u)
<1>1. /\ s = [algorithm |-> s.algorithm, available |-> s.available, set |-> s.set,
               field |-> s.field, children |-> s.children]
      /\ s.field = [x \in Options(s.algorithm) |-> s.field[x]]
      /\ s.children \in [Options(s.algorithm) -> SUBSET Options(s.algorithm)]
  BY DEF IsRegistry
<1>2. u = [algorithm |-> s.algorithm, available |-> s.available, set |-> X,
           field |-> s.field, children |-> s.children]
  BY <1>1
<1>3. t = [algorithm |-> s.algorithm, available |-> ExecuteOptions(s.algorithm), set |-> X,
           field |-> [o \in Options(s.algorithm) |-> IF o \in ClearedOptions THEN NoValue ELSE s.field[o]],
           children |-> [o \in Options(s.algorithm) |-> {}]]
  <2> HIDE DEF u
  <2>1. /\ DOMAIN s.field = Options(s.algorithm) /\ DOMAIN s.children = Options(s.algorithm)
        /\ u.field = s.field /\ u.children = s.children /\ u.algorithm = s.algorithm
    BY <1>1, <1>2
  <2>2. PICK F : F = [o \in DOMAIN u.field |-> IF o \in ClearedOptions THEN NoValue ELSE u.field[o]]
    OBVIOUS
  <2>3. PICK C : C = [o \in DOMAIN u.children |-> {}]
    OBVIOUS
  <2>4. t = [u EXCEPT !.available = ExecuteOptions(u.algorithm), !.children = C, !.field = F]
    BY <2>2, <2>3 DEF StartRound
  <2>5. /\ F = [o \in Options(s.algorithm) |-> IF o \in ClearedOptions THEN NoValue ELSE s.field[o]]
        /\ C = [o \in Options(s.algorithm) |-> {}]
    BY <2>1, <2>2, <2>3
  <2>6. t = [algorithm |-> s.algorithm, available |-> ExecuteOptions(s.algorithm), set |-> X,
             field |-> F, children |-> C]
    BY <1>2, <2>1, <2>4
  <2> QED BY <2>5, <2>6
<1>4. IsRegistry(t)
  <2> HIDE DEF t
  <2>1. ExecuteOptions(s.algorithm) \subseteq Options(s.algorithm) /\ X \subseteq Options(s.algorithm)
    BY OptionsAssumption DEF IsRegistry
  <2>2. \A o \in X \ ClearedOptions : s.field[o] # NoValue
    BY DEF IsRegistry
  <2> QED BY <1>3, <2>1, <2>2 DEF IsRegistry
<1> HIDE DEF t
<1> QED BY <1>3, <1>4 DEF t
-----------------------------------------------------------------------------
(* Setting an option whose turn has come.                                  *)

(* The same defaults to choose from, the same default.                     *)
LEMMA DefaultsAreEqual ==
  ASSUME NEW o, NEW f, NEW g, DefaultOf(o, f) = DefaultOf(o, g)
  PROVE  Default(o, f) = Default(o, g)
<1>1. Default(o, f) = IF DefaultOf(o, f) = {} THEN NoValue ELSE CHOOSE v \in DefaultOf(o, f) : TRUE
  BY DEF Default
<1>2. Default(o, g) = IF DefaultOf(o, g) = {} THEN NoValue ELSE CHOOSE v \in DefaultOf(o, g) : TRUE
  BY DEF Default
<1>3. (CHOOSE v \in DefaultOf(o, f) : TRUE) = (CHOOSE v \in DefaultOf(o, g) : TRUE)
  OBVIOUS
<1> QED BY <1>1, <1>2, <1>3

(* Only that option becomes active, and what the others read stays what it *)
(* was: so do their checks, their defaults and what they call for.         *)
LEMMA OthersReadTheSame ==
  ASSUME LayeredRegistration, NEW s, IsRegistry(s), NEW o \in s.available \ s.set, NEW v,
         NEW base, Layered(s, base), NEW f, f = Written(s.field, o, v)
  PROVE  \A x \in (s.available \cap s.set) \cup {o} :
           /\ f[x] = IF x = o THEN v ELSE s.field[x]
           /\ \A w : Accepts(x, w, f) <=> Accepts(x, w, s.field)
           /\ Default(x, f) = Default(x, s.field)
           /\ \A w : CondOpts(x, w, f) = CondOpts(x, w, s.field)
<1> SUFFICES ASSUME NEW x \in (s.available \cap s.set) \cup {o}
             PROVE  /\ f[x] = IF x = o THEN v ELSE s.field[x]
                    /\ \A w : Accepts(x, w, f) <=> Accepts(x, w, s.field)
                    /\ Default(x, f) = Default(x, s.field)
                    /\ \A w : CondOpts(x, w, f) = CondOpts(x, w, s.field)
  OBVIOUS
<1>1. /\ s.field = [y \in Options(s.algorithm) |-> s.field[y]] /\ o \in Options(s.algorithm)
      /\ s.available \subseteq Options(s.algorithm) /\ s.algorithm \in Algorithms
  BY DEF IsRegistry
<1>2. \A y \in Options(s.algorithm) : f[y] = IF y = o THEN v ELSE s.field[y]
  BY <1>1 DEF Written
<1>3. x \in Options(s.algorithm) /\ Uses(x) \subseteq s.available \cap s.set
  BY <1>1 DEF Layered
<1>4. \A u \in Uses(x) : f[u] = s.field[u]
  BY <1>1, <1>2, <1>3
<1>5. \A w : /\ Accepts(x, w, f) <=> Accepts(x, w, s.field)
             /\ DefaultOf(x, f) = DefaultOf(x, s.field) /\ CondOpts(x, w, f) = CondOpts(x, w, s.field)
  BY <1>1, <1>3, <1>4 DEF LayeredRegistration
<1>6. DefaultOf(x, f) = DefaultOf(x, s.field)
  BY <1>5
<1>7. Default(x, f) = Default(x, s.field)
  BY <1>6, DefaultsAreEqual
<1> QED BY <1>1, <1>2, <1>3, <1>5, <1>7

(* What the option calls for has not been set in this round yet.           *)
LEMMA OneMoreIsActive ==
  ASSUME LayeredRegistration, NEW s, IsRegistry(s), NEW o \in s.available \ s.set, NEW v,
         NEW data, InItsRound(s, data)
  PROVE  /\ (s.available \cup CondOpts(o, v, s.field)) \cap (s.set \cup {o}) = (s.available \cap s.set) \cup {o}
         /\ v # NoValue => InItsRound(Assign(s, o, v), data)
<1>1. /\ o \in Options(s.algorithm) /\ s.algorithm \in Algorithms
      /\ \A c \in CondOpts(o, v, s.field) : c \in Loading(s.algorithm) <=> o \in Loading(s.algorithm)
  BY DEF IsRegistry, LayeredRegistration
<1> DEFINE new == CondOpts(o, v, s.field)
<1>2. data => new \cap Loading(s.algorithm) = {}
  <2>1. data => o \notin Loading(s.algorithm)
    BY DEF InItsRound
  <2> QED BY <1>1, <2>1
<1>3. ~data => new \subseteq Loading(s.algorithm)
  <2>1. ~data => o \in Loading(s.algorithm)
    BY DEF InItsRound
  <2> QED BY <1>1, <2>1
<1>4. (s.available \cup new) \cap (s.set \cup {o}) = (s.available \cap s.set) \cup {o}
  <2>1. new \cap s.set \subseteq s.available
    BY <1>2 DEF InItsRound
  <2> HIDE DEF new
  <2> QED BY <1>1, <2>1
<1>5. ASSUME v # NoValue PROVE InItsRound(Assign(s, o, v), data)
  <2>1. PICK t : t = Assign(s, o, v)
    OBVIOUS
  <2>2. t.algorithm = s.algorithm /\ t.available = s.available \cup new /\ t.set = s.set \cup {o}
    BY <1>1, <2>1, AssignIs
  <2> HIDE DEF new
  <2>3. InItsRound(t, data)
    BY <1>2, <1>3, <2>2 DEF InItsRound
  <2> QED BY <2>1, <2>3
<1> QED BY <1>4, <1>5

(* The registry stays layered.                                             *)
LEMMA AssignKeepsLayers ==
  ASSUME LayeredRegistration, NEW s, IsRegistry(s), NEW o \in s.available \ s.set, NEW v, v # NoValue,
         Accepts(o, v, s.field), NEW base, Layered(s, base), NEW data, InItsRound(s, data)
  PROVE  Layered(Assign(s, o, v), base) /\ InItsRound(Assign(s, o, v), data)
<1>0. PICK t : t = Assign(s, o, v)
  OBVIOUS
<1> DEFINE new == CondOpts(o, v, s.field)
           active == s.available \cap s.set
<1>1. /\ t.algorithm = s.algorithm /\ t.available = s.available \cup new /\ t.set = s.set \cup {o}
      /\ t.field = Written(s.field, o, v)
      /\ o \in Options(s.algorithm) /\ s.algorithm \in Algorithms /\ o \notin active
      /\ InItsRound(t, data)
  <2>1. o \in Options(s.algorithm) /\ s.algorithm \in Algorithms /\ o \notin active
    BY DEF IsRegistry
  <2>2. /\ t.algorithm = s.algorithm /\ t.available = s.available \cup new /\ t.set = s.set \cup {o}
        /\ t.field = Written(s.field, o, v)
    BY <1>0, <2>1, AssignIs
  <2>3. InItsRound(t, data)
    BY <1>0, OneMoreIsActive
  <2> QED BY <2>1, <2>2, <2>3
<1>2. t.available \cap t.set = active \cup {o}
  BY <1>1, OneMoreIsActive
<1>3. \A x \in active \cup {o} :
        /\ t.field[x] = IF x = o THEN v ELSE s.field[x]
        /\ \A w : Accepts(x, w, t.field) <=> Accepts(x, w, s.field)
        /\ \A w : CondOpts(x, w, t.field) = CondOpts(x, w, s.field)
  <2>1. PICK f : f = Written(s.field, o, v)
    OBVIOUS
  <2>2. \A x \in active \cup {o} :
          /\ f[x] = IF x = o THEN v ELSE s.field[x]
          /\ \A w : Accepts(x, w, f) <=> Accepts(x, w, s.field)
          /\ \A w : CondOpts(x, w, f) = CondOpts(x, w, s.field)
    BY <2>1, OthersReadTheSame
  <2> QED BY <1>1, <2>1, <2>2
<1>4. Called(t) = Called(s) \cup new
  <2>1. \A x \in active : CondOpts(x, t.field[x], t.field) = CondOpts(x, s.field[x], s.field)
    BY <1>1, <1>3
  <2>2. CondOpts(o, t.field[o], t.field) = new
    BY <1>3
  <2> HIDE DEF new
  <2> QED BY <1>2, <2>1, <2>2 DEF Called
<1>5. t.available = base \cup Called(t)
  BY <1>1, <1>4 DEF Layered
<1>6. \A x \in t.available : Uses(x) \subseteq t.available \cap t.set
  <2>1. \A x \in s.available : Uses(x) \subseteq active
    BY DEF Layered
  <2>2. \A x \in new : Uses(x) \subseteq Uses(o) \cup {o}
    BY <1>1 DEF LayeredRegistration
  <2> HIDE DEF new, active
  <2> QED BY <1>1, <1>2, <2>1, <2>2
<1>7. \A x \in t.available \cap t.set : Accepts(x, t.field[x], t.field)
  BY <1>1, <1>2, <1>3 DEF Layered
<1> QED BY <1>1, <1>5, <1>6, <1>7, <1>0 DEF Layered

(* And what is set is what was asked for.                                  *)
LEMMA AssignKeepsAsked ==
  ASSUME LayeredRegistration, NEW s, IsRegistry(s), NEW o \in s.available \ s.set, NEW v, v # NoValue,
         NEW base, Layered(s, base), NEW data, InItsRound(s, data), NEW r, SetAsAsked(s, r),
         v = Chosen(s, o, r[o])
  PROVE  SetAsAsked(Assign(s, o, v), r)
<1>1. PICK t : t = Assign(s, o, v)
  OBVIOUS
<1>2. o \in Options(s.algorithm)
  BY DEF IsRegistry
<1>3. /\ t.available = s.available \cup CondOpts(o, v, s.field) /\ t.set = s.set \cup {o}
      /\ t.field = Written(s.field, o, v)
  <2>1. /\ Assign(s, o, v).available = s.available \cup CondOpts(o, v, s.field)
        /\ Assign(s, o, v).set = s.set \cup {o} /\ Assign(s, o, v).field = Written(s.field, o, v)
    BY <1>2, AssignIs
  <2> QED BY <1>1, <2>1
<1>4. t.available \cap t.set = (s.available \cap s.set) \cup {o}
  BY <1>3, OneMoreIsActive
<1>5. \A x \in (s.available \cap s.set) \cup {o} :
        /\ t.field[x] = IF x = o THEN v ELSE s.field[x]
        /\ Default(x, t.field) = Default(x, s.field)
  <2>1. PICK f : f = Written(s.field, o, v)
    OBVIOUS
  <2>2. \A x \in (s.available \cap s.set) \cup {o} :
          /\ f[x] = IF x = o THEN v ELSE s.field[x]
          /\ Default(x, f) = Default(x, s.field)
    BY <2>1, OthersReadTheSame
  <2> QED BY <1>3, <2>1, <2>2
<1>6. SetAsAsked(t, r)
  BY <1>4, <1>5 DEF SetAsAsked, Chosen
<1> QED BY <1>1, <1>6

(* When nothing is active and only the base options are available, the     *)
(* next round begins.                                                      *)
LEMMA RoundBegins ==
  ASSUME LayeredRegistration, NEW s, s.algorithm \in Algorithms,
         NEW base, base = LoadOptions(s.algorithm) \/ base = ExecuteOptions(s.algorithm),
         s.available = base, s.available \cap s.set = {}
  PROVE  Layered(s, base)
<1>1. Called(s) = {}
  BY DEF Called
<1>2. \A o \in s.available : Uses(o) = {}
  BY DEF LayeredRegistration
<1> QED BY <1>1, <1>2 DEF Layered

(* What TypeOK says of the registry.                                       *)
LEMMA RegistryTypes ==
  ASSUME NEW s, IsRegistry(s)
  PROVE  /\ s.algorithm \in Algorithms /\ DOMAIN s.field = Options(s.algorithm)
         /\ s.available \subseteq DOMAIN s.field /\ s.set \subseteq DOMAIN s.field
         /\ \A o \in s.set \ ClearedOptions : s.field[o] # NoValue
         /\ s.children \in [DOMAIN s.field -> SUBSET DOMAIN s.field]
<1>1. DOMAIN s.field = Options(s.algorithm)
  BY DEF IsRegistry
<1> QED BY <1>1 DEF IsRegistry
-----------------------------------------------------------------------------
(* Every action keeps the invariant.                                       *)

(* In the beginning the options of loading are available and none is set.  *)
LEMMA OptionsStart == LayeredRegistration /\ Init => OptionsInv
<1> SUFFICES ASSUME LayeredRegistration, Init PROVE OptionsInv
  OBVIOUS
<1>1. PICK a \in Algorithms :
        opts = [algorithm |-> a, available |-> LoadOptions(a), set |-> {},
                field |-> [o \in Options(a) |-> NoValue],
                children |-> [o \in Options(a) |-> {}]]
  BY DEF Init
<1>2. IsRegistry(opts)
  BY <1>1, OptionsAssumption DEF IsRegistry
<1>3. TypeOK
  BY <1>2, RegistryTypes DEF TypeOK, Init, Registered
<1>4. SnapshotInv /\ CallInv
  BY <1>1 DEF Init, SnapshotInv, CallInv, Active
<1>5. Base = LoadOptions(opts.algorithm)
  BY <1>1 DEF Base, Init
<1>6. Layered(opts, Base)
  BY <1>1, <1>5, RoundBegins
<1>7. InItsRound(opts, loaded)
  BY <1>1 DEF Init, InItsRound, LayeredRegistration
<1> QED BY <1>2, <1>3, <1>4, <1>6, <1>7 DEF OptionsInv

(* SetOption in one of the two passes: it sets the option, or throws and   *)
(* changes nothing.                                                        *)
LEMMA SetFromRequestKeeps ==
  ASSUME LayeredRegistration, OptionsInv, stage # "idle", loaded' = loaded,
         NEW o \in opts.available \ opts.set, NEW v, v = request[o], SetFromRequest(o, v)
  PROVE  /\ IsRegistry(opts') /\ disturbed' \in {"no", "once", "forever"} /\ stage' \in {stage, "idle"}
         /\ disturbed' # "forever" => Layered(opts, Base)' /\ InItsRound(opts, loaded)'
         /\ stage' # "idle" => /\ opts.available \subseteq opts'.available /\ opts'.set = opts.set \cup {o}
                               /\ request' = request
         /\ disturbed' = "no" => stage' # "idle" /\ SetAsAsked(opts, request)'
<1>1. PICK b : b = Base
  OBVIOUS
<1>2. IsRegistry(opts) /\ disturbed \in {"no", "once", "forever"}
  BY DEF OptionsInv, TypeOK
<1>3. CASE SetOption(opts, o, v) = [opts |-> opts, result |-> "rejected"]
  <2>1. opts' = opts /\ Return /\ Disturb
    BY <1>3 DEF SetFromRequest
  <2>2. disturbed' # "no" /\ disturbed' \in {"once", "forever"} /\ stage' = "idle"
        /\ (disturbed' # "forever" => disturbed # "forever")
    BY <1>2, <2>1 DEF Disturb, Return
  <2>3. disturbed # "forever" => Layered(opts', Base') /\ InItsRound(opts', loaded')
    <3>1. Base' = Base
      BY <2>1 DEF Base
    <3> QED BY <2>1, <3>1 DEF OptionsInv
  <2> QED BY <1>2, <2>1, <2>2, <2>3
<1>4. ASSUME NEW w, w = Chosen(opts, o, v), w # NoValue,
             Accepts(o, w, opts.field), SetOption(opts, o, v) = [opts |-> Assign(opts, o, w), result |-> "ok"]
      PROVE  /\ IsRegistry(opts') /\ disturbed' = disturbed /\ stage' = stage /\ request' = request
             /\ disturbed # "forever" => Layered(opts', Base') /\ InItsRound(opts', loaded')
             /\ opts.available \subseteq opts'.available /\ opts'.set = opts.set \cup {o}
             /\ disturbed = "no" => SetAsAsked(opts', request')
  <2>1. opts' = Assign(opts, o, w) /\ UNCHANGED <<stage, request, disturbed>>
    BY <1>4 DEF SetFromRequest
  <2>2. o \in Options(opts.algorithm)
    BY <1>2 DEF IsRegistry
  <2>3. /\ IsRegistry(opts') /\ opts'.algorithm = opts.algorithm
        /\ opts.available \subseteq opts'.available /\ opts'.set = opts.set \cup {o}
    <3>1. PICK t : t = Assign(opts, o, w)
      OBVIOUS
    <3>2. IsRegistry(t)
      BY <1>2, <1>4, <2>2, <3>1, AssignIsRegistry
    <3>3. t.algorithm = opts.algorithm /\ opts.available \subseteq t.available /\ t.set = opts.set \cup {o}
      BY <1>2, <2>2, <3>1, AssignIs
    <3> QED BY <2>1, <3>1, <3>2, <3>3
  <2>4. Base' = b
    BY <1>1, <2>3 DEF Base
  <2>5. disturbed # "forever" => Layered(opts, b) /\ InItsRound(opts, loaded)
    BY <1>1 DEF OptionsInv
  <2>6. disturbed # "forever" => Layered(opts', b) /\ InItsRound(opts', loaded)
    BY <1>2, <1>4, <2>1, <2>5, AssignKeepsLayers
  <2>7. ASSUME disturbed = "no" PROVE SetAsAsked(opts', request)
    <3>1. SetAsAsked(opts, request)
      BY <2>7 DEF OptionsInv, CallInv
    <3> QED BY <1>2, <1>4, <2>1, <2>5, <2>7, <3>1, AssignKeepsAsked
  <2> QED BY <2>1, <2>3, <2>4, <2>6, <2>7
<1>5. \/ SetOption(opts, o, v) = [opts |-> opts, result |-> "rejected"]
      \/ \E w : /\ w = Chosen(opts, o, v)
                /\ w # NoValue /\ Accepts(o, w, opts.field)
                /\ SetOption(opts, o, v) = [opts |-> Assign(opts, o, w), result |-> "ok"]
  BY SetOptionIs
<1>6. ASSUME \E w : /\ w = Chosen(opts, o, v)
                    /\ w # NoValue /\ Accepts(o, w, opts.field)
                    /\ SetOption(opts, o, v) = [opts |-> Assign(opts, o, w), result |-> "ok"]
      PROVE  /\ IsRegistry(opts') /\ disturbed' = disturbed /\ stage' = stage /\ request' = request
             /\ disturbed # "forever" => Layered(opts', Base') /\ InItsRound(opts', loaded')
             /\ opts.available \subseteq opts'.available /\ opts'.set = opts.set \cup {o}
             /\ disturbed = "no" => SetAsAsked(opts', request')
  BY <1>4, <1>6
<1> QED BY <1>2, <1>3, <1>5, <1>6

(* The user's own SetOption and UnsetOption: from then on nothing is said  *)
(* of the registry but that it is one.                                     *)
LEMMA DirectKeeps ==
  ASSUME LayeredRegistration, OptionsInv, NEW o \in Registered, DirectUnset(o) \/ \E v : DirectSet(o, v)
  PROVE  OptionsInv'
<1>1. IsRegistry(opts) /\ TypeOK /\ o \in Options(opts.algorithm)
  BY DEF OptionsInv, TypeOK
<1>2. /\ stage = "idle" /\ disturbed' = "forever"
      /\ UNCHANGED <<loaded, stage, purpose, pending, empty>>
      /\ opts' = UnsetOption(opts, o) \/ \E v : opts' = SetOption(opts, o, v).opts
  BY DEF DirectSet, DirectUnset, callVars
<1>3. IsRegistry(opts') /\ opts'.algorithm = opts.algorithm
  BY <1>1, <1>2, UnsetOptionIs, AnySetOptionIs
<1>4. DOMAIN opts.field = Options(opts.algorithm) /\ DOMAIN opts'.field = Options(opts'.algorithm)
  BY <1>1, <1>3, RegistryTypes
<1>5. TypeOK'
  BY <1>1, <1>2, <1>3, <1>4, RegistryTypes DEF TypeOK, Registered
<1> QED BY <1>2, <1>3, <1>5 DEF OptionsInv, SnapshotInv

(* The steps that leave the registry alone.                                *)
LEMMA WaitingKeeps ==
  ASSUME OptionsInv, UNCHANGED <<opts, loaded>>,
         FetchNeeded \/ BeginDefaults \/ NextRound \/ CallFails \/ \E p \in {"load", "execute"} : \E k : Call(p, k)
  PROVE  OptionsInv'
<1>1. IsRegistry(opts) /\ TypeOK /\ Base' = Base /\ Active' = Active /\ NeededOptions(opts) \subseteq opts.available \ opts.set
  BY DEF OptionsInv, Base, Active, NeededOptions
<1>2. CASE FetchNeeded
  <2>1. TypeOK'
    BY <1>1, <1>2 DEF TypeOK, Registered, FetchNeeded, callVars
  <2>2. SnapshotInv'
    BY <1>1, <1>2 DEF SnapshotInv, FetchNeeded
  <2>3. stage = "loop" /\ stage' # "idle" /\ empty' = {} /\ UNCHANGED <<request, disturbed>>
    BY <1>2 DEF FetchNeeded, callVars
  <2>4. disturbed' = "no" => CallInv'
    BY <2>3 DEF OptionsInv, CallInv
  <2> QED BY <1>1, <2>1, <2>2, <2>3, <2>4 DEF OptionsInv
<1>3. CASE BeginDefaults \/ NextRound
  <2>1. TypeOK'
    BY <1>1, <1>3 DEF TypeOK, Registered, BeginDefaults, NextRound, callVars
  <2>2. SnapshotInv'
    BY <1>1, <1>3 DEF OptionsInv, SnapshotInv, BeginDefaults, NextRound, callVars
  <2>3. stage # "idle" /\ stage' # "idle" /\ UNCHANGED <<request, disturbed, empty>>
        /\ (stage' \in {"first", "second"} => stage \in {"first", "second"})
    BY <1>3 DEF BeginDefaults, NextRound, callVars
  <2>4. disturbed' = "no" => CallInv'
    BY <2>3 DEF OptionsInv, CallInv
  <2> QED BY <1>1, <2>1, <2>2, <2>3, <2>4 DEF OptionsInv
<1>4. CASE CallFails
  <2>1. stage' = "idle" /\ disturbed' \in {"once", "forever"} /\ (disturbed' # "forever" => disturbed # "forever")
    BY <1>1, <1>4 DEF CallFails, Return, Disturb, TypeOK
  <2>2. TypeOK'
    BY <1>1, <1>4, <2>1 DEF TypeOK, Registered, CallFails
  <2> QED BY <1>1, <2>1, <2>2 DEF OptionsInv, SnapshotInv
<1>5. CASE \E p \in {"load", "execute"} : \E k : Call(p, k)
  <2>1. PICK p \in {"load", "execute"} : \E k : Call(p, k)
    BY <1>5
  <2>2. stage = "idle" /\ stage' = "loop" /\ purpose' = p /\ UNCHANGED <<disturbed, pending, empty>>
    BY <2>1 DEF Call
  <2>3. TypeOK'
    BY <1>1, <2>2 DEF TypeOK, Registered
  <2>4. disturbed' = "no" => CallInv'
    <3>1. disturbed = "no" => opts.available \cap opts.set = {}
      BY <2>2 DEF OptionsInv, CallInv, Active
    <3> QED BY <2>2, <3>1 DEF CallInv, SetAsAsked
  <2> QED BY <1>1, <2>2, <2>3, <2>4 DEF OptionsInv, SnapshotInv
<1> QED BY <1>2, <1>3, <1>4, <1>5

(* The two passes over the needed options.                                 *)
LEMMA PassesKeep ==
  ASSUME LayeredRegistration, OptionsInv, NEW o \in Registered, SetGiven(o) \/ SetDefault(o)
  PROVE  OptionsInv'
<1>1. /\ IsRegistry(opts) /\ TypeOK /\ stage \in {"first", "second"} /\ o \in pending \cup empty
      /\ pending \cup empty \subseteq opts.available \ opts.set /\ pending \cap empty = {}
      /\ \A x \in empty : request[x] = NoValue
      /\ UNCHANGED <<loaded, purpose>>
  BY DEF OptionsInv, SnapshotInv, SetGiven, SetDefault
<1>2. ASSUME NEW v, v = request[o], SetFromRequest(o, v),
             pending' \cup empty' \subseteq (pending \cup empty) \ {o}, pending' \cap empty' = {},
             empty' \subseteq empty
      PROVE  OptionsInv'
  <2>1. /\ IsRegistry(opts') /\ disturbed' \in {"no", "once", "forever"} /\ stage' \in {stage, "idle"}
        /\ disturbed' # "forever" => Layered(opts, Base)' /\ InItsRound(opts, loaded)'
        /\ stage' # "idle" => /\ opts.available \subseteq opts'.available /\ opts'.set = opts.set \cup {o}
                              /\ request' = request
        /\ disturbed' = "no" => stage' # "idle" /\ SetAsAsked(opts, request)'
    BY <1>1, <1>2, SetFromRequestKeeps
  <2>2. opts'.algorithm = opts.algorithm
    <3>1. opts' = SetOption(opts, o, v).opts
      BY <1>2 DEF SetFromRequest
    <3>2. o \in Options(opts.algorithm)
      BY <1>1 DEF IsRegistry
    <3> QED BY <1>1, <3>1, <3>2, AnySetOptionIs
  <2>3. DOMAIN opts'.field = Options(opts'.algorithm) /\ DOMAIN opts.field = Options(opts.algorithm)
    BY <1>1, <2>1, RegistryTypes
  <2>4. pending' \subseteq Registered' /\ empty' \subseteq Registered'
    BY <1>1, <1>2, <2>2, <2>3 DEF TypeOK, Registered
  <2>5. TypeOK'
    BY <1>1, <2>1, <2>3, <2>4, RegistryTypes DEF TypeOK, Registered
  <2>6. SnapshotInv'
    BY <1>1, <1>2, <2>1 DEF SnapshotInv
  <2>7. ASSUME disturbed' = "no" PROVE CallInv'
    <3>1. stage' = stage /\ stage' # "idle" /\ request' = request /\ SetAsAsked(opts', request')
      BY <2>1, <2>7
    <3> QED BY <3>1 DEF CallInv
  <2> QED BY <2>1, <2>5, <2>6, <2>7 DEF OptionsInv
<1>3. ASSUME UNCHANGED <<opts, stage, request, disturbed>>,
             pending' \cup empty' \subseteq pending \cup empty, pending' \cap empty' = {},
             \A x \in empty' \ empty : request[x] = NoValue
      PROVE  OptionsInv'
  <2>1. Base' = Base /\ Active' = Active
    BY <1>1, <1>3 DEF Base, Active
  <2>2. TypeOK'
    BY <1>1, <1>3 DEF TypeOK, Registered
  <2>3. SnapshotInv'
    BY <1>1, <1>3 DEF SnapshotInv
  <2>4. disturbed' = "no" => CallInv'
    BY <1>1, <1>3 DEF OptionsInv, CallInv
  <2> QED BY <1>1, <1>3, <2>1, <2>2, <2>3, <2>4 DEF OptionsInv
<1>4. CASE SetGiven(o) /\ request[o] # NoValue
  BY <1>1, <1>2, <1>4 DEF SetGiven
<1>5. CASE SetGiven(o) /\ request[o] = NoValue
  BY <1>1, <1>3, <1>5 DEF SetGiven
<1>6. CASE SetDefault(o) /\ RequiredIf(o, opts.set)
  <2>1. SetFromRequest(o, NoValue) /\ empty' = empty \ {o} /\ pending' = pending /\ o \in empty
    BY <1>6 DEF SetDefault
  <2>2. request[o] = NoValue
    BY <1>1, <2>1
  <2> QED BY <1>1, <1>2, <2>1, <2>2
<1>7. CASE SetDefault(o) /\ ~RequiredIf(o, opts.set)
  BY <1>1, <1>3, <1>7 DEF SetDefault
<1> QED BY <1>4, <1>5, <1>6, <1>7

(* A round ends with X still set, none of it to be asked for again.        *)
LEMMA RoundEnds ==
  ASSUME LayeredRegistration, OptionsInv, stage = "call", stage' = "idle",
         UNCHANGED <<purpose, pending, empty>>, loaded' = TRUE, disturbed' \in {"no", "once", "forever"},
         NEW X, X \subseteq opts.set, opts' = StartRound([opts EXCEPT !.set = X]),
         disturbed' # "forever" => X \subseteq Loading(opts.algorithm)
  PROVE  OptionsInv'
<1>1. IsRegistry(opts) /\ TypeOK
  BY DEF OptionsInv
<1>2. /\ IsRegistry(opts') /\ opts'.algorithm = opts.algorithm
      /\ opts'.available = ExecuteOptions(opts.algorithm) /\ opts'.set = X
  BY <1>1, StartRoundIs
<1>3. DOMAIN opts'.field = Options(opts'.algorithm) /\ DOMAIN opts.field = Options(opts.algorithm)
  BY <1>1, <1>2, RegistryTypes
<1>4. TypeOK'
  BY <1>1, <1>2, <1>3, RegistryTypes DEF TypeOK, Registered
<1>5. SnapshotInv'
  BY DEF SnapshotInv
<1>6. ASSUME disturbed' # "forever"
      PROVE  Layered(opts, Base)' /\ InItsRound(opts, loaded)' /\ Active' = {}
  <2>1. opts.algorithm \in Algorithms /\ ExecuteOptions(opts.algorithm) \cap Loading(opts.algorithm) = {}
    BY <1>1 DEF IsRegistry, LayeredRegistration
  <2>2. opts'.available \cap opts'.set = {} /\ Base' = ExecuteOptions(opts'.algorithm)
    BY <1>2, <1>6, <2>1 DEF Base
  <2>3. Layered(opts', Base')
    <3>1. PICK b : b = Base'
      OBVIOUS
    <3>2. Layered(opts', b)
      BY <1>2, <2>1, <2>2, <3>1, RoundBegins
    <3> QED BY <3>1, <3>2
  <2>4. InItsRound(opts', loaded')
    BY <1>2, <1>6, <2>1 DEF InItsRound
  <2> QED BY <2>2, <2>3, <2>4 DEF Active
<1>7. disturbed' = "no" => CallInv'
  BY <1>6 DEF CallInv
<1> QED BY <1>2, <1>4, <1>5, <1>6, <1>7 DEF OptionsInv

(* LoadData keeps what loading set; Execute unsets what was available.     *)
LEMMA CallsKeep ==
  ASSUME LayeredRegistration, OptionsInv, LoadData \/ Execute
  PROVE  OptionsInv'
<1>1. IsRegistry(opts) /\ disturbed \in {"no", "once", "forever"}
  BY DEF OptionsInv, TypeOK
<1>2. CASE LoadData
  <2>1. opts' = StartRound([opts EXCEPT !.set = opts.set])
    <3>1. opts = [opts EXCEPT !.set = opts.set]
      BY <1>1 DEF IsRegistry
    <3> QED BY <1>2, <3>1 DEF LoadData
  <2>2. disturbed' # "forever" => opts.set \subseteq Loading(opts.algorithm)
    BY <1>2 DEF LoadData, OptionsInv, InItsRound
  <2>3. /\ stage = "call" /\ stage' = "idle" /\ UNCHANGED <<purpose, pending, empty>>
        /\ loaded' = TRUE /\ disturbed' \in {"no", "once", "forever"}
    BY <1>1, <1>2 DEF LoadData, Return
  <2> QED BY <2>1, <2>2, <2>3, RoundEnds
<1>3. CASE Execute
  <2>1. opts' = StartRound([opts EXCEPT !.set = opts.set \ opts.available])
    BY <1>3 DEF Execute
  <2>2. /\ stage = "call" /\ stage' = "idle" /\ UNCHANGED <<purpose, pending, empty>>
        /\ loaded = TRUE /\ loaded' = TRUE /\ disturbed' \in {"no", "once", "forever"}
        /\ disturbed' # "forever" => disturbed # "forever"
    BY <1>1, <1>3 DEF Execute, MayStart, Return, Recover, OptionsInv, TypeOK
  <2>3. disturbed' # "forever" => opts.set \ opts.available \subseteq Loading(opts.algorithm)
    BY <2>2 DEF OptionsInv, InItsRound
  <2>4. opts.set \ opts.available \subseteq opts.set
    OBVIOUS
  <2> QED BY <2>1, <2>2, <2>3, <2>4, RoundEnds
<1> QED BY <1>2, <1>3

(* One case per action.                                                    *)
LEMMA OptionsKeep ==
  LayeredRegistration /\ OptionsInv /\ [Next]_optionVars => OptionsInv'
<1> SUFFICES ASSUME LayeredRegistration, OptionsInv, [Next]_optionVars
             PROVE  OptionsInv'
  OBVIOUS
<1>1. CASE LoadData \/ Execute
  BY <1>1, CallsKeep
<1>2. CASE \E o \in Registered : SetGiven(o) \/ SetDefault(o)
  BY <1>2, PassesKeep
<1>3. CASE \E o \in Registered : DirectUnset(o) \/ \E v : DirectSet(o, v)
  BY <1>3, DirectKeeps
<1>4. CASE FetchNeeded \/ BeginDefaults \/ NextRound \/ CallFails \/ \E p \in {"load", "execute"} : \E k : Call(p, k)
  <2>1. UNCHANGED <<opts, loaded>>
    BY <1>4 DEF FetchNeeded, BeginDefaults, NextRound, CallFails, Call
  <2> QED BY <1>4, <2>1, WaitingKeeps
<1>5. CASE UNCHANGED optionVars
  <2>1. UNCHANGED <<opts, loaded, stage, purpose, request, pending, empty, disturbed>>
    BY <1>5 DEF optionVars
  <2>2. Base' = Base /\ Active' = Active /\ TypeOK' /\ SnapshotInv' /\ CallInv' = CallInv
    BY <2>1 DEF OptionsInv, Base, Active, TypeOK, Registered, SnapshotInv, CallInv
  <2> QED BY <2>1, <2>2 DEF OptionsInv
<1> QED BY <1>1, <1>2, <1>3, <1>4, <1>5 DEF Next, Configure

(* The invariant holds.                                                    *)
LEMMA OptionsHold == ASSUME LayeredRegistration PROVE Spec => []OptionsInv
BY OptionsStart, OptionsKeep, PTL DEF Spec
-----------------------------------------------------------------------------
(* What follows.                                                           *)

(* No option of the snapshot that the first pass works through is set, or  *)
(* withdrawn, before its turn.                                             *)
THEOREM SnapshotAlwaysValid ==
  ASSUME LayeredRegistration PROVE Spec => []SnapshotStaysValid
<1>1. OptionsInv => SnapshotStaysValid
  BY DEF OptionsInv, SnapshotInv, SnapshotStaysValid
<1> QED BY <1>1, OptionsHold, PTL

(* What an algorithm runs on passes its checks under the values that the   *)
(* other options have then, in whatever order they were set and whatever   *)
(* calls failed before.                                                    *)
THEOREM AlwaysRunsOnCheckedValues ==
  ASSUME LayeredRegistration PROVE Spec => []RunsOnCheckedValues
<1>1. OptionsInv => RunsOnCheckedValues
  BY DEF OptionsInv, Layered, Active, RunsOnCheckedValues
<1> QED BY <1>1, OptionsHold, PTL

(* The registry is well formed, and what is available when an algorithm    *)
(* runs is what the values call for.                                       *)
THEOREM RegistryAlwaysRight ==
  ASSUME LayeredRegistration PROVE Spec => []RegistryIsRight
<1>1. OptionsInv => RegistryIsRight
  BY DEF OptionsInv, Layered, Called, Active, RegistryIsRight, AvailableIsClosed
<1> QED BY <1>1, OptionsHold, PTL

(* Undisturbed, an algorithm runs on what this call asked for, else on the *)
(* defaults, and never on what an earlier call left.                       *)
THEOREM RequestAlwaysUsed ==
  ASSUME LayeredRegistration PROVE Spec => []RequestIsUsedUndisturbed
<1>1. OptionsInv => RequestIsUsedUndisturbed
  BY DEF OptionsInv, CallInv, SetAsAsked, Chosen, Active, Running, RequestIsUsedUndisturbed, RequestIsUsed
<1> QED BY <1>1, OptionsHold, PTL
-----------------------------------------------------------------------------
(* The three verifiers.                                                    *)

(* The options that the functions of an option read.                       *)
AllUses(o) ==
  CASE o = "max_eps"          -> {"min_eps"}
    [] o = "min_delta"        -> {"min_eps", "max_eps"}
    [] o = "delta_steps"      -> {"min_delta"}
    [] o = "rhs_indices"      -> {"metric"}
    [] o = "metric_algorithm" -> {"metric", "rhs_indices"}
    [] OTHER                  -> {}

AllLoading(a) == AllLoad(a) \cup (AllNames(a) \cap {"column_indices"})

(* What the configurations give the constants.                             *)
ThreeVerifiers ==
  /\ NoValue \notin {"in", "asc"}
  /\ Algorithms \subseteq {"pac", "metric", "aod"}
  /\ \A a \in Algorithms :
       /\ Options(a) = AllNames(a) /\ LoadOptions(a) = AllLoad(a)
       /\ ExecuteOptions(a) = AllExecute(a) /\ Loading(a) = AllLoading(a)
       /\ \A o \in Options(a) :
            /\ Uses(o) = AllUses(o) /\ Offered(o) = AllOffered(o)
            /\ \A set : RequiredIf(o, set) <=> AllRequired(o, set)
            /\ \A v, field : /\ DefaultOf(o, field) = AllDefault(o, field)
                             /\ Accepts(o, v, field) <=> AllAccepts(o, v, field)
                             /\ CondOpts(o, v, field) = AllCondOpts(o, v, field)

(* What the three register, by name.                                       *)
LEMMA UsesAre ==
  /\ AllUses("max_eps") = {"min_eps"} /\ AllUses("min_delta") = {"min_eps", "max_eps"}
  /\ AllUses("delta_steps") = {"min_delta"} /\ AllUses("rhs_indices") = {"metric"}
  /\ AllUses("metric_algorithm") = {"metric", "rhs_indices"}
  /\ \A o \in (PacNames \cup MetricNames \cup AodNames)
                \ {"max_eps", "min_delta", "delta_steps", "rhs_indices", "metric_algorithm"} :
       AllUses(o) = {}
<1>1. /\ AllUses("max_eps") = {"min_eps"} /\ AllUses("min_delta") = {"min_eps", "max_eps"}
      /\ AllUses("delta_steps") = {"min_delta"}
  BY DEF AllUses
<1>2. /\ AllUses("rhs_indices") = {"metric"}
      /\ AllUses("metric_algorithm") = {"metric", "rhs_indices"}
  BY DEF AllUses
<1>3. \A o : o \notin {"max_eps", "min_delta", "delta_steps", "rhs_indices", "metric_algorithm"}
               => AllUses(o) = {}
  BY DEF AllUses
<1> QED BY <1>1, <1>2, <1>3

(* An option of one verifier is not one of another.                        *)
LEMMA NamesDiffer ==
  /\ PacNames \cap MetricNames = {} /\ PacNames \cap AodNames = {} /\ MetricNames \cap AodNames = {}
BY DEF PacNames, MetricNames, AodNames

(* What the three have registered of an option is what its verifier has. *)
LEMMA PacRegisters ==
  ASSUME NEW o \in PacNames, NEW v, NEW f
  PROVE  /\ AllCondOpts(o, v, f) = PacCondOpts(o, v, f) /\ AllDefault(o, f) = PacDefault(o, f)
         /\ AllAccepts(o, v, f) <=> PacAccepts(o, v, f)
<1>1. o \notin MetricNames /\ o \notin AodNames
  BY NamesDiffer
<1> QED BY <1>1 DEF AllCondOpts, AllDefault, AllAccepts

(* The same for the metric verifier.                                     *)
LEMMA MetricRegisters ==
  ASSUME NEW o \in MetricNames, NEW v, NEW f
  PROVE  /\ AllCondOpts(o, v, f) = MetricCondOpts(o, v, f) /\ AllDefault(o, f) = MetricDefault(o, f)
         /\ AllAccepts(o, v, f) <=> MetricAccepts(o, v, f)
<1>1. o \notin PacNames /\ o \notin AodNames
  BY NamesDiffer
<1> QED BY <1>1 DEF AllCondOpts, AllDefault, AllAccepts

(* The same for the AOD verifier.                                        *)
LEMMA AodRegisters ==
  ASSUME NEW o \in AodNames, NEW v, NEW f
  PROVE  /\ AllCondOpts(o, v, f) = AodCondOpts(o, v, f) /\ AllDefault(o, f) = AodDefault(o, f)
         /\ AllAccepts(o, v, f) <=> AodAccepts(o, v, f)
<1>1. o \notin PacNames /\ o \notin MetricNames
  BY NamesDiffer
<1> QED BY <1>1 DEF AllCondOpts, AllDefault, AllAccepts

(* The options of the PAC verifier are a chain: each reads those before it. *)
LEMMA PacCalls ==
  ASSUME NEW v, NEW f
  PROVE  /\ PacCondOpts("pac_table", v, f) = {"column_indices"} /\ PacCondOpts("min_eps", v, f) = {"max_eps"}
         /\ PacCondOpts("max_eps", v, f) = {"min_delta"} /\ PacCondOpts("min_delta", v, f) = {"delta_steps"}
         /\ \A o \in {"column_indices", "domain", "delta_steps"} : PacCondOpts(o, v, f) = {}
BY DEF PacCondOpts

(* No more is read of the fields than AllUses says.                      *)
LEMMA PacReads ==
  ASSUME NEW o \in PacNames, NEW v, NEW f, NEW g, \A u \in AllUses(o) : f[u] = g[u]
  PROVE  /\ PacAccepts(o, v, f) <=> PacAccepts(o, v, g)
         /\ PacDefault(o, f) = PacDefault(o, g) /\ PacCondOpts(o, v, f) = PacCondOpts(o, v, g)
<1>1. PacCondOpts(o, v, f) = PacCondOpts(o, v, g)
  BY DEF PacCondOpts
<1>2. CASE o = "max_eps"
  <2>1. f["min_eps"] = g["min_eps"]
    BY <1>2, UsesAre
  <2> QED BY <1>1, <1>2, <2>1 DEF PacAccepts, PacDefault
<1>3. CASE o = "min_delta"
  <2>1. f["min_eps"] = g["min_eps"] /\ f["max_eps"] = g["max_eps"]
    BY <1>3, UsesAre
  <2> QED BY <1>1, <1>3, <2>1 DEF PacAccepts, PacDefault
<1>4. CASE o = "delta_steps"
  <2>1. f["min_delta"] = g["min_delta"]
    BY <1>4, UsesAre
  <2> QED BY <1>1, <1>4, <2>1 DEF PacAccepts, PacDefault
<1>5. CASE o \notin {"max_eps", "min_delta", "delta_steps"}
  BY <1>1, <1>5 DEF PacAccepts, PacDefault
<1> QED BY <1>2, <1>3, <1>4, <1>5

(* Those of the metric verifier are one too.                               *)
LEMMA MetricCalls ==
  ASSUME NEW v, NEW f
  PROVE  /\ MetricCondOpts("metric", v, f) = {"rhs_indices"}
         /\ MetricCondOpts("rhs_indices", v, f) \subseteq {"metric_algorithm", "q"}
         /\ \A o \in MetricNames \ {"metric", "rhs_indices"} : MetricCondOpts(o, v, f) = {}
<1>1. /\ MetricCondOpts("metric", v, f) = {"rhs_indices"}
      /\ \A o \in MetricNames \ {"metric", "rhs_indices"} : MetricCondOpts(o, v, f) = {}
  BY DEF MetricCondOpts
<1>2. MetricCondOpts("rhs_indices", v, f) = RhsCondOpts(v, f["metric"])
  BY DEF MetricCondOpts
<1>3. RhsCondOpts(v, f["metric"]) \subseteq {"metric_algorithm", "q"}
  BY DEF RhsCondOpts
<1> QED BY <1>1, <1>2, <1>3

(* With the Euclidean metric one column calls for nothing.                 *)
LEMMA OneColumnCallsForNothing ==
  ASSUME NEW v \in OneColumn, NEW f, f["metric"] = "euclidean"
  PROVE  MetricCondOpts("rhs_indices", v, f) = {}
BY DEF MetricCondOpts, RhsCondOpts

(* The same for the metric verifier.                                     *)
LEMMA MetricReads ==
  ASSUME NEW o \in MetricNames, NEW v, NEW f, NEW g, \A u \in AllUses(o) : f[u] = g[u]
  PROVE  /\ MetricAccepts(o, v, f) <=> MetricAccepts(o, v, g)
         /\ MetricDefault(o, f) = MetricDefault(o, g) /\ MetricCondOpts(o, v, f) = MetricCondOpts(o, v, g)
<1>1. MetricDefault(o, f) = MetricDefault(o, g)
  BY DEF MetricDefault
<1>2. CASE o = "rhs_indices"
  <2>1. f["metric"] = g["metric"]
    BY <1>2, UsesAre
  <2> QED BY <1>1, <1>2, <2>1 DEF MetricAccepts, MetricCondOpts
<1>3. CASE o = "metric_algorithm"
  <2>1. f["metric"] = g["metric"] /\ f["rhs_indices"] = g["rhs_indices"]
    BY <1>3, UsesAre
  <2> QED BY <1>1, <1>3, <2>1 DEF MetricAccepts, MetricCondOpts, AlgoCheck
<1>4. CASE o \notin {"rhs_indices", "metric_algorithm"}
  BY <1>1, <1>4 DEF MetricAccepts, MetricCondOpts
<1> QED BY <1>2, <1>3, <1>4

(* Those of the AOD verifier read no field.                                *)
LEMMA AodReads ==
  ASSUME NEW o \in AodNames, NEW v, NEW f, NEW g
  PROVE  /\ AodAccepts(o, v, f) <=> AodAccepts(o, v, g)
         /\ AodDefault(o, f) = AodDefault(o, g) /\ AodCondOpts(o, v, f) = AodCondOpts(o, v, g)
         /\ AodCondOpts(o, v, f) \subseteq {"oc_indices", "oc_left_ordering", "ofd_right_index"}
         /\ AodCondOpts("aod_table", v, f) = {}
BY DEF AodAccepts, AodDefault, AodCondOpts

(* What each verifier loads and executes with.                             *)
LEMMA RoundsAre ==
  /\ AllNames("pac") = PacNames /\ AllNames("metric") = MetricNames /\ AllNames("aod") = AodNames
  /\ AllLoad("pac") = {"pac_table", "domain"} /\ AllExecute("pac") = {"min_eps"}
  /\ AllLoad("metric") = {"metric_table"} /\ AllExecute("metric") = {"metric"}
  /\ AllLoad("aod") = {"aod_table"} /\ AllExecute("aod") = {"oc_context", "ofd_context"}
  /\ AllLoading("pac") = {"pac_table", "domain", "column_indices"}
  /\ AllLoading("metric") = {"metric_table"} /\ AllLoading("aod") = {"aod_table"}
<1>1. /\ AllNames("pac") = PacNames /\ AllNames("metric") = MetricNames /\ AllNames("aod") = AodNames
  BY DEF AllNames
<1>2. /\ AllLoad("pac") = {"pac_table", "domain"} /\ AllLoad("metric") = {"metric_table"}
      /\ AllLoad("aod") = {"aod_table"}
  BY DEF AllLoad, PacLoad, MetricLoad, AodLoad
<1>3. /\ AllExecute("pac") = {"min_eps"} /\ AllExecute("metric") = {"metric"}
      /\ AllExecute("aod") = {"oc_context", "ofd_context"}
  BY DEF AllExecute, PacExecute, MetricExecute, AodExecute
<1> QED BY <1>1, <1>2, <1>3 DEF AllLoading, PacNames, MetricNames, AodNames

(* So the three are layered as the proofs ask.                             *)
LEMMA VerifiersAreLayered == ThreeVerifiers => LayeredRegistration
<1> SUFFICES ASSUME ThreeVerifiers, NEW a \in Algorithms
             PROVE  /\ LoadOptions(a) \subseteq Loading(a) /\ ExecuteOptions(a) \cap Loading(a) = {}
                    /\ \A o \in LoadOptions(a) \cup ExecuteOptions(a) : Uses(o) = {}
                    /\ \A o \in Options(a) :
                         /\ o \notin Uses(o)
                         /\ \A v, field : \A c \in CondOpts(o, v, field) :
                              /\ c \in Options(a) /\ Uses(c) \subseteq Uses(o) \cup {o}
                              /\ c \in Loading(a) <=> o \in Loading(a)
                         /\ \A v, f, g : (\A u \in Uses(o) : f[u] = g[u]) =>
                              /\ Accepts(o, v, f) <=> Accepts(o, v, g)
                              /\ DefaultOf(o, f) = DefaultOf(o, g) /\ CondOpts(o, v, f) = CondOpts(o, v, g)
  BY DEF LayeredRegistration
<1>1. /\ Options(a) = AllNames(a) /\ LoadOptions(a) = AllLoad(a)
      /\ ExecuteOptions(a) = AllExecute(a) /\ Loading(a) = AllLoading(a)
      /\ LoadOptions(a) \subseteq Options(a) /\ ExecuteOptions(a) \subseteq Options(a)
      /\ a \in {"pac", "metric", "aod"}
  BY OptionsAssumption DEF ThreeVerifiers
<1>2. \A o \in Options(a) :
        /\ Uses(o) = AllUses(o)
        /\ \A v, field : /\ DefaultOf(o, field) = AllDefault(o, field)
                         /\ Accepts(o, v, field) <=> AllAccepts(o, v, field)
                         /\ CondOpts(o, v, field) = AllCondOpts(o, v, field)
  BY DEF ThreeVerifiers
<1>3. LoadOptions(a) \subseteq Loading(a) /\ ExecuteOptions(a) \cap Loading(a) = {}
  BY <1>1, RoundsAre
<1>4. \A o \in LoadOptions(a) \cup ExecuteOptions(a) : Uses(o) = {}
  <2>1. \A o \in AllLoad(a) \cup AllExecute(a) : AllUses(o) = {}
    BY <1>1, RoundsAre, UsesAre DEF PacNames, MetricNames, AodNames
  <2> QED BY <1>1, <1>2, <2>1
<1>5. ASSUME NEW o \in Options(a) PROVE o \notin Uses(o)
  <2>1. o \notin AllUses(o)
    BY <1>1, <1>5, RoundsAre, UsesAre DEF PacNames, MetricNames, AodNames
  <2> QED BY <1>2, <2>1
<1>6. ASSUME NEW o \in Options(a), NEW v, NEW field, NEW c \in CondOpts(o, v, field)
      PROVE  /\ c \in Options(a) /\ Uses(c) \subseteq Uses(o) \cup {o}
             /\ c \in Loading(a) <=> o \in Loading(a)
  <2>1. c \in AllCondOpts(o, v, field)
    BY <1>2
  <2>2. /\ c \in AllNames(a) /\ AllUses(c) \subseteq AllUses(o) \cup {o}
        /\ c \in AllLoading(a) <=> o \in AllLoading(a)
    <3>1. CASE a = "pac"
      <4>1. o \in PacNames /\ c \in PacCondOpts(o, v, field)
        BY <1>1, <2>1, <3>1, RoundsAre, PacRegisters
      <4> QED BY <3>1, <4>1, RoundsAre, UsesAre, PacCalls DEF PacNames
    <3>2. CASE a = "metric"
      <4>1. o \in MetricNames /\ c \in MetricCondOpts(o, v, field)
        BY <1>1, <2>1, <3>2, RoundsAre, MetricRegisters
      <4>2. \/ o = "metric" /\ c = "rhs_indices"
            \/ o = "rhs_indices" /\ c \in {"metric_algorithm", "q"}
        <5>1. /\ MetricCondOpts("metric", v, field) = {"rhs_indices"}
              /\ MetricCondOpts("rhs_indices", v, field) \subseteq {"metric_algorithm", "q"}
              /\ \A x \in MetricNames \ {"metric", "rhs_indices"} : MetricCondOpts(x, v, field) = {}
          BY MetricCalls
        <5>2. o \in {"metric", "rhs_indices"}
          BY <4>1, <5>1
        <5>3. CASE o = "metric"
          BY <4>1, <5>1, <5>3
        <5>4. CASE o = "rhs_indices"
          BY <4>1, <5>1, <5>4
        <5> QED BY <5>2, <5>3, <5>4
      <4> QED BY <3>2, <4>2, RoundsAre, UsesAre DEF MetricNames
    <3>3. CASE a = "aod"
      <4>1. o \in AodNames /\ c \in AodCondOpts(o, v, field)
        BY <1>1, <2>1, <3>3, RoundsAre, AodRegisters
      <4>2. c \in {"oc_indices", "oc_left_ordering", "ofd_right_index"} /\ o # "aod_table"
        BY <4>1, AodReads
      <4> QED BY <3>3, <4>1, <4>2, RoundsAre, UsesAre DEF AodNames
    <3> QED BY <1>1, <3>1, <3>2, <3>3
  <2> QED BY <1>1, <1>2, <2>2
<1>7. ASSUME NEW o \in Options(a), NEW v, NEW f, NEW g, \A u \in Uses(o) : f[u] = g[u]
      PROVE  /\ Accepts(o, v, f) <=> Accepts(o, v, g)
             /\ DefaultOf(o, f) = DefaultOf(o, g) /\ CondOpts(o, v, f) = CondOpts(o, v, g)
  <2>1. \A u \in AllUses(o) : f[u] = g[u]
    BY <1>2, <1>7
  <2>2. /\ AllAccepts(o, v, f) <=> AllAccepts(o, v, g)
        /\ AllDefault(o, f) = AllDefault(o, g) /\ AllCondOpts(o, v, f) = AllCondOpts(o, v, g)
    <3>1. CASE o \in PacNames
      BY <2>1, <3>1, PacRegisters, PacReads
    <3>2. CASE o \in MetricNames
      BY <2>1, <3>2, MetricRegisters, MetricReads
    <3>3. CASE o \in AodNames
      BY <3>3, AodRegisters, AodReads
    <3> QED BY <1>1, <3>1, <3>2, <3>3, RoundsAre
  <2> QED BY <1>2, <2>2
<1> QED BY <1>3, <1>4, <1>5, <1>6, <1>7
-----------------------------------------------------------------------------
(* The choice of an algorithm is called for by a right-hand side under     *)
(* whose metric it makes sense.                                            *)
LEMMA AlgorithmIsCalledFor ==
  ASSUME ThreeVerifiers, NEW s, IsRegistry(s), "metric_algorithm" \in s.available,
         NEW base, base \in {LoadOptions(s.algorithm), ExecuteOptions(s.algorithm)}, Layered(s, base)
  PROVE  ~(s.field["metric"] = "euclidean" /\ s.field["rhs_indices"] \in OneColumn)
<1>1. /\ s.algorithm \in {"pac", "metric", "aod"} /\ s.algorithm \in Algorithms
      /\ Options(s.algorithm) = AllNames(s.algorithm) /\ s.available \subseteq Options(s.algorithm)
      /\ LoadOptions(s.algorithm) = AllLoad(s.algorithm) /\ ExecuteOptions(s.algorithm) = AllExecute(s.algorithm)
      /\ \A o \in Options(s.algorithm) : \A v, f : CondOpts(o, v, f) = AllCondOpts(o, v, f)
  BY DEF ThreeVerifiers, IsRegistry
<1>2. s.algorithm = "metric" /\ Options(s.algorithm) = MetricNames
  BY <1>1, RoundsAre DEF PacNames, MetricNames, AodNames
<1>3. "metric_algorithm" \notin base
  BY <1>1, <1>2, RoundsAre
<1>4. PICK x \in s.available \cap s.set : "metric_algorithm" \in CondOpts(x, s.field[x], s.field)
  BY <1>3 DEF Layered, Called
<1>5. x \in MetricNames /\ "metric_algorithm" \in MetricCondOpts(x, s.field[x], s.field)
  BY <1>1, <1>2, <1>4, MetricRegisters
<1>6. x = "rhs_indices"
  <2>1. /\ MetricCondOpts("metric", s.field[x], s.field) = {"rhs_indices"}
        /\ \A o \in MetricNames \ {"metric", "rhs_indices"} : MetricCondOpts(o, s.field[x], s.field) = {}
    BY MetricCalls
  <2>2. x # "metric"
    BY <1>5, <2>1
  <2> QED BY <1>5, <2>1, <2>2
<1>7. ASSUME s.field["metric"] = "euclidean", s.field["rhs_indices"] \in OneColumn PROVE FALSE
  <2>1. MetricCondOpts("rhs_indices", s.field["rhs_indices"], s.field) = {}
    BY <1>7, OneColumnCallsForNothing
  <2> QED BY <1>5, <1>6, <2>1
<1> QED BY <1>7

(* The assertion holds while options are set through keyword arguments.    *)
THEOREM AlgoCheckAlwaysInCalls == ASSUME ThreeVerifiers PROVE Spec => []AlgoCheckInCalls
<1>1. Init => AlgoCheckInCalls
  BY DEF Init, NoCall, AlgoCheckInCalls, AlgoCheckAssertion
<1>2. OptionsInv /\ AlgoCheckInCalls /\ [Next]_optionVars => AlgoCheckInCalls'
  <2> SUFFICES ASSUME OptionsInv, AlgoCheckInCalls, [Next]_optionVars PROVE AlgoCheckInCalls'
    OBVIOUS
  <2>1. ASSUME last' = NoCall PROVE AlgoCheckInCalls'
    BY <2>1 DEF NoCall, AlgoCheckInCalls, AlgoCheckAssertion
  <2>2. ASSUME NEW o \in Registered, NEW v, SetFromRequest(o, v), o \in opts.available \ opts.set
        PROVE  AlgoCheckInCalls'
    <3> SUFFICES ASSUME disturbed' # "forever", o = "metric_algorithm"
                 PROVE  ~(opts'.field["metric"] = "euclidean" /\ opts'.field["rhs_indices"] \in OneColumn)
      BY <2>2 DEF SetFromRequest, AlgoCheckInCalls, AlgoCheckAssertion
    <3>1. IsRegistry(opts) /\ Layered(opts, Base)
          /\ Base \in {LoadOptions(opts.algorithm), ExecuteOptions(opts.algorithm)}
      BY <2>2 DEF SetFromRequest, Disturb, OptionsInv, Base
    <3>2. ~(opts.field["metric"] = "euclidean" /\ opts.field["rhs_indices"] \in OneColumn)
      BY <2>2, <3>1, AlgorithmIsCalledFor
    <3>3. opts' = SetOption(opts, o, v).opts
      BY <2>2 DEF SetFromRequest
    <3>4. \/ opts' = opts
          \/ \E w : opts' = Assign(opts, o, w)
      BY <2>2, <3>3, SetOptionIs
    <3>5. ASSUME NEW w, opts' = Assign(opts, o, w)
          PROVE  opts'.field["metric"] = opts.field["metric"] /\ opts'.field["rhs_indices"] = opts.field["rhs_indices"]
      <4>1. o \in Options(opts.algorithm) /\ opts.field = [x \in Options(opts.algorithm) |-> opts.field[x]]
        BY <2>2, <3>1 DEF IsRegistry
      <4>2. opts'.field = Written(opts.field, o, w)
        BY <3>1, <3>5, <4>1, AssignIs
      <4>3. {"metric", "rhs_indices"} \subseteq Options(opts.algorithm)
        <5>1. opts.algorithm \in Algorithms
          BY <3>1 DEF IsRegistry
        <5>2. Options(opts.algorithm) = AllNames(opts.algorithm) /\ opts.algorithm \in {"pac", "metric", "aod"}
          BY <5>1 DEF ThreeVerifiers
        <5> QED BY <4>1, <5>2, RoundsAre DEF PacNames, MetricNames, AodNames
      <4> QED BY <4>1, <4>2, <4>3 DEF Written
    <3> QED BY <3>2, <3>4, <3>5
  <2>3. CASE \E o \in Registered : SetGiven(o) \/ SetDefault(o)
    <3>1. PICK o \in Registered : SetGiven(o) \/ SetDefault(o)
      BY <2>3
    <3>2. o \in opts.available \ opts.set
      BY <3>1 DEF OptionsInv, SnapshotInv, SetGiven, SetDefault
    <3>3. last' = NoCall \/ SetFromRequest(o, request[o]) \/ SetFromRequest(o, NoValue)
      BY <3>1 DEF SetGiven, SetDefault
    <3> QED BY <2>1, <2>2, <3>2, <3>3
  <2>4. CASE \E o \in Registered : \E v : DirectSet(o, v)
    BY <2>4 DEF DirectSet, AlgoCheckInCalls
  <2>5. CASE UNCHANGED optionVars
    BY <2>5 DEF optionVars, AlgoCheckInCalls, AlgoCheckAssertion
  <2>6. \/ FetchNeeded \/ BeginDefaults \/ NextRound \/ CallFails \/ LoadData \/ Execute
        \/ (\E p, k : Call(p, k)) \/ (\E o \in Registered : DirectUnset(o))
        => last' = NoCall
    BY DEF FetchNeeded, BeginDefaults, NextRound, CallFails, LoadData, Execute, Call, DirectUnset
  <2> QED BY <2>1, <2>3, <2>4, <2>5, <2>6 DEF Next, Configure
<1>3. Spec => []OptionsInv
  BY VerifiersAreLayered, OptionsHold
<1> QED BY <1>1, <1>2, <1>3, PTL DEF Spec
-----------------------------------------------------------------------------
(* One context is enough.                                                  *)

Contexts == {"oc_context", "ofd_context"}
Undisturbed == opts.algorithm = "aod" /\ disturbed = "no" /\ loaded /\ purpose = "execute"
Asks(x, y) == Describes(request, x) /\ request[y] = NoValue

(* Only what is offered is asked for, and a call that describes one of the *)
(* contexts sets it in its first pass.                                     *)
ContextInv ==
  /\ \A o \in Registered : request[o] \in {NoValue} \cup Offered(o)
  /\ stage = "idle" => \A o \in Registered : request[o] = NoValue
  /\ \A x, y \in Contexts : x # y /\ Undisturbed /\ Asks(x, y) =>
       /\ stage = "first" => x \in pending \cup opts.set
       /\ stage = "second" => x \in opts.set

(* The algorithm of a registry stays the same.                             *)
LEMMA AlgorithmStays ==
  ASSUME LayeredRegistration, OptionsInv, [Next]_optionVars PROVE opts'.algorithm = opts.algorithm
<1>1. IsRegistry(opts) /\ \A o \in Registered : o \in Options(opts.algorithm)
  BY DEF OptionsInv, TypeOK
<1>2. ASSUME NEW o \in Registered, NEW v, opts' = SetOption(opts, o, v).opts \/ opts' = UnsetOption(opts, o)
      PROVE  opts'.algorithm = opts.algorithm
  BY <1>1, <1>2, AnySetOptionIs, UnsetOptionIs
<1>3. CASE \E o \in Registered : SetGiven(o) \/ SetDefault(o) \/ DirectUnset(o) \/ \E v : DirectSet(o, v)
  <2>1. PICK o \in Registered : SetGiven(o) \/ SetDefault(o) \/ DirectUnset(o) \/ \E v : DirectSet(o, v)
    BY <1>3
  <2>2. opts' = opts \/ opts' = UnsetOption(opts, o) \/ \E v : opts' = SetOption(opts, o, v).opts
    BY <2>1 DEF SetGiven, SetDefault, SetFromRequest, DirectUnset, DirectSet
  <2> QED BY <1>2, <2>2
<1>4. CASE LoadData
  <2>1. opts = [opts EXCEPT !.set = opts.set]
    BY <1>1 DEF IsRegistry
  <2>2. opts' = StartRound([opts EXCEPT !.set = opts.set])
    BY <1>4, <2>1 DEF LoadData
  <2> QED BY <1>1, <2>2, StartRoundIs
<1>5. CASE Execute
  <2>1. opts' = StartRound([opts EXCEPT !.set = opts.set \ opts.available])
    BY <1>5 DEF Execute
  <2>2. opts.set \ opts.available \subseteq opts.set
    OBVIOUS
  <2> QED BY <1>1, <2>1, <2>2, StartRoundIs
<1>6. CASE UNCHANGED opts
  BY <1>6
<1>7. FetchNeeded \/ BeginDefaults \/ NextRound \/ CallFails \/ (\E p, k : Call(p, k)) \/ UNCHANGED optionVars
        => UNCHANGED opts
  BY DEF FetchNeeded, BeginDefaults, NextRound, CallFails, Call, optionVars
<1> QED BY <1>3, <1>4, <1>5, <1>6, <1>7 DEF Next, Configure

(* What the AOD verifier's options are given.                              *)
LEMMA AodIs ==
  ASSUME ThreeVerifiers, OptionsInv, opts.algorithm = "aod"
  PROVE  /\ Registered = AodNames /\ opts.available \subseteq AodNames
         /\ NoValue \notin {"in", "asc"}
         /\ \A o \in AodNames : /\ Offered(o) = AllOffered(o)
                                /\ \A set : RequiredIf(o, set) <=> AodRequired(o, set)
                                /\ \A v, f : /\ DefaultOf(o, f) = AodDefault(o, f)
                                             /\ Accepts(o, v, f) <=> AodAccepts(o, v, f)
                                             /\ CondOpts(o, v, f) = AodCondOpts(o, v, f)
         /\ ExecuteOptions("aod") = Contexts /\ Loading("aod") = {"aod_table"}
<1>1. "aod" \in Algorithms /\ Registered = AodNames /\ Options("aod") = AodNames /\ opts.available \subseteq AodNames
  BY RoundsAre DEF OptionsInv, TypeOK, ThreeVerifiers
<1>2. \A o \in AodNames : \A set : RequiredIf(o, set) <=> AodRequired(o, set)
  BY <1>1 DEF ThreeVerifiers, AllRequired
<1>3. \A o \in AodNames : \A v, f : /\ DefaultOf(o, f) = AodDefault(o, f)
                                    /\ Accepts(o, v, f) <=> AodAccepts(o, v, f)
                                    /\ CondOpts(o, v, f) = AodCondOpts(o, v, f)
  BY <1>1, AodRegisters DEF ThreeVerifiers
<1> QED BY <1>1, <1>2, <1>3, RoundsAre DEF ThreeVerifiers, Contexts

(* The registrations of the AOD verifier, by name.                         *)
LEMMA AodRegistrations ==
  ASSUME NEW v, NEW f
  PROVE  /\ AodCondOpts("oc_context", v, f) = {"oc_indices", "oc_left_ordering"}
         /\ AodCondOpts("ofd_context", v, f) = {"ofd_right_index"}
         /\ \A o \in AodNames \ Contexts : AodCondOpts(o, v, f) = {}
         /\ AodDefault("oc_left_ordering", f) = {"asc"}
         /\ \A o \in AodNames \ {"oc_left_ordering"} : AodDefault(o, f) = {}
         /\ \A o \in AodNames \ {"aod_table", "oc_left_ordering"} : AodAccepts(o, v, f) <=> v = "in"
         /\ \A o \in {"aod_table", "oc_left_ordering"} : AodAccepts(o, v, f)
         /\ \A o \in {"aod_table", "oc_indices", "ofd_right_index"} : AllOffered(o) = {"in"}
<1>1. /\ AodCondOpts("oc_context", v, f) = {"oc_indices", "oc_left_ordering"}
      /\ AodCondOpts("ofd_context", v, f) = {"ofd_right_index"}
      /\ \A o \in AodNames \ Contexts : AodCondOpts(o, v, f) = {}
  BY DEF AodCondOpts, Contexts
<1>2. /\ AodDefault("oc_left_ordering", f) = {"asc"}
      /\ \A o \in AodNames \ {"oc_left_ordering"} : AodDefault(o, f) = {}
  BY DEF AodDefault
<1>3. /\ \A o \in AodNames \ {"aod_table", "oc_left_ordering"} : AodAccepts(o, v, f) <=> v = "in"
      /\ \A o \in {"aod_table", "oc_left_ordering"} : AodAccepts(o, v, f)
  BY DEF AodAccepts, AodNames
<1>4. \A o \in {"aod_table", "oc_indices", "ofd_right_index"} : AllOffered(o) = {"in"}
  BY DEF AllOffered
<1> QED BY <1>1, <1>2, <1>3, <1>4

(* Nothing it is asked to set in such a call is refused.                   *)
LEMMA NothingIsRefused ==
  ASSUME ThreeVerifiers, OptionsInv, ContextInv, Undisturbed, stage # "idle",
         NEW x \in Contexts, NEW y \in Contexts, x # y, Asks(x, y)
  PROVE  /\ y \notin opts.set /\ x \in opts.available
         /\ \A o \in opts.available : request[o] # NoValue => Accepts(o, request[o], opts.field)
         /\ \A o \in opts.available \ {y} : request[o] = NoValue =>
              Default(o, opts.field) # NoValue /\ Accepts(o, Default(o, opts.field), opts.field)
<1>1. /\ Registered = AodNames /\ opts.available \subseteq AodNames
      /\ NoValue \notin {"in", "asc"} /\ opts.algorithm = "aod"
      /\ \A o \in AodNames : /\ Offered(o) = AllOffered(o)
                             /\ \A v, f : /\ DefaultOf(o, f) = AodDefault(o, f)
                                          /\ Accepts(o, v, f) <=> AodAccepts(o, v, f)
                                          /\ CondOpts(o, v, f) = AodCondOpts(o, v, f)
      /\ ExecuteOptions("aod") = Contexts /\ Loading("aod") = {"aod_table"}
  BY AodIs DEF Undisturbed
<1>2. /\ Layered(opts, Contexts) /\ "aod_table" \notin opts.available /\ SetAsAsked(opts, request)
  BY <1>1 DEF Undisturbed, OptionsInv, Base, InItsRound, CallInv
<1>3. /\ request[x] = "in" /\ request[y] = NoValue
      /\ \A c \in AodCondOpts(x, "in", request) : AodDefault(c, request) # {} \/ request[c] # NoValue
  BY DEF Asks, Describes
<1>4. x \in opts.available /\ y \in opts.available /\ x \in AodNames /\ y \in AodNames
      /\ x \notin {"aod_table", "oc_left_ordering"} /\ y \notin {"aod_table", "oc_left_ordering"}
  BY <1>1, <1>2 DEF Layered, Contexts
<1>5. y \notin opts.set
  <2> SUFFICES ASSUME y \in opts.set PROVE FALSE
    OBVIOUS
  <2>1. opts.field[y] = "in"
    <3>1. Accepts(y, opts.field[y], opts.field)
      BY <1>2, <1>4 DEF Layered
    <3>2. AodAccepts(y, opts.field[y], opts.field)
      BY <1>1, <1>4, <3>1
    <3> QED BY <1>4, <3>2, AodRegistrations
  <2>2. DefaultOf(y, opts.field) = {}
    BY <1>1, <1>4, AodRegistrations
  <2>3. opts.field[y] = NoValue
    BY <1>2, <1>3, <1>4, <2>2 DEF SetAsAsked, Chosen, Default
  <2> QED BY <1>1, <2>1, <2>3
<1>6. ASSUME NEW o \in opts.available, request[o] # NoValue PROVE Accepts(o, request[o], opts.field)
  <2>1. o \in AodNames /\ o # "aod_table" /\ o # y /\ request[o] \in AllOffered(o)
    BY <1>1, <1>2, <1>3, <1>6 DEF ContextInv
  <2>2. CASE o = "oc_left_ordering"
    BY <1>1, <2>1, <2>2, AodRegistrations
  <2>3. CASE o \in {"oc_indices", "ofd_right_index"}
    <3>1. request[o] = "in"
      BY <2>1, <2>3, AodRegistrations
    <3>2. AodAccepts(o, request[o], opts.field)
      BY <2>1, <2>3, <3>1, AodRegistrations
    <3> QED BY <1>1, <2>1, <3>2
  <2>4. CASE o = x
    <3>1. AodAccepts(o, request[o], opts.field)
      BY <1>3, <1>4, <2>4, AodRegistrations
    <3> QED BY <1>1, <2>1, <3>1
  <2> QED BY <2>1, <2>2, <2>3, <2>4 DEF AodNames, Contexts
<1>7. ASSUME NEW o \in opts.available \ {y}, request[o] = NoValue
      PROVE  Default(o, opts.field) # NoValue /\ Accepts(o, Default(o, opts.field), opts.field)
  <2>1. o \in AodNames /\ o # "aod_table" /\ o # x
    BY <1>1, <1>2, <1>3, <1>7
  <2>2. PICK z \in opts.available \cap opts.set : o \in CondOpts(z, opts.field[z], opts.field)
    BY <1>2, <1>7, <2>1 DEF Layered, Called, Contexts
  <2>3. z \in AodNames /\ o \in AodCondOpts(z, opts.field[z], opts.field)
    BY <1>1, <2>2
  <2>4. z \in Contexts /\ z # y
    BY <1>5, <2>2, <2>3, AodRegistrations
  <2>5. z = x
    BY <2>4 DEF Contexts
  <2>6. o \in AodCondOpts(x, "in", request)
    BY <2>3, <2>5, AodRegistrations DEF Contexts
  <2>7. AodDefault(o, request) # {}
    BY <1>3, <1>7, <2>6
  <2>8. o = "oc_left_ordering"
    BY <2>1, <2>7, AodRegistrations
  <2>9. DefaultOf(o, opts.field) = {"asc"}
    BY <1>1, <2>1, <2>8, AodRegistrations
  <2>10. Default(o, opts.field) = "asc"
    BY <2>9 DEF Default
  <2> QED BY <1>1, <2>1, <2>8, <2>10, AodRegistrations
<1> QED BY <1>4, <1>5, <1>6, <1>7

(* So its passes do not end in an exception.                               *)
LEMMA PassesSucceed ==
  ASSUME ThreeVerifiers, OptionsInv, ContextInv, Undisturbed, stage # "idle",
         NEW x \in Contexts, NEW y \in Contexts, x # y, Asks(x, y),
         NEW o \in Registered, SetGiven(o) \/ SetDefault(o)
  PROVE  /\ stage' = stage
         /\ opts.set \subseteq opts'.set /\ (SetGiven(o) /\ o = x => x \in opts'.set)
<1>1. /\ IsRegistry(opts) /\ stage \in {"first", "second"} /\ o \in pending \cup empty
      /\ o \in opts.available \ opts.set
      /\ \A z \in empty : request[z] = NoValue
  BY DEF OptionsInv, SnapshotInv, SetGiven, SetDefault
<1>2. /\ y \notin opts.set /\ x \in opts.available
      /\ \A z \in opts.available : request[z] # NoValue => Accepts(z, request[z], opts.field)
      /\ \A z \in opts.available \ {y} : request[z] = NoValue =>
           Default(z, opts.field) # NoValue /\ Accepts(z, Default(z, opts.field), opts.field)
  BY NothingIsRefused
<1>3. ASSUME NEW v, SetFromRequest(o, v), Chosen(opts, o, v) # NoValue, Accepts(o, Chosen(opts, o, v), opts.field)
      PROVE  stage' = stage /\ opts'.set = opts.set \cup {o}
  <2>1. PICK w : w = Chosen(opts, o, v)
    OBVIOUS
  <2>2. SetOption(opts, o, v) = [opts |-> Assign(opts, o, w), result |-> "ok"]
    <3>1. SetOption(opts, o, v) = IF w = NoValue \/ ~Accepts(o, w, opts.field)
                                  THEN [opts |-> opts, result |-> "rejected"]
                                  ELSE [opts |-> Assign(opts, o, w), result |-> "ok"]
      BY <1>1, <2>1 DEF SetOption, Chosen
    <3> QED BY <1>3, <2>1, <3>1
  <2>3. opts' = Assign(opts, o, w) /\ stage' = stage
    BY <1>3, <2>2 DEF SetFromRequest
  <2>4. o \in Options(opts.algorithm)
    BY <1>1 DEF IsRegistry
  <2> QED BY <1>1, <2>3, <2>4, AssignIs
<1>4. CASE SetGiven(o) /\ request[o] # NoValue
  <2>1. SetFromRequest(o, request[o]) /\ Chosen(opts, o, request[o]) = request[o]
    BY <1>4 DEF SetGiven, Chosen
  <2> QED BY <1>1, <1>2, <1>3, <1>4, <2>1
<1>5. CASE SetGiven(o) /\ request[o] = NoValue
  <2>1. opts' = opts /\ stage' = stage
    BY <1>5 DEF SetGiven
  <2>2. o # x
    BY <1>5, AodIs DEF Asks, Describes, Undisturbed
  <2> QED BY <2>1, <2>2
<1>6. CASE SetDefault(o) /\ RequiredIf(o, opts.set)
  <2>1. stage = "second" /\ SetFromRequest(o, NoValue) /\ request[o] = NoValue
    BY <1>1, <1>6 DEF SetDefault
  <2>2. o # y
    <3>1. x \in opts.set
      BY <2>1 DEF ContextInv
    <3>2. RequiredIf(y, opts.set) <=> AodRequired(y, opts.set)
      BY AodIs DEF Undisturbed, Contexts, AodNames
    <3>3. ~AodRequired(y, opts.set)
      BY <3>1 DEF AodRequired, Contexts
    <3> QED BY <1>6, <3>2, <3>3
  <2>3. Chosen(opts, o, NoValue) = Default(o, opts.field)
    BY DEF Chosen
  <2>4. stage' = stage /\ opts'.set = opts.set \cup {o}
    BY <1>1, <1>2, <1>3, <2>1, <2>2, <2>3
  <2> QED BY <2>1, <2>4 DEF SetGiven
<1>7. CASE SetDefault(o) /\ ~RequiredIf(o, opts.set)
  <2>1. opts' = opts /\ stage' = stage /\ stage = "second"
    BY <1>7 DEF SetDefault
  <2> QED BY <2>1 DEF SetGiven
<1> QED BY <1>1, <1>4, <1>5, <1>6, <1>7

(* What a caller passes: an offered value, or none.                        *)
LEMMA OfferedIsPassed ==
  ASSUME NEW a \in Algorithms, NEW p \in {"load", "execute"}, NEW k \in RequestsOf[a][p], NEW o \in Options(a)
  PROVE  k[o] \in {NoValue} \cup Offered(o)
<1>1. PICK g \in Given(Keywords(a, p)) : k = [z \in Options(a) |-> IF z \in DOMAIN g THEN g[z] ELSE NoValue]
  BY DEF RequestsOf
<1>2. DOMAIN g = Keywords(a, p) /\ \A z \in Keywords(a, p) : g[z] \in {NoValue} \cup Offered(z)
  BY <1>1 DEF Given
<1> QED BY <1>1, <1>2

(* The steps of the two passes, and those that begin them.                 *)
LEMMA ContextInPasses ==
  ASSUME ThreeVerifiers, OptionsInv, ContextInv, Undisturbed, stage # "idle",
         NEW x \in Contexts, NEW y \in Contexts, x # y, Asks(x, y),
         FetchNeeded \/ BeginDefaults \/ \E o \in Registered : SetGiven(o) \/ SetDefault(o)
  PROVE  /\ stage' # "idle"
         /\ stage' = "first" => x \in pending' \cup opts'.set
         /\ stage' = "second" => x \in opts'.set
<1>1. /\ stage = "first" => x \in pending \cup opts.set
      /\ stage = "second" => x \in opts.set
  BY DEF ContextInv
<1>2. CASE FetchNeeded
  <2>1. y \notin opts.set /\ x \in opts.available
    BY NothingIsRefused
  <2>2. RequiredIf(x, opts.set) <=> AodRequired(x, opts.set)
    BY AodIs DEF Undisturbed, Contexts, AodNames
  <2>3. AodRequired(x, opts.set)
    BY <2>1 DEF AodRequired, Contexts
  <2>4. x \in NeededOptions(opts) \cup opts.set
    BY <2>1, <2>2, <2>3 DEF NeededOptions
  <2> QED BY <1>2, <2>4 DEF FetchNeeded
<1>3. CASE BeginDefaults
  BY <1>1, <1>3 DEF BeginDefaults
<1>4. CASE \E o \in Registered : SetGiven(o) \/ SetDefault(o)
  <2>1. PICK o \in Registered : SetGiven(o) \/ SetDefault(o)
    BY <1>4
  <2>2. /\ stage' = stage
        /\ opts.set \subseteq opts'.set /\ (SetGiven(o) /\ o = x => x \in opts'.set)
    BY <2>1, PassesSucceed
  <2>3. CASE SetGiven(o)
    BY <1>1, <2>2, <2>3 DEF SetGiven
  <2>4. CASE SetDefault(o)
    BY <1>1, <2>2, <2>4 DEF SetDefault
  <2> QED BY <2>1, <2>3, <2>4
<1> QED BY <1>2, <1>3, <1>4

(* Before the first call nothing is asked for.                           *)
LEMMA ContextStarts == ThreeVerifiers /\ OptionsInv /\ Init => ContextInv
BY DEF Init, ContextInv, NoRequest, Asks, Describes

(* One case per action: only the two passes, and what begins them, set   *)
(* options.                                                              *)
LEMMA ContextKeeps ==
  ThreeVerifiers /\ OptionsInv /\ OptionsInv' /\ ContextInv /\ [Next]_optionVars => ContextInv'
<1> SUFFICES ASSUME ThreeVerifiers, OptionsInv, OptionsInv', ContextInv, [Next]_optionVars PROVE ContextInv'
  OBVIOUS
<1>1. Registered' = Registered /\ Registered = Options(opts.algorithm) /\ opts.algorithm \in Algorithms
      /\ opts'.algorithm = opts.algorithm
  <2>1. opts'.algorithm = opts.algorithm
    BY VerifiersAreLayered, AlgorithmStays
  <2> QED BY <2>1 DEF OptionsInv, TypeOK
<1>2. ASSUME request' = NoRequest, stage' = "idle" PROVE ContextInv'
  BY <1>1, <1>2 DEF ContextInv, NoRequest
<1>3. ASSUME UNCHANGED <<request, disturbed, loaded, purpose>>, stage # "idle", stage' # "idle",
             FetchNeeded \/ BeginDefaults \/ NextRound \/ \E o \in Registered : SetGiven(o) \/ SetDefault(o)
      PROVE  ContextInv'
  <2>1. \A o \in Registered' : request'[o] \in {NoValue} \cup Offered(o)
    BY <1>1, <1>3 DEF ContextInv
  <2>2. ASSUME NEW x \in Contexts, NEW y \in Contexts, x # y, Undisturbed', Asks(x, y)'
        PROVE  /\ stage' = "first" => x \in pending' \cup opts'.set
               /\ stage' = "second" => x \in opts'.set
    <3>1. Undisturbed /\ Asks(x, y)
      BY <1>1, <1>3, <2>2 DEF Undisturbed, Asks
    <3>2. NextRound => stage' = "loop"
      BY DEF NextRound
    <3> QED BY <1>3, <2>2, <3>1, <3>2, ContextInPasses
  <2> QED BY <1>3, <2>1, <2>2 DEF ContextInv
<1>4. CASE FetchNeeded \/ BeginDefaults \/ NextRound
  BY <1>3, <1>4 DEF FetchNeeded, BeginDefaults, NextRound, callVars
<1>5. CASE \E o \in Registered : SetGiven(o) \/ SetDefault(o)
  <2>1. PICK o \in Registered : SetGiven(o) \/ SetDefault(o)
    BY <1>5
  <2>2. stage # "idle" /\ UNCHANGED <<loaded, purpose>>
    BY <2>1 DEF SetGiven, SetDefault
  <2>3. \/ stage' = stage /\ UNCHANGED <<request, disturbed>>
        \/ stage' = "idle" /\ request' = NoRequest
    BY <2>1 DEF SetGiven, SetDefault, SetFromRequest, Return
  <2> QED BY <1>2, <1>3, <1>5, <2>2, <2>3
<1>6. CASE LoadData \/ Execute \/ CallFails
  BY <1>2, <1>6 DEF LoadData, Execute, CallFails, Return
<1>7. CASE \E p \in {"load", "execute"} : \E k \in RequestsOf[opts.algorithm][p] : Call(p, k)
  <2>1. PICK p \in {"load", "execute"} : \E k \in RequestsOf[opts.algorithm][p] : Call(p, k)
    BY <1>7
  <2>2. PICK k \in RequestsOf[opts.algorithm][p] : Call(p, k)
    BY <2>1
  <2>3. \A o \in Registered' : request'[o] \in {NoValue} \cup Offered(o)
    BY <1>1, <2>2, OfferedIsPassed DEF Call
  <2> QED BY <2>2, <2>3 DEF Call, ContextInv
<1>8. CASE \E o \in Registered : DirectUnset(o) \/ \E v : DirectSet(o, v)
  <2>1. stage = "idle" /\ UNCHANGED <<stage, request>>
    BY <1>8 DEF DirectUnset, DirectSet, callVars
  <2> QED BY <1>1, <2>1 DEF ContextInv
<1>9. CASE UNCHANGED optionVars
  <2>1. UNCHANGED <<opts, stage, request, disturbed, loaded, purpose, pending>>
    BY <1>9 DEF optionVars
  <2> QED BY <1>1, <2>1 DEF ContextInv, Undisturbed, Asks
<1> QED BY <1>4, <1>5, <1>6, <1>7, <1>8, <1>9 DEF Next, Configure

(* Keyword arguments that describe an OC, or an OFD, lead to the call, for *)
(* any values of the others.                                               *)
THEOREM OneContextIsAlwaysEnough == ASSUME ThreeVerifiers PROVE Spec => OneContextIsEnough
<1> DEFINE Asked == /\ opts.algorithm = "aod"
                    /\ disturbed = "no" /\ loaded /\ purpose = "execute"
                    /\ \/ Describes(request, "oc_context") /\ request["ofd_context"] = NoValue
                       \/ Describes(request, "ofd_context") /\ request["oc_context"] = NoValue
                    /\ stage # "call"
<1>1. OptionsInv /\ ContextInv /\ [Next]_optionVars => [Asked => stage' # "idle"]_optionVars
  <2> SUFFICES ASSUME OptionsInv, ContextInv, Next, Asked PROVE stage' # "idle"
    OBVIOUS
  <2>1. PICK x \in Contexts : \E y \in Contexts : x # y /\ Asks(x, y)
    BY DEF Contexts, Asks
  <2>2. PICK y \in Contexts : x # y /\ Asks(x, y)
    BY <2>1
  <2>3. Undisturbed
    BY DEF Undisturbed
  <2>4. stage # "idle"
    BY <2>2, <2>3, AodIs DEF ContextInv, Asks, Describes, Contexts, AodNames, Undisturbed
  <2>5. CASE FetchNeeded \/ BeginDefaults \/ \E o \in Registered : SetGiven(o) \/ SetDefault(o)
    BY <2>2, <2>3, <2>4, <2>5, ContextInPasses
  <2>6. CASE NextRound
    BY <2>6 DEF NextRound
  <2>7. ~(LoadData \/ Execute \/ CallFails)
    BY DEF LoadData, Execute, CallFails
  <2>8. ~(\E p, k : Call(p, k)) /\ ~(\E o : DirectUnset(o) \/ \E v : DirectSet(o, v))
    BY <2>4 DEF Call, DirectSet, DirectUnset
  <2> QED BY <2>5, <2>6, <2>7, <2>8 DEF Next, Configure
<1>2. Spec => []OptionsInv
  BY VerifiersAreLayered, OptionsHold
<1> QED BY <1>1, <1>2, ContextStarts, ContextKeeps, PTL DEF Spec, OneContextIsEnough
=============================================================================
