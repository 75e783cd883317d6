--------------------------- MODULE DiscoveryTables --------------------------
(***************************************************************************)
(* The inputs of MCDiscovery: tables of some shapes, read row by row.  By  *)
(* themselves, the domain manager and the dynamic verification.  And what  *)
(* is proved of the tables: that the miners of inclusion dependencies and  *)
(* the verifiers of Verifiers are right about them.                        *)
(***************************************************************************)
EXTENDS ColumnDomain, DynamicFd, Inds

VE == INSTANCE Verifiers

(* A shape is the part of the run that reads it, and for each table how    *)
(* many columns and, at most, rows it has, the values in them, and whether *)
(* the rows come in order.                                                 *)
CONSTANT Shapes

Table(cols, values, rows) == [cols |-> cols, values |-> values, rows |-> rows, sorted |-> TRUE]
AnyOrder(t) == [t EXCEPT !.sorted = FALSE]
Shape(part, ts) == [part |-> part, ts |-> ts]

(* What is read for the IND miners: tables of numbers, none wider than     *)
(* nine columns.  For the verifiers: one such table, of two or three       *)
(* columns.                                                                *)
NumberParts == {"inds", "verify"}
IsOfNumbers(sh) ==
  /\ Len(sh.ts) \in Nat \ {0}
  /\ \A i \in 1 .. Len(sh.ts) : sh.ts[i].cols \in 1 .. 9 /\ sh.ts[i].values \subseteq Nat
  /\ sh.part = "verify" => Len(sh.ts) = 1 /\ sh.ts[1].cols \in {2, 3}
ASSUME ShapesAssumption == \A sh \in Shapes : sh.part \in NumberParts => IsOfNumbers(sh)

VARIABLES shape, tables
inputVars == <<shape, tables>>

LexLess(a, b) == \E c \in DOMAIN a : a[c] < b[c] /\ \A d \in 1 .. c - 1 : a[d] = b[d]
Reading == Len(tables)
AddRow ==
  /\ Len(tables[Reading]) < shape.ts[Reading].rows
  /\ \E row \in [1 .. shape.ts[Reading].cols -> shape.ts[Reading].values] :
       /\ shape.ts[Reading].sorted /\ tables[Reading] # <<>> => ~LexLess(row, Last(tables[Reading]))
       /\ tables' = [tables EXCEPT ![Reading] = Append(@, row)]
AddTable ==
  /\ Reading < Len(shape.ts) /\ tables[Reading] # <<>>
  /\ tables' = Append(tables, <<>>)

NoDomains ==
  /\ mem_limit_ = 0 /\ domains_ = <<>> /\ raw_domains_ = <<>> /\ mem_usage_ = 0 /\ processed_block_count_ = 0
  /\ swap_candidate_ = 1 /\ block_count = 0 /\ left = 0 /\ at = "done" /\ stream = [table |-> 1, blocks |-> 0] /\ seen = <<>>
DiscoveryInit ==
  /\ DynamicInit
  /\ \/ shape = Shape("domains", <<>>) /\ tables = <<>> /\ DomainInit
     \/ shape = Shape("dynamic", <<>>) /\ tables = <<>> /\ NoDomains
     \/ shape \in Shapes /\ tables = <<<<>>>> /\ NoDomains
DiscoveryNext ==
  /\ UNCHANGED shape
  /\ \/ shape.ts # <<>> /\ (AddRow \/ AddTable) /\ UNCHANGED <<domainVars, dynamicVars>>
     \/ shape.part = "domains" /\ DomainNext /\ UNCHANGED <<tables, dynamicVars>>
     \/ shape.part = "dynamic" /\ DynamicNext /\ UNCHANGED <<tables, domainVars>>
DiscoverySpec == DiscoveryInit /\ [][DiscoveryNext]_<<inputVars, domainVars, dynamicVars>>

Read(part) == shape.part = part /\ Reading = Len(shape.ts) /\ tables[Reading] # <<>>
-----------------------------------------------------------------------------
(* Spider and Mind find the inclusion dependencies of the tables.          *)
IndsAreRight == Read("inds") => IndsAreRightIn(tables)

(* The verifiers of functional, unique, probabilistic, numerical,          *)
(* differential and conditional dependencies and of association rules.     *)
Columns(t) == Len(t[1])
Bounds(c, low, high) == [column |-> c, low |-> low, high |-> high]
ConstantsOf == {0, 1, 2, VE!Wildcard}
PairsAreVerified(t) ==
  /\ VE!FdIsRight(t, {1}, {2}) /\ VE!UccIsRight(t, {1}) /\ VE!UccIsRight(t, {1, 2}) /\ VE!PfdIsRight(t, {1}, {2})
  /\ \A equal \in BOOLEAN : VE!NdIsRight(t, <<1>>, <<2>>, equal)
  /\ VE!DdIsRight(t, <<Bounds(1, 0, 1)>>, <<Bounds(2, 0, 1)>>)
  /\ VE!DdIsRight(t, <<Bounds(1, 1, 2)>>, <<Bounds(2, 1, 1), Bounds(1, 1, 1)>>)
  /\ \A v, w \in ConstantsOf : VE!CfdIsRight(t, {VE!Item(1, v)}, VE!Item(2, w))
  /\ VE!ArIsRight(t, {1}, {2}) /\ VE!ArIsRight(t, {1, 2}, {})
TriplesAreVerified(t) ==
  /\ VE!FdIsRight(t, {1, 2}, {3}) /\ VE!FdIsRight(t, {1}, {2, 3}) /\ VE!PfdIsRight(t, {1}, {2, 3})
  /\ \A equal \in BOOLEAN : VE!NdIsRight(t, <<1, 2>>, <<3>>, equal)
  /\ \A v, w \in ConstantsOf : VE!CfdIsRight(t, {VE!Item(1, v), VE!Item(2, w)}, VE!Item(3, VE!Wildcard))
VerifiersAreRight ==
  Read("verify") => IF Columns(tables[1]) = 2 THEN PairsAreVerified(tables[1]) ELSE TriplesAreVerified(tables[1])
=============================================================================
