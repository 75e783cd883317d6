-------------------------- MODULE AlgorithmOptions --------------------------
(***************************************************************************)
(* How an algos::Algorithm is configured and run                           *)
(* (src/src/core/algorithms/algorithm.{h,cpp}, algo_factory.h,             *)
(* src/src/core/config/option.h): the registry of options, SetOption and   *)
(* UnsetOption, the loop that sets options from a caller's keyword         *)
(* arguments, LoadData and Execute.                                        *)
(*                                                                         *)
(* What the algorithms register is a parameter: their options, which of    *)
(* them are available for loading and for executing, and for each option   *)
(* its default, its value check, its conditional options and its           *)
(* IsRequired function.  The last four may read the algorithm's fields.    *)
(* An option that several algorithms register has a name of its own in     *)
(* each.                                                                   *)
(***************************************************************************)
EXTENDS Naturals, FiniteSets

CONSTANTS
  Algorithms,
  Options(_),           \* the keys of possible_options_ of an algorithm
  LoadOptions(_),       \* made available by the constructor of an algorithm
  ExecuteOptions(_),    \* made available by its MakeExecuteOptsAvailable
  NoValue,              \* an empty boost::any; the field of an option never set
  Offered(_),           \* the values a caller may pass for an option
  Keywords(_, _),       \* the options named in its load_data or execute
  DefaultOf(_, _),      \* DefaultOf(o, field): {what default_func_ gives}, or {}
  Accepts(_, _, _),     \* Accepts(o, v, field): ConvertValue and value_check_
  CondOpts(_, _, _),    \* CondOpts(o, v, field): first pair of opt_cond_ to hold
  RequiredIf(_, _),     \* RequiredIf(o, set): is_required_
  ClearedOptions,       \* whose fields MakeExecuteOptsAvailable also clears
  DirectlyUsed          \* algorithms whose callers also use SetOption, UnsetOption

ASSUME OptionsAssumption ==
  /\ \A a \in Algorithms : IsFiniteSet(Options(a))
  /\ \A a \in Algorithms :
       LoadOptions(a) \subseteq Options(a) /\ ExecuteOptions(a) \subseteq Options(a)
  /\ \A a \in Algorithms : \A o \in Options(a) : NoValue \notin Offered(o)
  /\ DirectlyUsed \subseteq Algorithms

VARIABLES
  opts,      \* the algorithm and its registry: available_options_, is_set_ of
             \* each option, the algorithm's fields and opt_parents_
  loaded,    \* data_loaded_
  stage,     \* where the caller's load_data or execute is
  purpose,   \* which of the two it is
  request,   \* its keyword arguments
  pending,   \* the options its current pass has not reached yet
  empty,     \* needed_but_empty
  disturbed, \* whether options may be set that the caller did not ask for:
             \* "once", until Execute unsets them, or "forever"
  last       \* the SetOption of the last step: option and result

optionVars == <<opts, loaded, stage, purpose, request, pending, empty,
                disturbed, last>>
callVars   == <<purpose, request>>

Registered == DOMAIN opts.field
NoRequest == [o \in Registered |-> NoValue]
NoCall    == [option |-> NoValue, result |-> "none"]
-----------------------------------------------------------------------------
(* The registry.                                                           *)

(* ClearOptions, then MakeExecuteOptsAvailable; is_set_ stays as it is.     *)
StartRound(s) ==
  [s EXCEPT !.available = ExecuteOptions(s.algorithm),
            !.children = [o \in DOMAIN @ |-> {}],
            !.field = [o \in DOMAIN @ |->
                         IF o \in ClearedOptions THEN NoValue ELSE s.field[o]]]

(* ExcludeOptions erases a child from available_options_ first, so the     *)
(* UnsetOption(child) that follows returns early: the child stays set and  *)
(* its own children stay available.                                        *)
ExcludeOptions(s, o) ==
  [s EXCEPT !.available = @ \ s.children[o], !.children[o] = {}]

UnsetOption(s, o) ==
  IF o \notin s.available THEN s
  ELSE ExcludeOptions([s EXCEPT !.set = @ \ {o}], o)

(* Option::Set: the conditions are evaluated before the field is written.  *)
Assign(s, o, v) ==
  LET new == CondOpts(o, v, s.field)
  IN [s EXCEPT !.set = @ \cup {o}, !.field[o] = v,
               !.available = @ \cup new, !.children[o] = @ \cup new]

Default(o, field) ==
  IF DefaultOf(o, field) = {} THEN NoValue
  ELSE CHOOSE v \in DefaultOf(o, field) : TRUE

(* Mutant: Set accepts every value and a missing default *)
BugSetOption(s, o, v) ==
  LET u         == IF o \in s.set THEN UnsetOption(s, o) ELSE s
      converted == IF v = NoValue THEN Default(o, u.field) ELSE v
  IN IF o \notin s.available THEN [opts |-> s, result |-> "invalid"]
     ELSE [opts |-> Assign(u, o, converted), result |-> "ok"]

(* SetOption.  A value that is already set is unset before the new one is  *)
(* looked at, and stays unset if that one is rejected.                     *)
SetOption(s, o, v) ==
  LET u         == IF o \in s.set THEN UnsetOption(s, o) ELSE s
      converted == IF v = NoValue THEN Default(o, u.field) ELSE v
  IN IF o \notin s.available THEN [opts |-> s, result |-> "invalid"]
     ELSE IF converted = NoValue \/ ~Accepts(o, converted, u.field)
     THEN [opts |-> u, result |-> "rejected"]
     ELSE [opts |-> Assign(u, o, converted), result |-> "ok"]

(* Mutant: IsSet is not asked *)
BugNeededOptions(s) == {o \in s.available : RequiredIf(o, s.set)}

NeededOptions(s) ==
  {o \in s.available : o \notin s.set /\ RequiredIf(o, s.set)}
-----------------------------------------------------------------------------
Init ==
  /\ \E a \in Algorithms :
       opts = [algorithm |-> a, available |-> LoadOptions(a), set |-> {},
               field |-> [o \in Options(a) |-> NoValue],
               children |-> [o \in Options(a) |-> {}]]
  /\ loaded = FALSE
  /\ stage = "idle" /\ purpose = "load"
  /\ request = NoRequest
  /\ pending = {} /\ empty = {}
  /\ disturbed = "no" /\ last = NoCall

(* SetOption and UnsetOption called by the user of the algorithm.          *)
DirectSet(o, v) ==
  /\ opts.algorithm \in DirectlyUsed /\ stage = "idle"
  /\ LET r == SetOption(opts, o, v)
     IN opts' = r.opts /\ last' = [option |-> o, result |-> r.result]
  /\ disturbed' = "forever"
  /\ UNCHANGED <<loaded, stage, callVars, pending, empty>>

DirectUnset(o) ==
  /\ opts.algorithm \in DirectlyUsed /\ stage = "idle"
  /\ opts' = UnsetOption(opts, o)
  /\ disturbed' = "forever" /\ last' = NoCall
  /\ UNCHANGED <<loaded, stage, callVars, pending, empty>>
-----------------------------------------------------------------------------
(* load_data and execute with keyword arguments: ConfigureFromFunction, then *)
(* LoadData() or Execute().                                                *)

Given(keywords) ==
  {g \in [keywords -> {NoValue} \cup UNION {Offered(o) : o \in keywords}] :
     \A o \in keywords : g[o] \in {NoValue} \cup Offered(o)}

RequestsOf ==
  [a \in Algorithms |-> [p \in {"load", "execute"} |->
     {[o \in Options(a) |-> IF o \in DOMAIN g THEN g[o] ELSE NoValue] :
        g \in Given(Keywords(a, p))}]]

Call(p, kwargs) ==
  /\ stage = "idle"
  /\ purpose' = p /\ request' = kwargs
  /\ stage' = "loop"
  /\ UNCHANGED <<opts, loaded, pending, empty, disturbed>> /\ last' = NoCall

(* while (!(needed = algorithm.GetNeededOptions()).empty())                *)
FetchNeeded ==
  /\ stage = "loop"
  /\ pending' = NeededOptions(opts) /\ empty' = {}
  /\ stage' = IF pending' = {} THEN "call" ELSE "first"
  /\ UNCHANGED <<opts, loaded, callVars, disturbed>> /\ last' = NoCall

(* A call that throws ends the caller's load_data or execute, and leaves   *)
(* set what was set.                                                       *)
Disturb == disturbed' = IF disturbed = "no" THEN "once" ELSE disturbed
Return  == stage' = "idle" /\ request' = NoRequest
Recover == disturbed' = IF disturbed = "once" THEN "no" ELSE disturbed

SetFromRequest(o, v) ==
  LET r == SetOption(opts, o, v)
  IN /\ opts' = r.opts /\ last' = [option |-> o, result |-> r.result]
     /\ IF r.result = "ok" THEN UNCHANGED <<stage, request, disturbed>>
        ELSE Return /\ Disturb

(* The first pass visits the snapshot in the order of an unordered_set.    *)
SetGiven(o) ==
  /\ stage = "first" /\ o \in pending
  /\ pending' = pending \ {o}
  /\ IF request[o] = NoValue
     THEN /\ empty' = empty \cup {o} /\ last' = NoCall
          /\ UNCHANGED <<opts, stage, request, disturbed>>
     ELSE SetFromRequest(o, request[o]) /\ UNCHANGED empty
  /\ UNCHANGED <<loaded, purpose>>

(* The second pass sets to the default what is still required.             *)
BeginDefaults ==
  /\ stage = "first" /\ pending = {}
  /\ stage' = "second"
  /\ UNCHANGED <<opts, loaded, callVars, pending, empty, disturbed>>
  /\ last' = NoCall

(* Mutant: the second pass does not ask OptionIsRequired again *)
BugSetDefault(o) ==
  /\ stage = "second" /\ o \in empty
  /\ empty' = empty \ {o}
  /\ SetFromRequest(o, NoValue)
  /\ UNCHANGED <<loaded, purpose, pending>>

SetDefault(o) ==
  /\ stage = "second" /\ o \in empty
  /\ empty' = empty \ {o}
  /\ IF RequiredIf(o, opts.set) THEN SetFromRequest(o, NoValue)
     ELSE UNCHANGED <<opts, stage, request, disturbed>> /\ last' = NoCall
  /\ UNCHANGED <<loaded, purpose, pending>>

NextRound ==
  /\ stage = "second" /\ empty = {}
  /\ stage' = "loop"
  /\ UNCHANGED <<opts, loaded, callVars, pending, empty, disturbed>>
  /\ last' = NoCall

(* Both throw a logic_error unless all required options are set, Execute   *)
(* also unless data was loaded; LoadDataInternal may throw.                *)
MayStart == NeededOptions(opts) = {} /\ (purpose = "execute" => loaded)

CallFails ==
  /\ stage = "call"
  /\ Return /\ Disturb
  /\ UNCHANGED <<opts, loaded, purpose, pending, empty>> /\ last' = NoCall

LoadData ==
  /\ stage = "call" /\ purpose = "load" /\ MayStart
  /\ loaded' = TRUE
  /\ opts' = StartRound(opts)
  /\ Return
  /\ disturbed' = IF loaded THEN "forever" ELSE disturbed
  /\ UNCHANGED <<purpose, pending, empty>> /\ last' = NoCall

(* Mutant: Execute unsets only the options it makes available again *)
BugExecute ==
  /\ stage = "call" /\ purpose = "execute" /\ MayStart
  /\ opts' = StartRound([opts EXCEPT !.set = @ \ ExecuteOptions(opts.algorithm)])
  /\ Return /\ Recover
  /\ UNCHANGED <<loaded, purpose, pending, empty>> /\ last' = NoCall

Execute ==
  /\ stage = "call" /\ purpose = "execute" /\ MayStart
  /\ opts' = StartRound([opts EXCEPT !.set = @ \ opts.available])
  /\ Return /\ Recover
  /\ UNCHANGED <<loaded, purpose, pending, empty>> /\ last' = NoCall

Configure ==
  \/ FetchNeeded \/ BeginDefaults \/ NextRound
  \/ \E o \in Registered : SetGiven(o) \/ SetDefault(o)

Next ==
  \/ Configure \/ CallFails \/ LoadData \/ Execute
  \/ \E p \in {"load", "execute"} :
       \E kwargs \in RequestsOf[opts.algorithm][p] : Call(p, kwargs)
  \/ \E o \in Registered :
       DirectUnset(o) \/ \E v \in Offered(o) \cup {NoValue} : DirectSet(o, v)

Spec == Init /\ [][Next]_optionVars

(* The configuration loop is a sequential program: it does not stop.       *)
FairSpec == Spec /\ WF_optionVars(Configure)
-----------------------------------------------------------------------------
(* Properties.                                                             *)

(* Types; a set option has a value, unless its field was cleared.          *)
TypeOK ==
  /\ opts.algorithm \in Algorithms
  /\ Registered = Options(opts.algorithm)
  /\ opts.available \subseteq Registered /\ opts.set \subseteq Registered
  /\ \A o \in opts.set \ ClearedOptions : opts.field[o] # NoValue
  /\ opts.children \in [Registered -> SUBSET Registered]
  /\ loaded \in BOOLEAN
  /\ stage \in {"idle", "loop", "first", "second", "call"}
  /\ purpose \in {"load", "execute"}
  /\ pending \subseteq Registered /\ empty \subseteq Registered
  /\ disturbed \in {"no", "once", "forever"}

Running == stage = "call" /\ MayStart

Active == opts.available \cap opts.set

Base ==
  IF loaded THEN ExecuteOptions(opts.algorithm) ELSE LoadOptions(opts.algorithm)

(* The snapshot of needed options stays valid while the first pass sets    *)
(* them one by one: SetOption never takes its path for an option that is   *)
(* set, and no option of the snapshot is withdrawn.                        *)
SnapshotStaysValid ==
  stage = "first" => pending \cup empty \subseteq opts.available \ opts.set

(* What an algorithm runs on passes its value checks under the values the  *)
(* other options have at that moment, not only under those they had when   *)
(* it was set.                                                             *)
RunsOnCheckedValues ==
  Running /\ disturbed # "forever"
    => \A o \in Active : Accepts(o, opts.field[o], opts.field)

(* When it runs, the available options are the base options and those the  *)
(* present values of the set ones call for, in whatever order they were    *)
(* set.                                                                    *)
AvailableIsClosed ==
  Running /\ disturbed # "forever"
    => opts.available =
         Base \cup UNION {CondOpts(o, opts.field[o], opts.field) : o \in Active}

(* The registry is well formed, and what it offers is what it should.      *)
RegistryIsRight == TypeOK /\ AvailableIsClosed

(* "you can set the algorithms' options using keyword arguments of the     *)
(* load_data and execute methods": an algorithm runs on the values of this *)
(* call, else on defaults, never on those of an earlier one.               *)
RequestIsUsed ==
  \A o \in Active :
    opts.field[o] = IF request[o] = NoValue THEN Default(o, opts.field)
                    ELSE request[o]

(* It holds if no call has failed since the last Execute, and data is      *)
(* loaded once.                                                            *)
RequestIsUsedUndisturbed == Running /\ disturbed = "no" => RequestIsUsed

(* The configuration loop ends, with all options set or with an exception. *)
ConfigurationEnds == stage = "loop" ~> stage \in {"call", "idle"}
=============================================================================
