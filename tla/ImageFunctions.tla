---------------------------- MODULE ImageFunctions ----------------------------
(***************************************************************************)
(* Function values of the original image as the generated routines of      *)
(* src/machine.cpp make and change them: PARTAPPLY (p12246-p12271,         *)
(* p21631, p25730), FNCOMP (p10421-p10443), and UPDATER, FNPROPS, FNPART   *)
(* and FROZVAL with their updaters (p10564-p10714).                        *)
(*                                                                         *)
(* A function is a word with the address of its record: the updater, the   *)
(* properties, the function that is applied and the strip of what is       *)
(* frozen.  A function of the image may have no record, or a protected     *)
(* one.  A value is a sort and a number.                                   *)
(***************************************************************************)
EXTENDS Integers, Sequences

CONSTANTS Frozen,    \* values that PARTAPPLY is given to freeze
          MaxRecords, MaxAssigned \* bounds

VARIABLES
  functions, \* the records by number
  strips,    \* by number, what they hold
  assigned,  \* how many assignments there have been
  born,      \* ghost: of each partial application with an updater, that and what it had
  touched    \* ghost: the functions assigned to, and the strips given to a function

functional == <<functions, strips, assigned, born, touched>>

Undef == <<"data", 0>>
Bare == <<"function", 0>>  \* without a record
Function(f) == <<"function", f>>
Strip(s) == <<"strip", s>>
Whole == 0 \* the index that asks FROZVAL for the strip itself

Values == {Undef, Bare} \cup {Function(f) : f \in DOMAIN functions} \cup {Strip(s) : s \in DOMAIN strips}

IsFunction(v) == v[1] = "function"
IsStrip(v) == v[1] = "strip"
HasRecord(v) == IsFunction(v) /\ v[2] \in DOMAIN functions
Record(v) == functions[v[2]]
IsClosure(v) == HasRecord(v) /\ Record(v).closure

Fresh(closure, updater, part, frozen) ==
  [closure |-> closure, protected |-> FALSE, updater |-> updater, props |-> Undef, part |-> part, frozen |-> frozen]

\* A protected function that has an updater, and one of the program that is its updater.
FunctionsInit ==
  /\ functions = <<[closure |-> FALSE, protected |-> TRUE, updater |-> Function(2), props |-> Undef,
                    part |-> Undef, frozen |-> Undef], Fresh(FALSE, Undef, Undef, Undef)>>
  /\ strips = <<>> /\ assigned = 0 /\ born = <<>> /\ touched = {}

---------------------------------------------------------------------------
(* Making functions *)

Makes(fs, ss, remembered) ==
  /\ Len(functions \o fs) <= MaxRecords
  /\ functions' = functions \o fs /\ strips' = strips \o ss /\ born' = born \o remembered
  /\ UNCHANGED <<assigned, touched>>

\* The diagnostic; nothing has been changed.
Fails(error) == error # 0 /\ UNCHANGED functional

UpdaterOf(f) == IF HasRecord(f) THEN Record(f).updater ELSE Undef

\* Mutant: the updater is given the strip of the function itself.
UpdaterStripShared == Strip(Len(strips) + 1)

\* 21631, 25730: the frozen values are stored once more.
UpdaterStrip == Strip(Len(strips) + 2)

\* 12246-12266: the list is looked at before the function.  The partial application has the
\* frozen values in a strip, and if the function in it has an updater one of its own, which is
\* that updater of the moment applied to the same values.
PARTAPPLY(f, frozen) ==
  LET h == Len(functions) + 1
      u == UpdaterOf(f)
      strip == Strip(Len(strips) + 1)
  IN IF ~IsFunction(f) THEN Fails(12202)
     ELSE IF ~IsFunction(u) THEN Makes(<<Fresh(TRUE, Undef, f, strip)>>, <<frozen>>, <<>>)
     ELSE Makes(<<Fresh(TRUE, Function(h + 1), f, strip), Fresh(TRUE, Undef, u, UpdaterStrip)>>,
                <<frozen, frozen>>, <<[updater |-> h + 1, part |-> u, frozen |-> frozen]>>)

\* 10421-10443: the second function is looked at first; a composition applies a routine of
\* the image to a strip of the two and is no partial application.
FNCOMP(f, g) ==
  IF IsFunction(f) /\ IsFunction(g)
  THEN Makes(<<Fresh(FALSE, Undef, Bare, Strip(Len(strips) + 1))>>, <<<<f, g>>>>, <<>>)
  ELSE Fails(10210)

---------------------------------------------------------------------------
(* Reading and assigning components *)

\* 10663, 10672: the operand is a function, or a partial application.
Inspects(is, error) == IF is THEN UNCHANGED functional ELSE Fails(error)

\* 10564, 10575, 10604: a function without record has neither updater nor properties.
UPDATER(f) == Inspects(IsFunction(f), 12030)
FNPROPS(f) == Inspects(IsFunction(f), 12030)
FNPART(f) == Inspects(IsClosure(f), 12031)

\* What SUBSCR finds at index i of a value.
Subscripted(i, v) == IsStrip(v) /\ v[2] \in DOMAIN strips /\ i \in DOMAIN strips[v[2]]

\* 10615: the strip, or by SUBSCR one component of it.
FROZVAL(i, f) ==
  IF ~IsClosure(f) THEN Fails(12031)
  ELSE Inspects(i = Whole \/ Subscripted(i, Record(f).frozen), 10100)

Assigns(fs, ss, touches) ==
  /\ assigned < MaxAssigned /\ assigned' = assigned + 1
  /\ functions' = fs /\ strips' = ss
  /\ touched' = touched \cup touches /\ UNCHANGED born

\* 10701: no function without a record, nor one that is protected.
Assignable(f) == HasRecord(f) /\ ~Record(f).protected

\* 10630, 10634, 10640: any value is stored.
AssignField(field, f, v) ==
  IF ~IsFunction(f) THEN Fails(12030)
  ELSE IF field = "part" /\ ~IsClosure(f) THEN Fails(12031)
  ELSE IF ~Assignable(f) THEN Fails(12032)
  ELSE Assigns([functions EXCEPT ![f[2]][field] = v], strips, {f})

\* 10645-10656: a component is checked by SUBSCR's updater; the strip as a whole is stored,
\* and only then error 12033 given for a value that is no strip.
AssignFrozen(i, f, v) ==
  IF ~IsClosure(f) THEN Fails(12031)
  ELSE IF ~Assignable(f) THEN Fails(12032)
  ELSE IF i = Whole THEN Assigns([functions EXCEPT ![f[2]].frozen = v], strips, {f, v})
  ELSE IF ~Subscripted(i, Record(f).frozen) THEN Fails(10100)
  ELSE Assigns(functions, [strips EXCEPT ![Record(f).frozen[2]][i] = v], {f})

FunctionsNext ==
  \/ \E f \in Values, x \in Frozen : PARTAPPLY(f, <<x>>)
  \/ \E f, g \in Values : FNCOMP(f, g)
  \/ \E f \in Values : UPDATER(f) \/ FNPROPS(f) \/ FNPART(f)
  \/ \E f \in Values, i \in {1, 2, Whole} : FROZVAL(i, f) \/ \E v \in Values : AssignFrozen(i, f, v)
  \/ \E f, v \in Values, field \in {"updater", "props", "part"} : AssignField(field, f, v)

FunctionsSpec == FunctionsInit /\ [][FunctionsNext]_functional

---------------------------------------------------------------------------
(* Properties *)

\* The updater of a partial application does what it did when both were made, whatever happens
\* to the strip and the function of the partial application, or to the updater of the function
\* in it: only an assignment to the updater itself, or through a strip the program has given to
\* a function, changes it (p12246-p12271).
UpdatersApply ==
  \A n \in DOMAIN born :
    LET b == born[n]
        u == functions[b.updater]
    IN {Function(b.updater), u.frozen} \cap touched = {}
       => u.part = b.part /\ u.frozen \in {Strip(s) : s \in DOMAIN strips} /\ strips[u.frozen[2]] = b.frozen

\* Two functions have one strip only where the program has given it to one of them, so an
\* assignment to a component of one changes no other (p25730, p10421).
StripsApart ==
  \A f, g \in DOMAIN functions :
    f # g /\ IsStrip(functions[f].frozen) /\ functions[f].frozen = functions[g].frozen
      => functions[f].frozen \in touched

\* Both, as the updaters of the functions that PARTAPPLY makes need them.
UpdatersStand == UpdatersApply /\ StripsApart
=============================================================================
