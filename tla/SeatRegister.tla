---------------------------- MODULE SeatRegister ----------------------------
(* What admissions promises about the seats of a year group, without            *)
(* transactions, locks, webhooks or the expiry job: a seat is granted in one      *)
(* step, to an application that is ready, while one is free; only a held seat     *)
(* turns into a student, once, and with the payment on record; whatever else      *)
(* happens to applications grants nothing and admits nobody.                      *)
EXTENDS Naturals, FiniteSets

CONSTANTS App, Group, Target

VARIABLES
  seats,      \* capacity of each year group
  cut,        \* year groups that have lost capacity
  ready,      \* applications that may be granted a seat
  held,       \* applications that hold one
  students,   \* students created from an application
  paid        \* applications with a payment or an override on record

vars == <<seats, cut, ready, held, students, paid>>

Init ==
  /\ seats \in [Group -> Nat] /\ cut = {}
  /\ ready = {} /\ held = {}
  /\ students = [a \in App |-> 0] /\ paid = {}

Holders(g) == {a \in held : Target[a] = g}

\* Count and take in one step: there is no moment in between.
Grant(a) ==
  LET g == Target[a]
  IN /\ a \in ready
     /\ g \in cut \/ Cardinality(Holders(g)) < seats[g]
     /\ ready' = ready \ {a} /\ held' = held \cup {a}
     /\ UNCHANGED <<seats, cut, students, paid>>

\* An application that comes round again is still one student.
Admit(a) ==
  /\ a \in held
  /\ held' = held \ {a}
  /\ students' = [students EXCEPT ![a] = 1] /\ paid' = paid \cup {a}
  /\ UNCHANGED <<seats, cut, ready>>

\* Applications become ready or stop being so, and seats are given up: routing,
\* promotion, rejection, withdrawal and expiry, of several at once.
Reassign ==
  /\ ready' \subseteq App /\ held' \subseteq held \ ready'
  /\ seats' \in [Group -> Nat] /\ \A g \in Group : seats'[g] >= seats[g]
  /\ UNCHANGED <<cut, students, paid>>

Resize ==
  /\ seats' \in [Group -> Nat] /\ cut' \subseteq Group /\ cut \subseteq cut'
  /\ \A g \in Group : seats'[g] < seats[g] => g \in cut'
  /\ UNCHANGED <<ready, held, students, paid>>

Next == (\E a \in App : Grant(a) \/ Admit(a)) \/ Reassign \/ Resize

Spec == Init /\ [][Next]_vars
=============================================================================
