--------------------------- MODULE DevSpaceProofs ---------------------------
(***************************************************************************)
(* Proofs about DevSpace, for any finite set of users, any requests and    *)
(* any number of spaces, failing calls and restarts.                       *)
(***************************************************************************)
EXTENDS DevSpace, FiniteSetTheorems, TLAPS

CallSet == [call : CallNames, role : Roles, who : Subjects]
GroupSet == [must : BOOLEAN, calls : Seq(CallSet)]

-----------------------------------------------------------------------------
(* Sequences. *)

LEMMA OneIs == \A n \in Nat : (n > 1 => n # 1) /\ (n > 0 => n > 1 \/ n = 1)
OBVIOUS

LEMMA TailIs ==
  ASSUME NEW S, NEW s \in Seq(S), s # << >>
  PROVE  /\ Tail(s) \in Seq(S) /\ Len(Tail(s)) = Len(s) - 1
         /\ \A i \in 1..Len(s) - 1 : Tail(s)[i] = s[i + 1]
         /\ Head(s) = s[1] /\ Len(s) >= 1 /\ Head(s) \in S
OBVIOUS

LEMMA ConsIs ==
  ASSUME NEW S, NEW s \in Seq(S), NEW x \in S
  PROVE  /\ <<x>> \o s \in Seq(S) /\ Len(<<x>> \o s) = Len(s) + 1
         /\ (<<x>> \o s)[1] = x
         /\ \A i \in 2..Len(s) + 1 : (<<x>> \o s)[i] = s[i - 1]
OBVIOUS

LEMMA TwoIs ==
  ASSUME NEW S, NEW x \in S, NEW y \in S
  PROVE  <<x, y>> = <<x>> \o <<y>>
<1>1. <<y>> \in Seq(S) /\ Len(<<y>>) = 1 /\ <<y>>[1] = y
  OBVIOUS
<1>2. /\ <<x>> \o <<y>> \in Seq(S) /\ Len(<<x>> \o <<y>>) = 2
      /\ (<<x>> \o <<y>>)[1] = x /\ (<<x>> \o <<y>>)[2] = y
  BY <1>1, ConsIs
<1>3. <<x, y>> \in Seq(S) /\ Len(<<x, y>>) = 2 /\ <<x, y>>[1] = x /\ <<x, y>>[2] = y
  OBVIOUS
<1>4. \A s, t \in Seq(S) : Len(s) = 2 /\ Len(t) = 2 /\ s[1] = t[1] /\ s[2] = t[2] => s = t
  OBVIOUS
<1> QED BY <1>2, <1>3, <1>4, Zenon

LEMMA ConcatIs ==
  ASSUME NEW S, NEW s \in Seq(S), NEW t \in Seq(S)
  PROVE  /\ s \o t \in Seq(S) /\ Len(s \o t) = Len(s) + Len(t)
         /\ \A i \in 1..Len(s) : (s \o t)[i] = s[i]
         /\ \A i \in Len(s) + 1..Len(s) + Len(t) : (s \o t)[i] = t[i - Len(s)]
OBVIOUS

(* The rest of a program after its first call ... *)
LEMMA AfterCallIs ==
  ASSUME NEW todo \in Programs, todo # << >>, Len(todo[1].calls) > 0
  PROVE  /\ AfterCall(todo) \in Programs
         /\ Len(todo[1].calls) > 1 =>
              /\ Len(AfterCall(todo)) = Len(todo)
              /\ AfterCall(todo)[1].must = todo[1].must
              /\ AfterCall(todo)[1].calls = Tail(todo[1].calls)
              /\ \A g \in 2..Len(todo) : AfterCall(todo)[g] = todo[g]
         /\ Len(todo[1].calls) = 1 =>
              /\ Len(AfterCall(todo)) = Len(todo) - 1
              /\ \A g \in 1..Len(todo) - 1 : AfterCall(todo)[g] = todo[g + 1]
<1>1. todo \in Seq(GroupSet) /\ Programs = Seq(GroupSet)
  BY DEF Programs, GroupSet, CallSet
<1>2. Head(todo) = todo[1] /\ todo[1] \in GroupSet
  BY <1>1
<1>3. CASE Len(todo[1].calls) > 1
  <2> DEFINE g == [todo[1] EXCEPT !.calls = Tail(@)]
  <2>1. todo[1].calls # << >> /\ todo[1].calls \in Seq(CallSet)
    BY <1>2, <1>3 DEF GroupSet
  <2>2. Tail(todo[1].calls) \in Seq(CallSet)
    BY <2>1, TailIs
  <2>3. g \in GroupSet /\ g.must = todo[1].must /\ g.calls = Tail(todo[1].calls)
    BY <2>2, <1>2 DEF GroupSet
  <2>4. AfterCall(todo) = <<g>> \o Tail(todo)
    BY <1>2, <1>3 DEF AfterCall
  <2> HIDE DEF g
  <2>5. /\ Tail(todo) \in Seq(GroupSet) /\ Len(Tail(todo)) = Len(todo) - 1 /\ Len(todo) \in Nat
        /\ \A i \in 1..Len(todo) - 1 : Tail(todo)[i] = todo[i + 1]
    BY <1>1, TailIs
  <2>6. /\ <<g>> \o Tail(todo) \in Seq(GroupSet) /\ Len(<<g>> \o Tail(todo)) = Len(todo)
        /\ (<<g>> \o Tail(todo))[1] = g
        /\ \A i \in 2..Len(todo) : (<<g>> \o Tail(todo))[i] = Tail(todo)[i - 1]
    BY <2>3, <2>5, ConsIs
  <2>7. ASSUME NEW i \in 2..Len(todo)
        PROVE  (<<g>> \o Tail(todo))[i] = todo[i]
    <3>1. i - 1 \in 1..Len(todo) - 1 /\ (i - 1) + 1 = i
      BY <2>5
    <3>2. Tail(todo)[i - 1] = todo[i]
      BY <2>5, <3>1, Zenon
    <3> QED BY <2>6, <3>2
  <2>8. /\ AfterCall(todo) \in Programs /\ Len(AfterCall(todo)) = Len(todo)
        /\ AfterCall(todo)[1].must = todo[1].must
        /\ AfterCall(todo)[1].calls = Tail(todo[1].calls)
        /\ \A i \in 2..Len(todo) : AfterCall(todo)[i] = todo[i]
    BY <1>1, <2>3, <2>4, <2>6, <2>7, Zenon
  <2>9. Len(todo[1].calls) # 1
    <3>1. Len(todo[1].calls) \in Nat
      BY <2>1
    <3> QED BY <1>3, <3>1, OneIs, Zenon
  <2> QED BY <2>8, <2>9, Zenon
<1>4. CASE ~ (Len(todo[1].calls) > 1)
  <2>1. AfterCall(todo) = Tail(todo)
    BY <1>2, <1>4 DEF AfterCall
  <2> QED BY <2>1, <1>1, <1>4, TailIs
<1> QED BY <1>3, <1>4

(* ... and after a call that failed. *)
LEMMA AfterFailureIs ==
  ASSUME NEW todo \in Programs, todo # << >>
  PROVE  /\ AfterFailure(todo) \in Programs
         /\ todo[1].must => AfterFailure(todo) = << >>
         /\ ~ todo[1].must =>
              /\ Len(AfterFailure(todo)) = Len(todo) - 1
              /\ \A g \in 1..Len(todo) - 1 : AfterFailure(todo)[g] = todo[g + 1]
<1>1. todo \in Seq(GroupSet) /\ Programs = Seq(GroupSet) /\ << >> \in Seq(GroupSet)
  BY DEF Programs, GroupSet, CallSet
<1>2. Head(todo) = todo[1]
  BY <1>1
<1>3. /\ Tail(todo) \in Seq(GroupSet) /\ Len(Tail(todo)) = Len(todo) - 1
      /\ \A g \in 1..Len(todo) - 1 : Tail(todo)[g] = todo[g + 1]
  BY <1>1, TailIs
<1>4. CASE todo[1].must
  BY <1>1, <1>2, <1>4 DEF AfterFailure
<1>5. CASE ~ todo[1].must
  <2>1. AfterFailure(todo) = Tail(todo)
    BY <1>2, <1>5 DEF AfterFailure
  <2> QED BY <2>1, <1>1, <1>3, <1>5
<1> QED BY <1>4, <1>5

-----------------------------------------------------------------------------
(* What the programs of the handlers have in common.  All of it is kept by *)
(* AfterCall and AfterFailure: it says which calls there are, and of two   *)
(* that follow each other in a group what the first tells of the second.   *)

CallOK(s, op, c) ==
  /\ s = "cluster" => c.call \notin {"createNs", "namespace", "deleteNs", "list"}
  /\ c.call = "forget" => op \in {"delete", "recreate"}
  /\ c.call = "list" => op = "recreate"
  /\ c.call = "unauthorize" => op = "delete" /\ c.role = "admin" /\ c.who = Owner
  /\ c.call = "removeAll" => op = "delete" /\ c.role \in Shared
  /\ c.call = "remove" => op # "create" /\ c.role \in Shared
  /\ c.call = "append" /\ c.role = "admin" /\ s = "cluster" => c.who = Owner

Link(s, op, c, d) ==
  /\ c.call = "createNs" => d.call = "insert"
  /\ c.call = "append" /\ c.role \in Shared => d = Call("remove", Other(c.role), c.who)
  /\ d.call = "remove" /\ op \in {"share", "recreate"} => c = Call("append", Other(d.role), d.who)
  /\ d.call = "forget" /\ s = "ns" => c.call = "deleteNs"
  /\ d.call \notin {"add", "list", "deleteNs"}

EndOK(c) == c.call \notin {"createNs", "removeAll"} /\ ~ (c.call = "append" /\ c.role \in Shared)

Removals == {"remove", "removeAll", "unauthorize"}

CallsOK(s, op, calls) ==
  /\ Len(calls) > 0
  /\ \A i \in 1..Len(calls) : CallOK(s, op, calls[i])
  /\ EndOK(calls[Len(calls)])
  /\ \A i \in 1..Len(calls) - 1 : Link(s, op, calls[i], calls[i + 1])
  /\ \A i, j \in 1..Len(calls) :
       i < j /\ calls[i].call = "forget" => calls[j].call \notin Removals

MustOK(op, calls) ==
  op # "delete" /\ \A i \in 1..Len(calls) : calls[i].call \notin {"add", "createNs"}

GroupOK(s, op, g) == CallsOK(s, op, g.calls) /\ (g.must \/ MustOK(op, g.calls))

AddGroup == Must(<<Plain("add")>>)

StartOK(op, f, c) ==
  /\ c.call \notin {"add", "forget"}
  /\ c.call \in {"list", "deleteNs"} => f = AddGroup
  /\ op \in {"share", "recreate"} => c.call # "remove"

ProgramOK(s, op, todo) ==
  /\ Len(todo) > 0
  /\ \A g \in 1..Len(todo) : GroupOK(s, op, todo[g])
  /\ \A g \in 2..Len(todo) : StartOK(op, todo[g - 1], todo[g].calls[1])
  /\ op = "delete" => Len(todo) = 1 \/ (Len(todo) = 2 /\ todo[1] = AddGroup)

LEMMA CallsTail ==
  ASSUME NEW s, NEW op, NEW calls \in Seq(CallSet), CallsOK(s, op, calls), Len(calls) > 1
  PROVE  CallsOK(s, op, Tail(calls))
<1>1. /\ Tail(calls) \in Seq(CallSet) /\ Len(Tail(calls)) = Len(calls) - 1 /\ Len(calls) \in Nat
      /\ \A i \in 1..Len(calls) - 1 : Tail(calls)[i] = calls[i + 1]
  BY TailIs DEF CallsOK
<1>2. Len(Tail(calls)) > 0
  BY <1>1
<1>3. ASSUME NEW i \in 1..Len(Tail(calls))
      PROVE  CallOK(s, op, Tail(calls)[i])
  <2>1. i \in 1..Len(calls) - 1 /\ i + 1 \in 1..Len(calls)
    BY <1>1
  <2> QED BY <1>1, <2>1, Zenon DEF CallsOK
<1>4. EndOK(Tail(calls)[Len(Tail(calls))])
  <2>1. Tail(calls)[Len(Tail(calls))] = calls[Len(calls)]
    <3>1. Len(calls) - 1 \in 1..Len(calls) - 1 /\ (Len(calls) - 1) + 1 = Len(calls)
      BY <1>1
    <3> QED BY <1>1, <3>1, Zenon
  <2> QED BY <2>1, Zenon DEF CallsOK
<1>5. ASSUME NEW i \in 1..Len(Tail(calls)) - 1
      PROVE  Link(s, op, Tail(calls)[i], Tail(calls)[i + 1])
  <2>1. i \in 1..Len(calls) - 1 /\ i + 1 \in 1..Len(calls) - 1
    BY <1>1
  <2> QED BY <1>1, <2>1, Zenon DEF CallsOK
<1>6. ASSUME NEW i \in 1..Len(Tail(calls)), NEW j \in 1..Len(Tail(calls)), i < j,
             Tail(calls)[i].call = "forget"
      PROVE  Tail(calls)[j].call \notin Removals
  <2>1. /\ i \in 1..Len(calls) - 1 /\ j \in 1..Len(calls) - 1 /\ i + 1 < j + 1
        /\ i + 1 \in 1..Len(calls) /\ j + 1 \in 1..Len(calls)
    BY <1>1, <1>6
  <2>2. Tail(calls)[i] = calls[i + 1] /\ Tail(calls)[j] = calls[j + 1]
    BY <1>1, <2>1, Zenon
  <2> QED BY <1>6, <2>1, <2>2, Zenon DEF CallsOK
<1> QED BY <1>2, <1>3, <1>4, <1>5, <1>6, Zenon DEF CallsOK

(* The call a program is at. *)
FirstCall(todo) == todo[1].calls[1]

LEMMA FirstIs ==
  ASSUME NEW s, NEW op, NEW todo \in Programs, ProgramOK(s, op, todo)
  PROVE  /\ todo # << >> /\ todo[1] \in GroupSet /\ GroupOK(s, op, todo[1])
         /\ todo[1].calls \in Seq(CallSet) /\ Len(todo[1].calls) \in Nat /\ Len(todo[1].calls) > 0
         /\ Head(Head(todo).calls) = FirstCall(todo) /\ FirstCall(todo) \in CallSet
         /\ CallOK(s, op, FirstCall(todo))
         /\ Len(todo) \in Nat /\ Len(todo) > 0
<1>1. todo \in Seq(GroupSet) /\ Len(todo) \in Nat
  BY DEF Programs, GroupSet, CallSet
<1>2. Len(todo) > 0 /\ \A g \in 1..Len(todo) : GroupOK(s, op, todo[g])
  BY Zenon DEF ProgramOK
<1>3. 1 \in 1..Len(todo) /\ todo # << >>
  BY <1>1, <1>2
<1>4. todo[1] \in GroupSet /\ Head(todo) = todo[1]
  BY <1>1, <1>3
<1>5. GroupOK(s, op, todo[1])
  BY <1>2, <1>3, Zenon
<1>6. todo[1].calls \in Seq(CallSet)
  BY <1>4 DEF GroupSet
<1>7. Len(todo[1].calls) > 0 /\ \A i \in 1..Len(todo[1].calls) : CallOK(s, op, todo[1].calls[i])
  BY <1>5, Zenon DEF GroupOK, CallsOK
<1> DEFINE calls == todo[1].calls
<1>8. /\ Len(calls) \in Nat /\ 1 \in 1..Len(calls) /\ calls[1] \in CallSet
      /\ Head(calls) = calls[1]
  <2> HIDE DEF calls
  <2>1. calls \in Seq(CallSet) /\ Len(calls) > 0
    BY <1>6, <1>7 DEF calls
  <2> QED BY <2>1
<1> QED BY <1>1, <1>2, <1>3, <1>4, <1>5, <1>6, <1>7, <1>8, Zenon DEF FirstCall

LEMMA AfterCallOK ==
  ASSUME NEW s, NEW op, NEW todo \in Programs, ProgramOK(s, op, todo)
  PROVE  LET next == AfterCall(todo) IN
         /\ next \in Programs
         /\ next = << >> => EndOK(FirstCall(todo))
         /\ next # << >> =>
              /\ ProgramOK(s, op, next)
              /\ \/ Link(s, op, FirstCall(todo), FirstCall(next))
                 \/ EndOK(FirstCall(todo)) /\ StartOK(op, todo[1], FirstCall(next))
<1> DEFINE next == AfterCall(todo)
           calls == todo[1].calls
<1>1. /\ todo # << >> /\ todo[1] \in GroupSet /\ GroupOK(s, op, todo[1])
      /\ calls \in Seq(CallSet) /\ Len(calls) \in Nat /\ Len(calls) > 0
      /\ FirstCall(todo) = calls[1] /\ Len(todo) \in Nat /\ Len(todo) > 0
  BY FirstIs DEF FirstCall
<1>2. /\ next \in Programs
      /\ Len(calls) > 1 =>
           /\ Len(next) = Len(todo)
           /\ next[1].must = todo[1].must
           /\ next[1].calls = Tail(calls)
           /\ \A g \in 2..Len(todo) : next[g] = todo[g]
      /\ Len(calls) = 1 =>
           /\ Len(next) = Len(todo) - 1
           /\ \A g \in 1..Len(todo) - 1 : next[g] = todo[g + 1]
  BY <1>1, AfterCallIs, Zenon
<1>3. /\ \A g \in 1..Len(todo) : GroupOK(s, op, todo[g])
      /\ \A g \in 2..Len(todo) : StartOK(op, todo[g - 1], todo[g].calls[1])
      /\ op = "delete" => Len(todo) = 1 \/ (Len(todo) = 2 /\ todo[1] = AddGroup)
  BY Zenon DEF ProgramOK
<1>4. CallsOK(s, op, calls) /\ (todo[1].must \/ MustOK(op, calls))
  BY <1>1, Zenon DEF GroupOK
<1>5. next \in Seq(GroupSet) /\ Len(next) \in Nat
  BY <1>2 DEF Programs, GroupSet, CallSet
<1> HIDE DEF next, calls
<1>6. CASE Len(calls) > 1
  <2>1. /\ Tail(calls) \in Seq(CallSet) /\ Len(Tail(calls)) = Len(calls) - 1
        /\ \A i \in 1..Len(calls) - 1 : Tail(calls)[i] = calls[i + 1]
    BY <1>1, <1>6, TailIs
  <2>2. CallsOK(s, op, Tail(calls))
    BY <1>1, <1>4, <1>6, CallsTail
  <2>3. MustOK(op, calls) => MustOK(op, Tail(calls))
    <3>1. ASSUME NEW i \in 1..Len(Tail(calls))
          PROVE  i \in 1..Len(calls) - 1 /\ i + 1 \in 1..Len(calls)
      BY <1>1, <2>1
    <3> QED BY <2>1, <3>1, Zenon DEF MustOK
  <2>4. GroupOK(s, op, next[1])
    BY <1>2, <1>4, <1>6, <2>2, <2>3, Zenon DEF GroupOK
  <2>5. /\ Len(next) = Len(todo) /\ next[1].calls = Tail(calls)
        /\ \A g \in 2..Len(todo) : next[g] = todo[g]
    BY <1>2, <1>6
  <2>6. ASSUME NEW g \in 1..Len(next)
        PROVE  GroupOK(s, op, next[g])
    <3>1. g = 1 \/ g \in 2..Len(todo)
      BY <1>1, <2>5
    <3>2. CASE g = 1
      BY <2>4, <3>2, Zenon
    <3>3. CASE g \in 2..Len(todo)
      <4>1. g \in 1..Len(todo)
        BY <1>1, <3>3
      <4> QED BY <1>3, <2>5, <3>3, <4>1, Zenon
    <3> QED BY <3>1, <3>2, <3>3
  <2>7. todo[1] # AddGroup
    <3>1. AddGroup.calls = <<Plain("add")>> /\ Len(<<Plain("add")>>) = 1
      BY DEF AddGroup, Must
    <3>2. Len(calls) # 1
      BY <1>1, <1>6, OneIs, Zenon
    <3> QED BY <3>1, <3>2 DEF calls
  <2>8. ASSUME NEW g \in 2..Len(next)
        PROVE  StartOK(op, next[g - 1], next[g].calls[1])
    <3>1. g \in 2..Len(todo) /\ (g = 2 \/ g - 1 \in 2..Len(todo))
      BY <1>1, <2>5
    <3>2. StartOK(op, todo[g - 1], next[g].calls[1])
      BY <1>3, <2>5, <3>1, Zenon
    <3>3. CASE g = 2
      <4>1. StartOK(op, todo[1], next[g].calls[1])
        <5>1. g - 1 = 1
          BY <3>3
        <5> QED BY <3>2, <5>1, Zenon
      <4> QED BY <2>7, <4>1, Zenon DEF StartOK
    <3>4. CASE g - 1 \in 2..Len(todo)
      BY <2>5, <3>2, <3>4, Zenon
    <3> QED BY <3>1, <3>3, <3>4
  <2>9. op = "delete" => Len(next) = 1
    <3>1. Len(next) = Len(todo)
      BY <2>5
    <3> QED BY <1>3, <2>7, <3>1, Zenon
  <2>10. ProgramOK(s, op, next)
    <3>1. Len(next) > 0
      BY <1>1, <2>5
    <3> QED BY <3>1, <2>6, <2>8, <2>9, Zenon DEF ProgramOK
  <2>11. Link(s, op, FirstCall(todo), FirstCall(next))
    <3>1. 1 \in 1..Len(calls) - 1 /\ 1 + 1 = 2
      BY <1>1, <1>6
    <3>2. FirstCall(next) = calls[1 + 1]
      BY <2>1, <2>5, <3>1, Zenon DEF FirstCall
    <3>3. Link(s, op, calls[1], calls[1 + 1])
      BY <1>4, <3>1, Zenon DEF CallsOK
    <3> QED BY <1>1, <3>2, <3>3, Zenon
  <2>12. next # << >>
    BY <1>1, <1>5, <2>5
  <2> QED BY <1>2, <2>10, <2>11, <2>12, Zenon DEF next
<1>7. CASE Len(calls) = 1
  <2>1. /\ Len(next) = Len(todo) - 1
        /\ \A g \in 1..Len(todo) - 1 : next[g] = todo[g + 1]
    BY <1>2, <1>7
  <2>2. EndOK(FirstCall(todo))
    BY <1>1, <1>4, <1>7, Zenon DEF CallsOK
  <2>3. CASE next = << >>
    BY <1>2, <2>2, <2>3, Zenon DEF next
  <2>4. CASE next # << >>
    <3>1. Len(next) > 0 /\ Len(todo) > 1
      BY <1>1, <1>5, <2>1, <2>4
    <3>2. ASSUME NEW g \in 1..Len(next)
          PROVE  GroupOK(s, op, next[g])
      <4>1. g \in 1..Len(todo) - 1 /\ g + 1 \in 1..Len(todo)
        BY <1>1, <2>1
      <4> QED BY <1>3, <2>1, <4>1, Zenon
    <3>3. ASSUME NEW g \in 2..Len(next)
          PROVE  StartOK(op, next[g - 1], next[g].calls[1])
      <4>1. /\ g \in 1..Len(todo) - 1 /\ g - 1 \in 1..Len(todo) - 1
            /\ g + 1 \in 2..Len(todo) /\ (g - 1) + 1 = (g + 1) - 1
        BY <1>1, <2>1
      <4>2. next[g] = todo[g + 1] /\ next[g - 1] = todo[(g + 1) - 1]
        BY <2>1, <4>1, Zenon
      <4> QED BY <1>3, <4>1, <4>2, Zenon
    <3>4. op = "delete" => Len(next) = 1
      BY <1>1, <1>3, <2>1, <3>1
    <3>5. ProgramOK(s, op, next)
      BY <3>1, <3>2, <3>3, <3>4, Zenon DEF ProgramOK
    <3>6. StartOK(op, todo[1], FirstCall(next))
      <4>1. 1 \in 1..Len(todo) - 1 /\ 2 \in 2..Len(todo) /\ 1 + 1 = 2 /\ 2 - 1 = 1
        BY <1>1, <3>1
      <4>2. next[1] = todo[2]
        BY <2>1, <4>1
      <4>3. StartOK(op, todo[2 - 1], todo[2].calls[1])
        BY <1>3, <4>1, Zenon
      <4> QED BY <4>1, <4>2, <4>3 DEF FirstCall
    <3> QED BY <1>2, <2>2, <2>4, <3>5, <3>6, Zenon DEF next
  <2> QED BY <2>3, <2>4
<1>8. Len(calls) > 1 \/ Len(calls) = 1
  BY <1>1, OneIs, Zenon
<1> QED BY <1>6, <1>7, <1>8

LEMMA AfterFailureOK ==
  ASSUME NEW s, NEW op, NEW todo \in Programs, ProgramOK(s, op, todo)
  PROVE  LET next == AfterFailure(todo) IN
         /\ next \in Programs
         /\ next # << >> =>
              /\ ProgramOK(s, op, next) /\ StartOK(op, todo[1], FirstCall(next))
              /\ op # "delete" /\ FirstCall(todo).call \notin {"add", "createNs"}
<1> DEFINE next == AfterFailure(todo)
<1>1. /\ todo # << >> /\ Len(todo) \in Nat /\ Len(todo) > 0 /\ GroupOK(s, op, todo[1])
      /\ Len(todo[1].calls) \in Nat /\ Len(todo[1].calls) > 0
  BY FirstIs
<1>2. /\ next \in Programs
      /\ todo[1].must => next = << >>
      /\ ~ todo[1].must =>
           /\ Len(next) = Len(todo) - 1
           /\ \A g \in 1..Len(todo) - 1 : next[g] = todo[g + 1]
  BY <1>1, AfterFailureIs, Zenon
<1>3. /\ \A g \in 1..Len(todo) : GroupOK(s, op, todo[g])
      /\ \A g \in 2..Len(todo) : StartOK(op, todo[g - 1], todo[g].calls[1])
  BY Zenon DEF ProgramOK
<1>4. next \in Seq(GroupSet) /\ Len(next) \in Nat
  BY <1>2 DEF Programs, GroupSet, CallSet
<1> HIDE DEF next
<1>5. CASE next = << >>
  BY <1>2, <1>5, Zenon DEF next
<1>6. CASE next # << >>
  <2>1. /\ ~ todo[1].must /\ Len(next) = Len(todo) - 1
        /\ \A g \in 1..Len(todo) - 1 : next[g] = todo[g + 1]
    BY <1>2, <1>6, Zenon
  <2>2. MustOK(op, todo[1].calls)
    BY <1>1, <2>1, Zenon DEF GroupOK
  <2>3. op # "delete" /\ FirstCall(todo).call \notin {"add", "createNs"}
    <3>1. 1 \in 1..Len(todo[1].calls)
      BY <1>1
    <3> QED BY <2>2, <3>1, Zenon DEF MustOK, FirstCall
  <2>4. Len(next) > 0 /\ Len(todo) > 1
    BY <1>1, <1>4, <2>1, <1>6
  <2>5. ASSUME NEW g \in 1..Len(next)
        PROVE  GroupOK(s, op, next[g])
    <3>1. g \in 1..Len(todo) - 1 /\ g + 1 \in 1..Len(todo)
      BY <1>1, <2>1
    <3> QED BY <1>3, <2>1, <3>1, Zenon
  <2>6. ASSUME NEW g \in 2..Len(next)
        PROVE  StartOK(op, next[g - 1], next[g].calls[1])
    <3>1. /\ g \in 1..Len(todo) - 1 /\ g - 1 \in 1..Len(todo) - 1
          /\ g + 1 \in 2..Len(todo) /\ (g - 1) + 1 = (g + 1) - 1
      BY <1>1, <2>1
    <3>2. next[g] = todo[g + 1] /\ next[g - 1] = todo[(g + 1) - 1]
      BY <2>1, <3>1, Zenon
    <3> QED BY <1>3, <3>1, <3>2, Zenon
  <2>7. ProgramOK(s, op, next)
    BY <2>3, <2>4, <2>5, <2>6, Zenon DEF ProgramOK
  <2>8. StartOK(op, todo[1], FirstCall(next))
    <3>1. 1 \in 1..Len(todo) - 1 /\ 2 \in 2..Len(todo) /\ 1 + 1 = 2 /\ 2 - 1 = 1
      BY <1>1, <2>4
    <3>2. next[1] = todo[2]
      BY <2>1, <3>1
    <3>3. StartOK(op, todo[2 - 1], todo[2].calls[1])
      BY <1>3, <3>1, Zenon
    <3> QED BY <3>1, <3>2, <3>3 DEF FirstCall
  <2> QED BY <1>2, <2>3, <2>7, <2>8, Zenon DEF next
<1> QED BY <1>5, <1>6

-----------------------------------------------------------------------------
(* The programs are of this kind. *)

LEMMA CallFacts ==
  ASSUME NEW call \in CallNames, NEW role \in Roles, NEW who \in Subjects
  PROVE  /\ Call(call, role, who) \in CallSet
         /\ Call(call, role, who).call = call /\ Call(call, role, who).role = role
         /\ Call(call, role, who).who = who
         /\ Plain(call) \in CallSet /\ Plain(call).call = call /\ Plain(call).role = "admin"
         /\ Plain(call).who = Owner
BY DEF Call, Plain, CallSet, Roles, Subjects

(* Calls that may follow any others at the end of a group. *)
Harmless(s, c) ==
  /\ c.role = "admin" /\ c.call \in {"namespace", "append"}
  /\ s = "cluster" => c.call = "append" /\ c.who = Owner

LEMMA HarmlessLink ==
  ASSUME NEW s, NEW op, NEW c, NEW d, Harmless(s, d), EndOK(c) \/ Harmless(s, c)
  PROVE  Link(s, op, c, d) /\ EndOK(d) /\ CallOK(s, op, d) /\ d.call \notin Removals
<1>1. /\ d.call \in {"namespace", "append"} /\ d.role = "admin"
      /\ s = "cluster" => d.call = "append" /\ d.who = Owner
  BY DEF Harmless
<1>2. "admin" \notin Shared
  BY DEF Shared
<1>3. c.call # "createNs" /\ ~ (c.call = "append" /\ c.role \in Shared)
  BY <1>2 DEF Harmless, EndOK
<1> QED BY <1>1, <1>2, <1>3 DEF Link, EndOK, CallOK, Removals

LEMMA HarmlessConcat ==
  ASSUME NEW s, NEW op, NEW a \in Seq(CallSet), CallsOK(s, op, a),
         NEW b \in Seq(CallSet), \A i \in 1..Len(b) : Harmless(s, b[i])
  PROVE  CallsOK(s, op, a \o b)
<1> DEFINE t == a \o b
<1>1. /\ t \in Seq(CallSet) /\ Len(t) = Len(a) + Len(b) /\ Len(a) \in Nat /\ Len(b) \in Nat
      /\ \A i \in 1..Len(a) : t[i] = a[i]
      /\ \A i \in Len(a) + 1..Len(a) + Len(b) : t[i] = b[i - Len(a)]
  BY ConcatIs
<1> HIDE DEF t
<1>2. /\ Len(a) > 0
      /\ \A i \in 1..Len(a) : CallOK(s, op, a[i])
      /\ EndOK(a[Len(a)])
      /\ \A i \in 1..Len(a) - 1 : Link(s, op, a[i], a[i + 1])
      /\ \A i, j \in 1..Len(a) : i < j /\ a[i].call = "forget" => a[j].call \notin Removals
  BY Zenon DEF CallsOK
<1>3. ASSUME NEW i \in Len(a) + 1..Len(a) + Len(b)
      PROVE  Harmless(s, t[i])
  <2>1. i - Len(a) \in 1..Len(b)
    BY <1>1
  <2> QED BY <1>1, <2>1, Zenon
<1>4. ASSUME NEW i \in 1..Len(t) - 1, i >= Len(a)
      PROVE  (EndOK(t[i]) \/ Harmless(s, t[i])) /\ Harmless(s, t[i + 1])
  <2>1. i + 1 \in Len(a) + 1..Len(a) + Len(b) /\ (i = Len(a) \/ i \in Len(a) + 1..Len(a) + Len(b))
    BY <1>1, <1>4
  <2>2. Len(a) \in 1..Len(a)
    BY <1>1, <1>2
  <2> QED BY <1>1, <1>2, <1>3, <2>1, <2>2, Zenon
<1>5. ASSUME NEW i \in 1..Len(t)
      PROVE  CallOK(s, op, t[i])
  <2>1. i \in 1..Len(a) \/ i \in Len(a) + 1..Len(a) + Len(b)
    BY <1>1
  <2>2. EndOK(t[Len(a)]) /\ Harmless(s, t[i]) => CallOK(s, op, t[i])
    BY HarmlessLink, Zenon
  <2>3. Len(a) \in 1..Len(a)
    BY <1>1, <1>2
  <2> QED BY <1>1, <1>2, <1>3, <2>1, <2>2, <2>3, Zenon
<1>6. ASSUME NEW i \in 1..Len(t) - 1
      PROVE  Link(s, op, t[i], t[i + 1])
  <2>1. CASE i >= Len(a)
    BY <1>4, <2>1, HarmlessLink, Zenon
  <2>2. CASE ~ (i >= Len(a))
    <3>1. i \in 1..Len(a) - 1 /\ i \in 1..Len(a) /\ i + 1 \in 1..Len(a)
      BY <1>1, <2>2
    <3> QED BY <1>1, <1>2, <3>1, Zenon
  <2> QED BY <2>1, <2>2
<1>7. EndOK(t[Len(t)])
  <2>1. CASE Len(b) = 0
    <3>1. Len(t) = Len(a) /\ Len(a) \in 1..Len(a)
      BY <1>1, <1>2, <2>1
    <3> QED BY <1>1, <1>2, <3>1, Zenon
  <2>2. CASE Len(b) # 0
    <3>1. /\ Len(t) - 1 \in 1..Len(t) - 1 /\ Len(t) - 1 >= Len(a) /\ (Len(t) - 1) + 1 = Len(t)
      BY <1>1, <1>2, <2>2
    <3>2. (EndOK(t[Len(t) - 1]) \/ Harmless(s, t[Len(t) - 1])) /\ Harmless(s, t[Len(t)])
      BY <1>4, <3>1, Zenon
    <3> QED BY <3>2, HarmlessLink, Zenon
  <2> QED BY <2>1, <2>2
<1>8. ASSUME NEW i \in 1..Len(t), NEW j \in 1..Len(t), i < j, t[i].call = "forget"
      PROVE  t[j].call \notin Removals
  <2>1. CASE j \in 1..Len(a)
    <3>1. i \in 1..Len(a)
      BY <1>1, <1>8, <2>1
    <3> QED BY <1>1, <1>2, <1>8, <2>1, <3>1, Zenon
  <2>2. CASE j \in Len(a) + 1..Len(a) + Len(b)
    <3>1. Harmless(s, t[j])
      BY <1>3, <2>2, Zenon
    <3> QED BY <3>1 DEF Harmless, Removals
  <2>3. j \in 1..Len(a) \/ j \in Len(a) + 1..Len(a) + Len(b)
    BY <1>1
  <2> QED BY <2>1, <2>2, <2>3
<1>9. Len(t) > 0
  BY <1>1, <1>2
<1> QED BY <1>5, <1>6, <1>7, <1>8, <1>9, Zenon DEF CallsOK, t

(* A call in front of others. *)
LEMMA ConsCalls ==
  ASSUME NEW s, NEW op, NEW c \in CallSet, CallOK(s, op, c), NEW x \in Seq(CallSet),
         CallsOK(s, op, x), Link(s, op, c, x[1]),
         c.call # "forget" \/ \A i \in 1..Len(x) : x[i].call \notin Removals
  PROVE  /\ <<c>> \o x \in Seq(CallSet) /\ CallsOK(s, op, <<c>> \o x)
         /\ (<<c>> \o x)[1] = c
<1> DEFINE t == <<c>> \o x
<1>1. /\ t \in Seq(CallSet) /\ Len(t) = Len(x) + 1 /\ Len(x) \in Nat /\ t[1] = c
      /\ \A i \in 2..Len(x) + 1 : t[i] = x[i - 1]
  BY ConsIs
<1> HIDE DEF t
<1>2. /\ Len(x) > 0
      /\ \A i \in 1..Len(x) : CallOK(s, op, x[i])
      /\ EndOK(x[Len(x)])
      /\ \A i \in 1..Len(x) - 1 : Link(s, op, x[i], x[i + 1])
      /\ \A i, j \in 1..Len(x) : i < j /\ x[i].call = "forget" => x[j].call \notin Removals
  BY Zenon DEF CallsOK
<1>4. ASSUME NEW i \in 1..Len(t)
      PROVE  CallOK(s, op, t[i])
  <2>1. i = 1 \/ (i \in 2..Len(x) + 1 /\ i - 1 \in 1..Len(x))
    BY <1>1
  <2> QED BY <1>1, <1>2, <2>1, Zenon
<1>5. ASSUME NEW i \in 1..Len(t) - 1
      PROVE  Link(s, op, t[i], t[i + 1])
  <2>1. CASE i = 1
    <3>1. i + 1 \in 2..Len(x) + 1 /\ (i + 1) - 1 = 1
      BY <1>1, <1>2, <2>1
    <3>2. t[i + 1] = x[1]
      BY <1>1, <3>1, Zenon
    <3> QED BY <1>1, <2>1, <3>2, Zenon
  <2>2. CASE i # 1
    <3>1. /\ i \in 2..Len(x) + 1 /\ i + 1 \in 2..Len(x) + 1 /\ i - 1 \in 1..Len(x) - 1
          /\ (i + 1) - 1 = (i - 1) + 1
      BY <1>1, <2>2
    <3>2. t[i] = x[i - 1] /\ t[i + 1] = x[(i + 1) - 1]
      BY <1>1, <3>1, Zenon
    <3>3. Link(s, op, x[i - 1], x[(i - 1) + 1])
      BY <1>2, <3>1, Zenon
    <3> QED BY <3>1, <3>2, <3>3, Zenon
  <2> QED BY <2>1, <2>2
<1>6. EndOK(t[Len(t)])
  <2>1. Len(t) \in 2..Len(x) + 1 /\ Len(t) - 1 = Len(x)
    BY <1>1, <1>2
  <2> QED BY <1>1, <1>2, <2>1, Zenon
<1>7. ASSUME NEW i \in 1..Len(t), NEW j \in 1..Len(t), i < j, t[i].call = "forget"
      PROVE  t[j].call \notin Removals
  <2>1. j \in 2..Len(x) + 1 /\ j - 1 \in 1..Len(x)
    BY <1>1, <1>7
  <2>2. CASE i = 1
    BY <1>1, <1>7, <2>1, <2>2, Zenon
  <2>3. CASE i # 1
    <3>1. i \in 2..Len(x) + 1 /\ i - 1 < j - 1 /\ i - 1 \in 1..Len(x)
      BY <1>1, <1>7, <2>3
    <3>2. t[i] = x[i - 1] /\ t[j] = x[j - 1]
      BY <1>1, <2>1, <3>1, Zenon
    <3> QED BY <1>2, <1>7, <2>1, <3>1, <3>2, Zenon
  <2> QED BY <2>2, <2>3
<1>8. Len(t) > 0
  BY <1>1
<1> QED BY <1>1, <1>4, <1>5, <1>6, <1>7, <1>8, Zenon DEF CallsOK, t

LEMMA PrefixOK ==
  ASSUME NEW s, NEW op, NEW c \in CallSet, Harmless(s, c), NEW x \in Seq(CallSet),
         CallsOK(s, op, x), x[1].call = "append"
  PROVE  CallsOK(s, op, <<c>> \o x)
<1>1. CallOK(s, op, c) /\ c.call # "forget" /\ Link(s, op, c, x[1])
  <2>1. c.call \in {"namespace", "append"} /\ c.role = "admin" /\ "admin" \notin Shared
        /\ (s = "cluster" => c.call = "append" /\ c.who = Owner)
    BY DEF Harmless, Shared
  <2> QED BY <2>1 DEF Link, CallOK
<1> QED BY <1>1, ConsCalls, Zenon

LEMMA OtherIs ==
  ASSUME NEW role \in Shared
  PROVE  Other(role) \in Shared /\ Other(role) # role /\ Other(Other(role)) = role
         /\ Shared \subseteq Roles /\ "admin" \notin Shared /\ Shared = {role, Other(role)}
BY DEF Other, Shared, Roles

LEMMA AsOK ==
  ASSUME scope \in {"ns", "cluster"}, NEW op \in {"share", "recreate"},
         NEW role \in Shared, NEW u \in Subjects
  PROVE  /\ As(role, u) \in GroupSet /\ GroupOK(scope, op, As(role, u))
         /\ As(role, u).calls[1].call \in {"namespace", "append"}
<1> DEFINE a == Call("append", role, u)
           d == Call("remove", Other(role), u)
           x == <<a, d>>
           n == Plain("namespace")
<1>1. /\ a \in CallSet /\ a.call = "append" /\ a.role = role /\ a.who = u
      /\ d \in CallSet /\ d.call = "remove" /\ d.role = Other(role) /\ d.who = u
      /\ n \in CallSet /\ n.call = "namespace" /\ n.role = "admin"
  <2>1. role \in Roles /\ Other(role) \in Roles /\ Owner \in Subjects
    BY OtherIs DEF Subjects
  <2>2. "append" \in CallNames /\ "remove" \in CallNames /\ "namespace" \in CallNames
    BY DEF CallNames
  <2>3. a \in CallSet /\ a.call = "append" /\ a.role = role /\ a.who = u
    BY <2>1, <2>2, CallFacts
  <2>4. d \in CallSet /\ d.call = "remove" /\ d.role = Other(role) /\ d.who = u
    BY <2>1, <2>2, CallFacts
  <2>5. n \in CallSet /\ n.call = "namespace" /\ n.role = "admin"
    BY <2>1, <2>2, CallFacts
  <2> QED BY <2>3, <2>4, <2>5, Zenon
<1>2. /\ a = Call("append", Other(d.role), d.who) /\ d = Call("remove", Other(a.role), a.who)
  BY <1>1, OtherIs
<1>3. CallOK(scope, op, a) /\ CallOK(scope, op, d)
  BY <1>1, OtherIs DEF CallOK
<1>4. Link(scope, op, a, d) /\ EndOK(d) /\ a.call # "forget"
  BY <1>1, <1>2 DEF Link, EndOK
<1> HIDE DEF a, d, n
<1>5. x \in Seq(CallSet) /\ Len(x) = 2 /\ x[1] = a /\ x[2] = d
  BY <1>1
<1> HIDE DEF x
<1>6. CallsOK(scope, op, x)
  <2>1. \A i \in 1..Len(x) : i = 1 \/ i = 2
    BY <1>5
  <2>2. \A i \in 1..Len(x) - 1 : i = 1 /\ i + 1 = 2
    BY <1>5
  <2>3. \A i, j \in 1..Len(x) : i < j => i = 1
    BY <1>5
  <2>4. \A i \in 1..Len(x) : CallOK(scope, op, x[i])
    BY <1>3, <1>5, <2>1, Zenon
  <2>5. \A i \in 1..Len(x) - 1 : Link(scope, op, x[i], x[i + 1])
    BY <1>4, <1>5, <2>2, Zenon
  <2>6. \A i, j \in 1..Len(x) : i < j /\ x[i].call = "forget" => x[j].call \notin Removals
    BY <1>4, <1>5, <2>3, Zenon
  <2>7. Len(x) > 0 /\ EndOK(x[Len(x)])
    BY <1>4, <1>5
  <2> QED BY <2>4, <2>5, <2>6, <2>7, Zenon DEF CallsOK
<1> DEFINE calls == Namespace \o x
<1>7. calls \in Seq(CallSet) /\ CallsOK(scope, op, calls) /\ calls[1].call \in {"namespace", "append"}
      /\ \A i \in 1..Len(calls) : calls[i].call \notin {"add", "createNs"}
  <2>1. CASE scope = "ns"
    <3>1. Namespace = <<n>>
      BY <2>1 DEF Namespace, n
    <3>2. Harmless(scope, n)
      BY <1>1, <2>1 DEF Harmless
    <3>3. CallsOK(scope, op, <<n>> \o x)
      BY <1>1, <1>5, <1>6, <3>2, PrefixOK, Zenon
    <3>4. /\ <<n>> \o x \in Seq(CallSet) /\ Len(<<n>> \o x) = 3 /\ (<<n>> \o x)[1] = n
          /\ (<<n>> \o x)[2] = a /\ (<<n>> \o x)[3] = d
      <4>1. /\ <<n>> \o x \in Seq(CallSet) /\ Len(<<n>> \o x) = Len(x) + 1 /\ (<<n>> \o x)[1] = n
            /\ \A i \in 2..Len(x) + 1 : (<<n>> \o x)[i] = x[i - 1]
        <5>1. n \in CallSet /\ x \in Seq(CallSet)
          BY <1>1, <1>5, Zenon
        <5> QED BY <5>1, ConsIs
      <4>2. 2 \in 2..Len(x) + 1 /\ 3 \in 2..Len(x) + 1 /\ Len(x) + 1 = 3 /\ 2 - 1 = 1 /\ 3 - 1 = 2
        BY <1>5
      <4>3. (<<n>> \o x)[2] = x[2 - 1] /\ (<<n>> \o x)[3] = x[3 - 1]
        BY <4>1, <4>2, Zenon
      <4> QED BY <1>5, <4>1, <4>2, <4>3, Zenon
    <3>5. \A i \in 1..Len(<<n>> \o x) : (<<n>> \o x)[i] \in {n, a, d}
      BY <1>5, <3>4
    <3> QED BY <1>1, <3>1, <3>3, <3>4, <3>5
  <2>2. CASE scope = "cluster"
    <3>1. Namespace = << >>
      BY <2>2 DEF Namespace
    <3>2. calls = x
      BY <1>5, <3>1
    <3>3. \A i \in 1..Len(x) : x[i] \in {a, d}
      BY <1>5
    <3> QED BY <1>1, <1>5, <1>6, <3>2, <3>3
  <2> QED BY <2>1, <2>2
<1>8. As(role, u) = [must |-> FALSE, calls |-> calls]
  BY DEF As, May, a, d, x
<1> HIDE DEF calls
<1>9. As(role, u) \in GroupSet /\ As(role, u).calls = calls
  BY <1>7, <1>8 DEF GroupSet
<1>10. MustOK(op, calls)
  BY <1>7, Zenon DEF MustOK
<1> QED BY <1>7, <1>9, <1>10, Zenon DEF GroupOK

LEMMA OneCallOK ==
  ASSUME NEW s, NEW op, NEW c \in CallSet, CallOK(s, op, c), EndOK(c)
  PROVE  /\ <<c>> \in Seq(CallSet) /\ Len(<<c>>) = 1 /\ <<c>>[1] = c
         /\ CallsOK(s, op, <<c>>)
<1> DEFINE x == <<c>>
<1>1. x \in Seq(CallSet) /\ Len(x) = 1 /\ x[1] = c
  OBVIOUS
<1> HIDE DEF x
<1>2. /\ \A i \in 1..Len(x) : i = 1
      /\ \A i \in 1..Len(x) - 1 : FALSE
      /\ \A i, j \in 1..Len(x) : ~ (i < j)
      /\ Len(x) > 0
  BY <1>1
<1>3. CallsOK(s, op, x)
  BY <1>1, <1>2, Zenon DEF CallsOK
<1> QED BY <1>1, <1>3, Zenon DEF x

LEMMA PlainIs ==
  ASSUME NEW call \in CallNames
  PROVE  /\ Plain(call) \in CallSet /\ Plain(call).call = call /\ Plain(call).role = "admin"
         /\ Plain(call).who = Owner /\ "admin" \notin Shared
<1>1. Owner \in Subjects /\ "admin" \in Roles /\ "admin" \notin Shared
  BY DEF Subjects, Roles, Shared
<1> QED BY <1>1, CallFacts

LEMMA MustIs ==
  ASSUME NEW s, NEW op, NEW calls \in Seq(CallSet), CallsOK(s, op, calls)
  PROVE  /\ Must(calls) \in GroupSet /\ GroupOK(s, op, Must(calls))
         /\ Must(calls).calls = calls /\ Must(calls).must
<1>1. Must(calls) \in GroupSet /\ Must(calls).calls = calls /\ Must(calls).must
  BY DEF Must, GroupSet
<1> QED BY <1>1, Zenon DEF GroupOK

(* A program of one group. *)
LEMMA OneGroupOK ==
  ASSUME NEW s, NEW op, NEW g \in GroupSet, GroupOK(s, op, g)
  PROVE  <<g>> \in Programs /\ ProgramOK(s, op, <<g>>) /\ FirstCall(<<g>>) = g.calls[1]
         /\ Len(<<g>>) = 1
<1> DEFINE x == <<g>>
<1>1. x \in Seq(GroupSet) /\ Len(x) = 1 /\ x[1] = g
  OBVIOUS
<1> HIDE DEF x
<1>2. /\ \A i \in 1..Len(x) : i = 1
      /\ \A i \in 2..Len(x) : FALSE
      /\ Len(x) > 0
  BY <1>1
<1>3. ProgramOK(s, op, x)
  BY <1>1, <1>2, Zenon DEF ProgramOK
<1>4. x \in Programs
  BY <1>1 DEF Programs, GroupSet, CallSet
<1> QED BY <1>1, <1>3, <1>4, Zenon DEF x, FirstCall

(* A group in front of a program. *)
LEMMA ConsProgram ==
  ASSUME NEW s, NEW op, NEW g \in GroupSet, GroupOK(s, op, g),
         NEW todo \in Programs, ProgramOK(s, op, todo), StartOK(op, g, FirstCall(todo)),
         op = "delete" => g = AddGroup /\ Len(todo) = 1
  PROVE  <<g>> \o todo \in Programs /\ ProgramOK(s, op, <<g>> \o todo)
         /\ FirstCall(<<g>> \o todo) = g.calls[1]
<1> DEFINE t == <<g>> \o todo
<1>1. todo \in Seq(GroupSet) /\ Programs = Seq(GroupSet)
  BY DEF Programs, GroupSet, CallSet
<1>2. /\ t \in Seq(GroupSet) /\ Len(t) = Len(todo) + 1 /\ Len(todo) \in Nat /\ t[1] = g
      /\ \A i \in 2..Len(todo) + 1 : t[i] = todo[i - 1]
  BY <1>1, ConsIs
<1> HIDE DEF t
<1>3. /\ Len(todo) > 0
      /\ \A i \in 1..Len(todo) : GroupOK(s, op, todo[i])
      /\ \A i \in 2..Len(todo) : StartOK(op, todo[i - 1], todo[i].calls[1])
  BY Zenon DEF ProgramOK
<1>4. ASSUME NEW i \in 1..Len(t)
      PROVE  GroupOK(s, op, t[i])
  <2>1. i = 1 \/ (i \in 2..Len(todo) + 1 /\ i - 1 \in 1..Len(todo))
    BY <1>2
  <2> QED BY <1>2, <1>3, <2>1, Zenon
<1>5. ASSUME NEW i \in 2..Len(t)
      PROVE  StartOK(op, t[i - 1], t[i].calls[1])
  <2>1. CASE i = 2
    <3>1. 2 \in 2..Len(todo) + 1 /\ 2 - 1 = 1
      BY <1>2, <1>3
    <3>2. t[2] = todo[1]
      BY <1>2, <3>1, Zenon
    <3> QED BY <1>2, <2>1, <3>1, <3>2, Zenon DEF FirstCall
  <2>2. CASE i # 2
    <3>1. i \in 2..Len(todo) + 1 /\ i - 1 \in 2..Len(todo) + 1 /\ i - 1 \in 2..Len(todo)
      BY <1>2, <2>2
    <3>2. t[i] = todo[i - 1] /\ t[i - 1] = todo[(i - 1) - 1]
      BY <1>2, <3>1, Zenon
    <3> QED BY <1>3, <3>1, <3>2, Zenon
  <2> QED BY <2>1, <2>2
<1>6. op = "delete" => Len(t) = 2 /\ t[1] = AddGroup
  <2>1. 1 + 1 = 2
    OBVIOUS
  <2> QED BY <1>2, <2>1, Zenon
<1>7. Len(t) > 0
  BY <1>2, <1>3
<1>8. ProgramOK(s, op, t)
  BY <1>4, <1>5, <1>6, <1>7, Zenon DEF ProgramOK
<1> QED BY <1>1, <1>2, <1>8, Zenon DEF t, FirstCall

(* Groups of AsViewer and AsCooperator. *)
Switches(b) ==
  b \in Programs /\ \A g \in 1..Len(b) : \E role \in Shared, u \in Subjects : b[g] = As(role, u)

LEMMA SwitchesConcat ==
  ASSUME scope \in {"ns", "cluster"}, NEW op \in {"share", "recreate"}, NEW b, Switches(b),
         NEW a \in Programs, ProgramOK(scope, op, a)
  PROVE  a \o b \in Programs /\ ProgramOK(scope, op, a \o b) /\ FirstCall(a \o b) = FirstCall(a)
<1> DEFINE t == a \o b
<1>1. a \in Seq(GroupSet) /\ b \in Seq(GroupSet) /\ Programs = Seq(GroupSet)
  BY DEF Programs, GroupSet, CallSet, Switches
<1>2. /\ t \in Seq(GroupSet) /\ Len(t) = Len(a) + Len(b) /\ Len(a) \in Nat /\ Len(b) \in Nat
      /\ \A i \in 1..Len(a) : t[i] = a[i]
      /\ \A i \in Len(a) + 1..Len(a) + Len(b) : t[i] = b[i - Len(a)]
  BY <1>1, ConcatIs
<1> HIDE DEF t
<1>3. /\ Len(a) > 0
      /\ \A i \in 1..Len(a) : GroupOK(scope, op, a[i])
      /\ \A i \in 2..Len(a) : StartOK(op, a[i - 1], a[i].calls[1])
  BY Zenon DEF ProgramOK
<1>4. ASSUME NEW i \in Len(a) + 1..Len(a) + Len(b), NEW f
      PROVE  GroupOK(scope, op, t[i]) /\ StartOK(op, f, t[i].calls[1])
  <2>1. i - Len(a) \in 1..Len(b) /\ t[i] = b[i - Len(a)]
    BY <1>2
  <2>2. PICK role \in Shared, u \in Subjects : b[i - Len(a)] = As(role, u)
    BY <2>1, Zenon DEF Switches
  <2>3. GroupOK(scope, op, t[i]) /\ t[i].calls[1].call \in {"namespace", "append"}
    BY <2>1, <2>2, AsOK, Zenon
  <2> QED BY <2>3 DEF StartOK
<1>5. ASSUME NEW i \in 1..Len(t)
      PROVE  GroupOK(scope, op, t[i])
  <2>1. i \in 1..Len(a) \/ i \in Len(a) + 1..Len(a) + Len(b)
    BY <1>2
  <2> QED BY <1>2, <1>3, <1>4, <2>1, Zenon
<1>6. ASSUME NEW i \in 2..Len(t)
      PROVE  StartOK(op, t[i - 1], t[i].calls[1])
  <2>1. (i \in 1..Len(a) /\ i - 1 \in 1..Len(a) /\ i \in 2..Len(a)) \/ i \in Len(a) + 1..Len(a) + Len(b)
    BY <1>2
  <2> QED BY <1>2, <1>3, <1>4, <2>1, Zenon
<1>7. Len(t) > 0 /\ 1 \in 1..Len(a)
  BY <1>2, <1>3
<1>8. op # "delete"
  OBVIOUS
<1>9. ProgramOK(scope, op, t)
  BY <1>5, <1>6, <1>7, <1>8, Zenon DEF ProgramOK
<1> QED BY <1>1, <1>2, <1>7, <1>9, Zenon DEF t, FirstCall

LEMMA AddGroupOK ==
  ASSUME NEW s, NEW op
  PROVE  /\ AddGroup \in GroupSet /\ GroupOK(s, op, AddGroup)
         /\ AddGroup.calls[1] = Plain("add") /\ Plain("add").call = "add"
<1>1. Plain("add") \in CallSet /\ Plain("add").call = "add"
  <2>1. "add" \in CallNames
    BY DEF CallNames
  <2> QED BY <2>1, PlainIs
<1>2. CallOK(s, op, Plain("add")) /\ EndOK(Plain("add"))
  BY <1>1 DEF CallOK, EndOK
<1>3. /\ <<Plain("add")>> \in Seq(CallSet) /\ <<Plain("add")>>[1] = Plain("add")
      /\ CallsOK(s, op, <<Plain("add")>>)
  BY <1>1, <1>2, OneCallOK, Zenon
<1> QED BY <1>1, <1>3, MustIs, Zenon DEF AddGroup

(* What a handler begins with, if the record has to be read first or not. *)
Begun(s, op, todo) ==
  /\ todo \in Programs /\ ProgramOK(s, op, todo)
  /\ FirstCall(todo).call \notin {"forget", "insert"}
  /\ op \in {"share", "recreate"} => FirstCall(todo).call # "remove"

LEMMA BegunWithAdd ==
  ASSUME NEW s, NEW op, NEW todo, Begun(s, op, todo), FirstCall(todo).call # "add",
         op = "delete" => Len(todo) = 1
  PROVE  Begun(s, op, <<AddGroup>> \o todo) /\ FirstCall(<<AddGroup>> \o todo).call = "add"
<1>1. /\ AddGroup \in GroupSet /\ GroupOK(s, op, AddGroup)
      /\ AddGroup.calls[1] = Plain("add") /\ Plain("add").call = "add"
  BY AddGroupOK, Zenon
<1>2. /\ todo \in Programs /\ ProgramOK(s, op, todo) /\ FirstCall(todo).call # "forget"
      /\ op \in {"share", "recreate"} => FirstCall(todo).call # "remove"
  BY Zenon DEF Begun
<1>3. StartOK(op, AddGroup, FirstCall(todo))
  <2>1. FirstCall(todo).call \notin {"add", "forget"}
    BY <1>2
  <2> QED BY <1>2, <2>1, Zenon DEF StartOK
<1>4. /\ <<AddGroup>> \o todo \in Programs /\ ProgramOK(s, op, <<AddGroup>> \o todo)
      /\ FirstCall(<<AddGroup>> \o todo) = AddGroup.calls[1]
  BY <1>1, <1>2, <1>3, ConsProgram, Zenon
<1>5. FirstCall(<<AddGroup>> \o todo).call = "add"
  BY <1>1, <1>4, Zenon
<1>6. FirstCall(<<AddGroup>> \o todo).call \notin {"forget", "insert", "remove"}
  BY <1>5
<1> QED BY <1>4, <1>5, <1>6, Zenon DEF Begun

LEMMA ShareBegun ==
  ASSUME scope \in {"ns", "cluster"}, NEW targets \in Targets
  PROVE  Begun(scope, "share", ShareProgram(targets)) /\ FirstCall(ShareProgram(targets)).call # "add"
<1> DEFINE t == ShareProgram(targets)
<1>1. targets \in Seq(Shared \X Users) /\ targets # << >>
  BY DevSpaceAssumption DEF Shared
<1>2. /\ Len(targets) \in Nat /\ Len(targets) > 0 /\ DOMAIN targets = 1..Len(targets)
      /\ \A i \in 1..Len(targets) : targets[i] \in Shared \X Users
  BY <1>1
<1>3. ASSUME NEW i \in 1..Len(targets)
      PROVE  targets[i][1] \in Shared /\ targets[i][2] \in Subjects
  <2>1. targets[i] \in Shared \X Users
    BY <1>2
  <2> QED BY <2>1 DEF Subjects
<1>4. /\ t = [i \in 1..Len(targets) |-> As(targets[i][1], targets[i][2])]
  BY <1>2 DEF ShareProgram
<1> HIDE DEF t
<1>5. ASSUME NEW i \in 1..Len(targets)
      PROVE  /\ t[i] \in GroupSet /\ GroupOK(scope, "share", t[i])
             /\ t[i].calls[1].call \in {"namespace", "append"}
  <2>1. t[i] = As(targets[i][1], targets[i][2])
    BY <1>4
  <2>2. "share" \in {"share", "recreate"}
    OBVIOUS
  <2> QED BY <1>3, <2>1, <2>2, AsOK, Zenon
<1>6. t \in Seq(GroupSet) /\ Len(t) = Len(targets)
  <2>1. t \in [1..Len(targets) -> GroupSet]
    BY <1>4, <1>5
  <2> QED BY <1>2, <2>1
<1>7. t \in Programs
  BY <1>6 DEF Programs, GroupSet, CallSet
<1>8. ASSUME NEW i \in 1..Len(t), NEW f
      PROVE  StartOK("share", f, t[i].calls[1])
  BY <1>5, <1>6 DEF StartOK
<1>9. \A i \in 2..Len(t) : i \in 1..Len(t)
  BY <1>2, <1>6
<1>10. ProgramOK(scope, "share", t)
  <2>1. Len(t) > 0
    BY <1>2, <1>6
  <2>2. "share" # "delete"
    OBVIOUS
  <2> QED BY <1>5, <1>6, <1>8, <1>9, <2>1, <2>2, Zenon DEF ProgramOK
<1>11. FirstCall(t).call \in {"namespace", "append"}
  <2>1. 1 \in 1..Len(targets)
    BY <1>2
  <2> QED BY <1>5, <2>1, Zenon DEF FirstCall
<1>12. FirstCall(t).call \notin {"forget", "insert", "remove", "add"}
  BY <1>11
<1> QED BY <1>7, <1>10, <1>12, Zenon DEF Begun, t

LEMMA UnShareBegun ==
  ASSUME scope \in {"ns", "cluster"}, NEW u \in Users
  PROVE  Begun(scope, "unshare", UnShareProgram(u)) /\ FirstCall(UnShareProgram(u)).call # "add"
<1> DEFINE G(b) == May(<<Call("remove", b, u)>>)
<1>1. ASSUME NEW b \in Shared
      PROVE  /\ G(b) \in GroupSet /\ GroupOK(scope, "unshare", G(b))
             /\ G(b).calls[1].call = "remove"
  <2> DEFINE c == Call("remove", b, u)
  <2>1. c \in CallSet /\ c.call = "remove" /\ c.role = b
    <3>1. "remove" \in CallNames /\ b \in Roles /\ u \in Subjects
      BY DEF CallNames, Shared, Roles, Subjects
    <3> QED BY <3>1, CallFacts
  <2>2. CallOK(scope, "unshare", c) /\ EndOK(c)
    BY <2>1 DEF CallOK, EndOK
  <2> HIDE DEF c
  <2>3. <<c>> \in Seq(CallSet) /\ Len(<<c>>) = 1 /\ <<c>>[1] = c /\ CallsOK(scope, "unshare", <<c>>)
    BY <2>1, <2>2, OneCallOK, Zenon
  <2>4. G(b) \in GroupSet /\ G(b).calls = <<c>>
    BY <2>3 DEF May, GroupSet, c
  <2>5. MustOK("unshare", <<c>>)
    <3>1. \A i \in 1..Len(<<c>>) : <<c>>[i] = c
      BY <2>3
    <3>2. c.call \notin {"add", "createNs"} /\ "unshare" # "delete"
      BY <2>1
    <3> QED BY <3>1, <3>2, Zenon DEF MustOK
  <2> QED BY <2>1, <2>3, <2>4, <2>5, Zenon DEF GroupOK
<1>2. ASSUME NEW b \in Shared, NEW d \in Shared
      PROVE  /\ Begun(scope, "unshare", <<G(b)>> \o <<G(d)>>)
             /\ FirstCall(<<G(b)>> \o <<G(d)>>).call = "remove"
  <2> HIDE DEF G
  <2>1. /\ <<G(d)>> \in Programs /\ ProgramOK(scope, "unshare", <<G(d)>>)
        /\ FirstCall(<<G(d)>>) = G(d).calls[1]
    BY <1>1, OneGroupOK, Zenon
  <2>2. FirstCall(<<G(d)>>).call = "remove"
    BY <1>1, <2>1, Zenon
  <2>3. StartOK("unshare", G(b), FirstCall(<<G(d)>>))
    BY <2>2 DEF StartOK
  <2>4. "unshare" # "delete"
    OBVIOUS
  <2>5. /\ <<G(b)>> \o <<G(d)>> \in Programs /\ ProgramOK(scope, "unshare", <<G(b)>> \o <<G(d)>>)
        /\ FirstCall(<<G(b)>> \o <<G(d)>>) = G(b).calls[1]
    BY <1>1, <2>1, <2>3, <2>4, ConsProgram, Zenon
  <2>6. FirstCall(<<G(b)>> \o <<G(d)>>).call = "remove"
    BY <1>1, <2>5, Zenon
  <2>7. "remove" \notin {"forget", "insert"} /\ "unshare" \notin {"share", "recreate"}
    OBVIOUS
  <2> QED BY <2>5, <2>6, <2>7, Zenon DEF Begun
<1>3. "coop" \in Shared /\ "view" \in Shared
  BY DEF Shared
<1>4. \/ UnShareProgram(u) = <<G("coop"), G("view")>>
      \/ UnShareProgram(u) = <<G("view"), G("coop")>>
  BY Zenon DEF UnShareProgram
<1> HIDE DEF G
<1>5. \A x, y \in GroupSet : <<x, y>> = <<x>> \o <<y>>
  BY TwoIs
<1>6. "remove" # "add"
  OBVIOUS
<1> QED BY <1>1, <1>2, <1>3, <1>4, <1>5, <1>6, Zenon

LEMMA ThreeCalls ==
  ASSUME NEW s, NEW op, NEW c \in CallSet, NEW d \in CallSet, NEW e \in CallSet,
         CallOK(s, op, c), CallOK(s, op, d), CallOK(s, op, e),
         Link(s, op, c, d), Link(s, op, d, e), EndOK(e), e.call \notin Removals,
         c.call = "forget" => d.call \notin Removals
  PROVE  /\ <<c, d, e>> \in Seq(CallSet) /\ CallsOK(s, op, <<c, d, e>>)
         /\ <<c, d, e>>[1] = c
<1> DEFINE x == <<c, d, e>>
<1>1. x \in Seq(CallSet) /\ Len(x) = 3 /\ x[1] = c /\ x[2] = d /\ x[3] = e
  OBVIOUS
<1> HIDE DEF x
<1>2. /\ \A i \in 1..Len(x) : i = 1 \/ i = 2 \/ i = 3
      /\ \A i \in 1..Len(x) - 1 : (i = 1 /\ i + 1 = 2) \/ (i = 2 /\ i + 1 = 3)
      /\ \A i, j \in 1..Len(x) : i < j => (i = 1 /\ j = 2) \/ j = 3
      /\ Len(x) > 0
  BY <1>1
<1>3. \A i \in 1..Len(x) : CallOK(s, op, x[i])
  BY <1>1, <1>2, Zenon
<1>4. \A i \in 1..Len(x) - 1 : Link(s, op, x[i], x[i + 1])
  BY <1>1, <1>2, Zenon
<1>5. \A i, j \in 1..Len(x) : i < j /\ x[i].call = "forget" => x[j].call \notin Removals
  BY <1>1, <1>2, Zenon
<1>6. CallsOK(s, op, x)
  BY <1>1, <1>2, <1>3, <1>4, <1>5, Zenon DEF CallsOK
<1> QED BY <1>1, <1>6, Zenon DEF x

LEMMA FiveCalls ==
  ASSUME NEW s, NEW op, NEW c \in CallSet, NEW d \in CallSet, NEW e \in CallSet, NEW f \in CallSet, NEW g \in CallSet,
         CallOK(s, op, c), CallOK(s, op, d), CallOK(s, op, e), CallOK(s, op, f), CallOK(s, op, g),
         Link(s, op, c, d), Link(s, op, d, e), Link(s, op, e, f), Link(s, op, f, g),
         EndOK(g), c.call # "forget", d.call # "forget", e.call # "forget",
         g.call \notin Removals
  PROVE  <<c, d, e, f, g>> \in Seq(CallSet) /\ CallsOK(s, op, <<c, d, e, f, g>>) /\ <<c, d, e, f, g>>[1] = c
<1> DEFINE x == <<c, d, e, f, g>>
<1>1. x \in Seq(CallSet) /\ Len(x) = 5 /\ x[1] = c /\ x[2] = d /\ x[3] = e /\ x[4] = f /\ x[5] = g
  OBVIOUS
<1> HIDE DEF x
<1>2. /\ \A i \in 1..Len(x) : i = 1 \/ i = 2 \/ i = 3 \/ i = 4 \/ i = 5
      /\ \A i \in 1..Len(x) - 1 :
           (i = 1 /\ i + 1 = 2) \/ (i = 2 /\ i + 1 = 3) \/ (i = 3 /\ i + 1 = 4) \/ (i = 4 /\ i + 1 = 5)
      /\ \A i, j \in 1..Len(x) : i < j => i = 1 \/ i = 2 \/ i = 3 \/ j = 5
      /\ Len(x) > 0
  BY <1>1
<1>3. \A i \in 1..Len(x) : CallOK(s, op, x[i])
  BY <1>1, <1>2, Zenon
<1>4. \A i \in 1..Len(x) - 1 : Link(s, op, x[i], x[i + 1])
  BY <1>1, <1>2, Zenon
<1>5. \A i, j \in 1..Len(x) : i < j /\ x[i].call = "forget" => x[j].call \notin Removals
  BY <1>1, <1>2, Zenon
<1>6. CallsOK(s, op, x)
  BY <1>1, <1>2, <1>3, <1>4, <1>5, Zenon DEF CallsOK
<1> QED BY <1>1, <1>6, Zenon DEF x

LEMMA SixCalls ==
  ASSUME NEW s, NEW op, NEW c \in CallSet, NEW d \in CallSet, NEW e \in CallSet, NEW f \in CallSet, NEW g \in CallSet, NEW h \in CallSet,
         CallOK(s, op, c), CallOK(s, op, d), CallOK(s, op, e), CallOK(s, op, f), CallOK(s, op, g), CallOK(s, op, h),
         Link(s, op, c, d), Link(s, op, d, e), Link(s, op, e, f), Link(s, op, f, g), Link(s, op, g, h),
         EndOK(h), c.call # "forget",
         e.call \notin Removals, f.call \notin Removals, g.call \notin Removals, h.call \notin Removals
  PROVE  <<c, d, e, f, g, h>> \in Seq(CallSet) /\ CallsOK(s, op, <<c, d, e, f, g, h>>) /\ <<c, d, e, f, g, h>>[1] = c
<1> DEFINE x == <<c, d, e, f, g, h>>
<1>1. x \in Seq(CallSet) /\ Len(x) = 6 /\ x[1] = c /\ x[2] = d /\ x[3] = e /\ x[4] = f /\ x[5] = g /\ x[6] = h
  OBVIOUS
<1> HIDE DEF x
<1>2. /\ \A i \in 1..Len(x) : i = 1 \/ i = 2 \/ i = 3 \/ i = 4 \/ i = 5 \/ i = 6
      /\ \A i \in 1..Len(x) - 1 :
           (i = 1 /\ i + 1 = 2) \/ (i = 2 /\ i + 1 = 3) \/ (i = 3 /\ i + 1 = 4) \/ (i = 4 /\ i + 1 = 5) \/ (i = 5 /\ i + 1 = 6)
      /\ \A i, j \in 1..Len(x) : i < j => i = 1 \/ j = 3 \/ j = 4 \/ j = 5 \/ j = 6
      /\ Len(x) > 0
  BY <1>1
<1>3. \A i \in 1..Len(x) : CallOK(s, op, x[i])
  BY <1>1, <1>2, Zenon
<1>4. \A i \in 1..Len(x) - 1 : Link(s, op, x[i], x[i + 1])
  BY <1>1, <1>2, Zenon
<1>5. \A i, j \in 1..Len(x) : i < j /\ x[i].call = "forget" => x[j].call \notin Removals
  BY <1>1, <1>2, Zenon
<1>6. CallsOK(s, op, x)
  BY <1>1, <1>2, <1>3, <1>4, <1>5, Zenon DEF CallsOK
<1> QED BY <1>1, <1>6, Zenon DEF x

LEMMA DeleteBegun ==
  ASSUME scope \in {"ns", "cluster"}
  PROVE  /\ Begun(scope, "delete", DeleteProgram) /\ Len(DeleteProgram) = 1
         /\ FirstCall(DeleteProgram).call # "add"
         /\ FirstCall(DeleteProgram).call = "deleteNs" => scope = "ns"
<1> DEFINE f == Plain("forget")
           e == Plain("evict")
           n == Plain("deleteNs")
           v == Call("removeAll", "view", Owner)
           c == Call("removeAll", "coop", Owner)
           a == Call("unauthorize", "admin", Owner)
<1>1. /\ f \in CallSet /\ f.call = "forget" /\ e \in CallSet /\ e.call = "evict"
      /\ n \in CallSet /\ n.call = "deleteNs"
  <2>1. "forget" \in CallNames /\ "evict" \in CallNames /\ "deleteNs" \in CallNames
    BY DEF CallNames
  <2> QED BY <2>1, PlainIs, Zenon
<1>2. /\ v \in CallSet /\ v.call = "removeAll" /\ v.role = "view"
      /\ c \in CallSet /\ c.call = "removeAll" /\ c.role = "coop"
      /\ a \in CallSet /\ a.call = "unauthorize" /\ a.role = "admin" /\ a.who = Owner
  <2>1. /\ "removeAll" \in CallNames /\ "unauthorize" \in CallNames /\ Owner \in Subjects
        /\ "view" \in Roles /\ "coop" \in Roles /\ "admin" \in Roles
    BY DEF CallNames, Subjects, Roles
  <2>2. v \in CallSet /\ v.call = "removeAll" /\ v.role = "view"
    BY <2>1, CallFacts
  <2>3. c \in CallSet /\ c.call = "removeAll" /\ c.role = "coop"
    BY <2>1, CallFacts
  <2>4. a \in CallSet /\ a.call = "unauthorize" /\ a.role = "admin" /\ a.who = Owner
    BY <2>1, CallFacts
  <2> QED BY <2>2, <2>3, <2>4, Zenon
<1> HIDE DEF f, e, n, v, c, a
<1>3. CASE scope = "cluster"
  <2>1. DeleteProgram = <<Must(<<v, c, a, f, e>>)>>
    BY <1>3, Zenon DEF DeleteProgram, v, c, a, f, e
  <2>2. /\ CallOK(scope, "delete", v) /\ CallOK(scope, "delete", c) /\ CallOK(scope, "delete", a)
        /\ CallOK(scope, "delete", f) /\ CallOK(scope, "delete", e)
    BY <1>1, <1>2, <1>3 DEF CallOK, Shared
  <2>3. /\ Link(scope, "delete", v, c) /\ Link(scope, "delete", c, a)
        /\ Link(scope, "delete", a, f) /\ Link(scope, "delete", f, e)
    BY <1>1, <1>2, <1>3 DEF Link
  <2>4. EndOK(e) /\ e.call \notin Removals /\ f.call \notin Removals
        /\ v.call # "forget" /\ c.call # "forget" /\ a.call # "forget"
    BY <1>1, <1>2 DEF EndOK, Removals
  <2> DEFINE y == <<v, c, a, f, e>>
  <2>9. y \in Seq(CallSet) /\ CallsOK(scope, "delete", y) /\ y[1] = v
    BY <1>1, <1>2, <2>2, <2>3, <2>4, FiveCalls, Zenon
  <2> HIDE DEF y
  <2>10. /\ Must(y) \in GroupSet /\ GroupOK(scope, "delete", Must(y)) /\ Must(y).calls = y
    BY <2>9, MustIs, Zenon
  <2>11. /\ DeleteProgram \in Programs /\ ProgramOK(scope, "delete", DeleteProgram)
         /\ FirstCall(DeleteProgram) = v /\ Len(DeleteProgram) = 1
    BY <2>1, <2>9, <2>10, OneGroupOK, Zenon DEF y
  <2>12. v.call \notin {"forget", "insert", "add", "deleteNs"} /\ "delete" \notin {"share", "recreate"}
    BY <1>2
  <2> QED BY <2>11, <2>12, Zenon DEF Begun
<1>4. CASE scope = "ns"
  <2>1. DeleteProgram = <<Must(<<n, f, e>>)>>
    <3>1. scope # "cluster"
      BY <1>4
    <3> QED BY <3>1, Zenon DEF DeleteProgram, n, f, e
  <2>2. CallOK(scope, "delete", n) /\ CallOK(scope, "delete", f) /\ CallOK(scope, "delete", e)
    BY <1>1, <1>4 DEF CallOK
  <2>3. Link(scope, "delete", n, f) /\ Link(scope, "delete", f, e) /\ EndOK(e)
    BY <1>1, <1>4 DEF Link, EndOK
  <2>4. e.call \notin Removals /\ f.call \notin Removals
    BY <1>1 DEF Removals
  <2>5. /\ <<n, f, e>> \in Seq(CallSet) /\ CallsOK(scope, "delete", <<n, f, e>>)
        /\ <<n, f, e>>[1] = n
    BY <1>1, <2>2, <2>3, <2>4, ThreeCalls, Zenon
  <2>6. /\ Must(<<n, f, e>>) \in GroupSet /\ GroupOK(scope, "delete", Must(<<n, f, e>>))
        /\ Must(<<n, f, e>>).calls = <<n, f, e>>
    BY <2>5, MustIs, Zenon
  <2>7. /\ DeleteProgram \in Programs /\ ProgramOK(scope, "delete", DeleteProgram)
        /\ FirstCall(DeleteProgram) = n /\ Len(DeleteProgram) = 1
    BY <2>1, <2>5, <2>6, OneGroupOK, Zenon
  <2>8. n.call \notin {"forget", "insert", "add"} /\ "delete" \notin {"share", "recreate"}
    BY <1>1
  <2> QED BY <1>4, <2>7, <2>8, Zenon DEF Begun
<1> QED BY <1>3, <1>4

LEMMA AuthorizeIs ==
  ASSUME scope \in {"ns", "cluster"}
  PROVE  /\ Authorize \in Seq(CallSet) /\ \A i \in 1..Len(Authorize) : Harmless(scope, Authorize[i])
         /\ scope = "ns" => /\ AuthorizeDefault \in Seq(CallSet)
                            /\ \A i \in 1..Len(AuthorizeDefault) : Harmless(scope, AuthorizeDefault[i])
<1> DEFINE n == Plain("namespace")
           o == Call("append", "admin", Owner)
           d == Call("append", "admin", Default)
<1>1. /\ n \in CallSet /\ n.call = "namespace" /\ n.role = "admin"
      /\ o \in CallSet /\ o.call = "append" /\ o.role = "admin" /\ o.who = Owner
      /\ d \in CallSet /\ d.call = "append" /\ d.role = "admin"
  <2>1. /\ "namespace" \in CallNames /\ "append" \in CallNames /\ "admin" \in Roles
        /\ Owner \in Subjects /\ Default \in Subjects
    BY DEF CallNames, Subjects, Roles
  <2>2. n \in CallSet /\ n.call = "namespace" /\ n.role = "admin"
    BY <2>1, CallFacts
  <2>3. o \in CallSet /\ o.call = "append" /\ o.role = "admin" /\ o.who = Owner
    BY <2>1, CallFacts
  <2>4. d \in CallSet /\ d.call = "append" /\ d.role = "admin"
    BY <2>1, CallFacts
  <2> QED BY <2>2, <2>3, <2>4, Zenon
<1>2. Harmless(scope, o) /\ (scope = "ns" => Harmless(scope, n) /\ Harmless(scope, d))
  BY <1>1 DEF Harmless
<1> HIDE DEF n, o, d
<1>3. CASE scope = "cluster"
  <2>1. Authorize = << >> \o <<o>>
    BY <1>3, Zenon DEF Authorize, Namespace, o
  <2>2. Authorize = <<o>>
    BY <1>1, <2>1
  <2>3. scope # "ns" /\ <<o>> \in Seq(CallSet) /\ \A i \in 1..Len(<<o>>) : <<o>>[i] = o
    BY <1>1, <1>3
  <2> QED BY <1>2, <2>2, <2>3, Zenon
<1>4. CASE scope = "ns"
  <2>1. scope # "cluster"
    BY <1>4
  <2>2. Authorize = <<n>> \o <<o>> /\ AuthorizeDefault = <<n>> \o <<d>>
    BY <1>4, Zenon DEF Authorize, AuthorizeDefault, Namespace, n, o, d
  <2>3. Authorize = <<n, o>> /\ AuthorizeDefault = <<n, d>>
    BY <1>1, <2>2, TwoIs
  <2>4. /\ <<n, o>> \in Seq(CallSet) /\ \A i \in 1..Len(<<n, o>>) : <<n, o>>[i] \in {n, o}
        /\ <<n, d>> \in Seq(CallSet) /\ \A i \in 1..Len(<<n, d>>) : <<n, d>>[i] \in {n, d}
    BY <1>1
  <2>5. /\ \A x \in {n, o} : Harmless(scope, x)
        /\ \A x \in {n, d} : Harmless(scope, x)
    BY <1>2, <1>4, Zenon
  <2> QED BY <2>3, <2>4, <2>5, Zenon
<1> QED BY <1>3, <1>4

LEMMA TwoCalls ==
  ASSUME NEW s, NEW op, NEW c \in CallSet, NEW d \in CallSet,
         CallOK(s, op, c), CallOK(s, op, d), Link(s, op, c, d), EndOK(d), c.call # "forget"
  PROVE  <<c, d>> \in Seq(CallSet) /\ CallsOK(s, op, <<c, d>>) /\ <<c, d>>[1] = c
<1> DEFINE x == <<c, d>>
<1>1. x \in Seq(CallSet) /\ Len(x) = 2 /\ x[1] = c /\ x[2] = d
  OBVIOUS
<1> HIDE DEF x
<1>2. /\ \A i \in 1..Len(x) : i = 1 \/ i = 2
      /\ \A i \in 1..Len(x) - 1 : i = 1 /\ i + 1 = 2
      /\ \A i, j \in 1..Len(x) : i < j => i = 1
      /\ Len(x) > 0
  BY <1>1
<1>3. \A i \in 1..Len(x) : CallOK(s, op, x[i])
  BY <1>1, <1>2, Zenon
<1>4. \A i \in 1..Len(x) - 1 : Link(s, op, x[i], x[i + 1])
  BY <1>1, <1>2, Zenon
<1>5. \A i, j \in 1..Len(x) : i < j /\ x[i].call = "forget" => x[j].call \notin Removals
  BY <1>1, <1>2, Zenon
<1>6. CallsOK(s, op, x)
  BY <1>1, <1>2, <1>3, <1>4, <1>5, Zenon DEF CallsOK
<1> QED BY <1>1, <1>6, Zenon DEF x

OpensWith(a, c) == a[1] = c

AllHarmless(s, b) == b \in Seq(CallSet) /\ \A i \in 1..Len(b) : Harmless(s, b[i])

LEMMA ConcatOK ==
  ASSUME NEW s, NEW op, NEW a, a \in Seq(CallSet), CallsOK(s, op, a),
         NEW b, AllHarmless(s, b), NEW first, OpensWith(a, first)
  PROVE  a \o b \in Seq(CallSet) /\ CallsOK(s, op, a \o b) /\ OpensWith(a \o b, first)
<1>0. b \in Seq(CallSet) /\ \A i \in 1..Len(b) : Harmless(s, b[i])
  BY Zenon DEF AllHarmless
<1>1. /\ a \o b \in Seq(CallSet) /\ Len(a) \in Nat
      /\ \A i \in 1..Len(a) : (a \o b)[i] = a[i]
  BY <1>0, ConcatIs
<1>2. Len(a) > 0
  BY Zenon DEF CallsOK
<1>3. 1 \in 1..Len(a)
  BY <1>1, <1>2
<1>4. (a \o b)[1] = first
  BY <1>1, <1>3, Zenon DEF OpensWith
<1> QED BY <1>0, <1>1, <1>4, HarmlessConcat, Zenon DEF OpensWith

LEMMA ConcatTwice ==
  ASSUME NEW s, NEW op, NEW a, a \in Seq(CallSet), CallsOK(s, op, a), NEW first, OpensWith(a, first),
         NEW b, AllHarmless(s, b), NEW c, AllHarmless(s, c)
  PROVE  /\ a \o b \o c \in Seq(CallSet) /\ CallsOK(s, op, a \o b \o c)
         /\ OpensWith(a \o b \o c, first)
<1> DEFINE x == a \o b
<1>1. x \in Seq(CallSet) /\ CallsOK(s, op, x) /\ OpensWith(x, first)
  BY ConcatOK, Zenon
<1> HIDE DEF x
<1>2. x \o c \in Seq(CallSet) /\ CallsOK(s, op, x \o c) /\ OpensWith(x \o c, first)
  BY <1>1, ConcatOK, Zenon
<1> QED BY <1>2, Zenon DEF x

LEMMA CreateBegun ==
  ASSUME scope \in {"ns", "cluster"}
  PROVE  /\ Begun(scope, "create", CreateProgram)
         /\ FirstCall(CreateProgram).call \notin {"add", "list", "deleteNs"}
         /\ scope = "ns" => FirstCall(CreateProgram).call = "createNs"
<1> DEFINE k == Plain("check")
           m == Plain("createNs")
           i == Plain("insert")
<1>1. /\ k \in CallSet /\ k.call = "check" /\ m \in CallSet /\ m.call = "createNs"
      /\ i \in CallSet /\ i.call = "insert"
  <2>1. "check" \in CallNames /\ "createNs" \in CallNames /\ "insert" \in CallNames
    BY DEF CallNames
  <2> QED BY <2>1, PlainIs, Zenon
<1> HIDE DEF k, m, i
<1>2. /\ CallOK(scope, "create", k) /\ CallOK(scope, "create", i)
      /\ scope = "ns" => CallOK(scope, "create", m)
      /\ Link(scope, "create", k, i) /\ Link(scope, "create", m, i) /\ EndOK(i)
      /\ k.call # "forget" /\ m.call # "forget"
  <2>1. scope = "ns" => scope # "cluster"
    OBVIOUS
  <2> QED BY <1>1, <2>1 DEF CallOK, Link, EndOK
<1>3. ASSUME NEW calls \in Seq(CallSet), CallsOK(scope, "create", calls),
             CreateProgram = <<Must(calls)>>
      PROVE  /\ CreateProgram \in Programs /\ ProgramOK(scope, "create", CreateProgram)
             /\ FirstCall(CreateProgram) = calls[1]
  <2>1. /\ Must(calls) \in GroupSet /\ GroupOK(scope, "create", Must(calls))
        /\ Must(calls).calls = calls
    BY <1>3, MustIs, Zenon
  <2> QED BY <1>3, <2>1, OneGroupOK, Zenon
<1>4. "create" \notin {"share", "recreate"}
  OBVIOUS
<1>5. CASE scope = "cluster"
  <2> DEFINE calls == <<k, i>> \o Authorize
  <2>1. CreateProgram = <<Must(calls)>>
    BY <1>5, Zenon DEF CreateProgram, k, i
  <2>2. <<k, i>> \in Seq(CallSet) /\ CallsOK(scope, "create", <<k, i>>) /\ <<k, i>>[1] = k
    BY <1>1, <1>2, TwoCalls, Zenon
  <2>3. calls \in Seq(CallSet) /\ CallsOK(scope, "create", calls) /\ calls[1] = k
    <3>1. AllHarmless(scope, Authorize)
      BY AuthorizeIs, Zenon DEF AllHarmless
    <3>2. OpensWith(<<k, i>>, k)
      BY <2>2, Zenon DEF OpensWith
    <3>3. /\ <<k, i>> \o Authorize \in Seq(CallSet)
          /\ CallsOK(scope, "create", <<k, i>> \o Authorize)
          /\ OpensWith(<<k, i>> \o Authorize, k)
      BY <2>2, <3>1, <3>2, ConcatOK, Zenon
    <3> QED BY <3>3, Zenon DEF OpensWith
  <2> HIDE DEF calls
  <2>4. /\ CreateProgram \in Programs /\ ProgramOK(scope, "create", CreateProgram)
        /\ FirstCall(CreateProgram) = k
    BY <1>3, <2>1, <2>3, Zenon
  <2>5. k.call \notin {"add", "list", "deleteNs", "forget", "insert"} /\ scope # "ns"
    BY <1>1, <1>5
  <2> QED BY <1>4, <2>4, <2>5, Zenon DEF Begun
<1>6. CASE scope = "ns"
  <2> DEFINE calls == <<m, i>> \o Authorize \o AuthorizeDefault
  <2>1. CreateProgram = <<Must(calls)>>
    <3>1. scope # "cluster"
      BY <1>6
    <3> QED BY <3>1, Zenon DEF CreateProgram, m, i
  <2>2. <<m, i>> \in Seq(CallSet) /\ CallsOK(scope, "create", <<m, i>>) /\ <<m, i>>[1] = m
    BY <1>1, <1>2, <1>6, TwoCalls, Zenon
  <2>3. AllHarmless(scope, Authorize) /\ AllHarmless(scope, AuthorizeDefault)
    BY <1>6, AuthorizeIs, Zenon DEF AllHarmless
  <2>4. calls \in Seq(CallSet) /\ CallsOK(scope, "create", calls) /\ calls[1] = m
    <3>1. OpensWith(<<m, i>>, m)
      BY <2>2, Zenon DEF OpensWith
    <3>2. /\ calls \in Seq(CallSet) /\ CallsOK(scope, "create", calls)
          /\ OpensWith(calls, m)
      BY <2>2, <2>3, <3>1, ConcatTwice, Zenon
    <3> QED BY <3>2, Zenon DEF OpensWith
  <2> HIDE DEF calls
  <2>5. /\ CreateProgram \in Programs /\ ProgramOK(scope, "create", CreateProgram)
        /\ FirstCall(CreateProgram) = m
    BY <1>3, <2>1, <2>4, Zenon
  <2>6. m.call \notin {"add", "list", "deleteNs", "forget", "insert"}
    BY <1>1
  <2> QED BY <1>1, <1>4, <2>5, <2>6, Zenon DEF Begun
<1> QED BY <1>5, <1>6

LEMMA ListBegun ==
  ASSUME scope = "ns", NEW by \in Subjects
  PROVE  LET todo == <<Must(<<Call("list", "admin", by)>>)>> IN
         /\ Begun(scope, "recreate", todo) /\ FirstCall(todo).call = "list"
<1> DEFINE c == Call("list", "admin", by)
<1>1. c \in CallSet /\ c.call = "list"
  <2>1. "list" \in CallNames /\ "admin" \in Roles
    BY DEF CallNames, Roles
  <2> QED BY <2>1, CallFacts
<1>2. CallOK(scope, "recreate", c) /\ EndOK(c)
  BY <1>1 DEF CallOK, EndOK
<1> HIDE DEF c
<1>3. <<c>> \in Seq(CallSet) /\ <<c>>[1] = c /\ CallsOK(scope, "recreate", <<c>>)
  BY <1>1, <1>2, OneCallOK, Zenon
<1>4. /\ Must(<<c>>) \in GroupSet /\ GroupOK(scope, "recreate", Must(<<c>>))
      /\ Must(<<c>>).calls = <<c>>
  BY <1>3, MustIs, Zenon
<1>5. /\ <<Must(<<c>>)>> \in Programs /\ ProgramOK(scope, "recreate", <<Must(<<c>>)>>)
      /\ FirstCall(<<Must(<<c>>)>>) = c
  BY <1>3, <1>4, OneGroupOK, Zenon
<1>6. c.call \notin {"forget", "insert", "remove"}
  BY <1>1
<1> QED BY <1>1, <1>5, <1>6, Zenon DEF Begun, c

(* The users a sequence made of a set lists. *)
LEMMA ListsAll ==
  ASSUME NEW S, IsFiniteSet(S), NEW us \in SetToSeqs(S)
  PROVE  /\ us \in Seq(S) /\ \A x \in S : \E i \in 1..Len(us) : us[i] = x
         /\ DOMAIN us = 1..Len(us) /\ Len(us) \in Nat
<1> DEFINE n == Cardinality(S)
<1>1. n \in Nat
  BY FS_CardinalityType
<1>2. us \in [1..n -> S] /\ \A i, j \in 1..n : i # j => us[i] # us[j]
  BY Zenon DEF SetToSeqs
<1> HIDE DEF n
<1>3. us \in Seq(S) /\ Len(us) = n /\ DOMAIN us = 1..n
  BY <1>1, <1>2
<1>4. us \in Injection(1..n, S)
  BY <1>2, Zenon DEF Injection, IsInjective
<1>5. Cardinality(1..n) = n
  BY <1>1, FS_Interval
<1>6. us \in Surjection(1..n, S)
  BY <1>4, <1>5, FS_Injection DEF n
<1>7. \A x \in S : \E i \in 1..n : us[i] = x
  BY <1>6, Zenon DEF Surjection
<1> QED BY <1>1, <1>3, <1>7

LEMMA SwitchesOf ==
  ASSUME scope \in {"ns", "cluster"}, NEW role \in Shared, NEW us \in Seq(Subjects)
  PROVE  Switches([i \in DOMAIN us |-> As(role, us[i])])
<1> DEFINE b == [i \in DOMAIN us |-> As(role, us[i])]
<1>1. DOMAIN us = 1..Len(us) /\ Len(us) \in Nat /\ \A i \in 1..Len(us) : us[i] \in Subjects
  OBVIOUS
<1>2. \A u \in Subjects : As(role, u) \in GroupSet
  <2>1. "share" \in {"share", "recreate"}
    OBVIOUS
  <2> QED BY <2>1, AsOK, Zenon
<1>3. b \in [1..Len(us) -> GroupSet]
  BY <1>1, <1>2
<1>4. b \in Seq(GroupSet) /\ Len(b) = Len(us)
  BY <1>1, <1>3
<1>5. b \in Programs
  BY <1>4 DEF Programs, GroupSet, CallSet
<1>6. \A i \in 1..Len(us) : b[i] = As(role, us[i])
  BY <1>1
<1> QED BY <1>1, <1>4, <1>5, <1>6, Zenon DEF Switches

LEMMA ReCreateBegun ==
  ASSUME scope = "ns", NEW viewers \in Seq(Subjects), NEW coopers \in Seq(Subjects)
  PROVE  /\ Begun(scope, "recreate", ReCreateProgram(viewers, coopers))
         /\ FirstCall(ReCreateProgram(viewers, coopers)).call = "deleteNs"
<1> DEFINE n == Plain("deleteNs")
           f == Plain("forget")
           e == Plain("evict")
           k == Plain("checkName")
           m == Plain("createNs")
           i == Plain("insert")
           x == <<n, f, e, k, m, i>>
           calls == x \o Authorize \o AuthorizeDefault \o Authorize \o AuthorizeDefault
           v == [j \in DOMAIN viewers |-> As("view", viewers[j])]
           c == [j \in DOMAIN coopers |-> As("coop", coopers[j])]
<1>0. scope \in {"ns", "cluster"} /\ scope # "cluster"
  OBVIOUS
<1>1. /\ n \in CallSet /\ n.call = "deleteNs" /\ f \in CallSet /\ f.call = "forget"
      /\ e \in CallSet /\ e.call = "evict" /\ k \in CallSet /\ k.call = "checkName"
      /\ m \in CallSet /\ m.call = "createNs" /\ i \in CallSet /\ i.call = "insert"
  <2>1. {"deleteNs", "forget", "evict", "checkName", "createNs", "insert"} \subseteq CallNames
    BY DEF CallNames
  <2>2. /\ "deleteNs" \in CallNames /\ "forget" \in CallNames /\ "evict" \in CallNames
        /\ "checkName" \in CallNames /\ "createNs" \in CallNames /\ "insert" \in CallNames
    BY <2>1
  <2> QED BY <2>2, PlainIs, Zenon
<1>2. ReCreateProgram(viewers, coopers) = <<Must(calls)>> \o v \o c
  BY Zenon DEF ReCreateProgram
<1> HIDE DEF n, f, e, k, m, i
<1>3. /\ CallOK(scope, "recreate", n) /\ CallOK(scope, "recreate", f)
      /\ CallOK(scope, "recreate", e) /\ CallOK(scope, "recreate", k)
      /\ CallOK(scope, "recreate", m) /\ CallOK(scope, "recreate", i)
  BY <1>0, <1>1 DEF CallOK
<1>4. /\ Link(scope, "recreate", n, f) /\ Link(scope, "recreate", f, e)
      /\ Link(scope, "recreate", e, k) /\ Link(scope, "recreate", k, m)
      /\ Link(scope, "recreate", m, i) /\ EndOK(i)
  BY <1>1 DEF Link, EndOK
<1>5. /\ n.call # "forget" /\ e.call \notin Removals /\ k.call \notin Removals
      /\ m.call \notin Removals /\ i.call \notin Removals
  BY <1>1 DEF Removals
<1>6. x \in Seq(CallSet) /\ CallsOK(scope, "recreate", x) /\ OpensWith(x, n)
  BY <1>1, <1>3, <1>4, <1>5, SixCalls, Zenon DEF OpensWith
<1> HIDE DEF x
<1>7. AllHarmless(scope, Authorize) /\ AllHarmless(scope, AuthorizeDefault)
  BY <1>0, AuthorizeIs, Zenon DEF AllHarmless
<1>8. calls \in Seq(CallSet) /\ CallsOK(scope, "recreate", calls) /\ OpensWith(calls, n)
  <2> DEFINE y == x \o Authorize \o AuthorizeDefault
  <2>1. y \in Seq(CallSet) /\ CallsOK(scope, "recreate", y) /\ OpensWith(y, n)
    BY <1>6, <1>7, ConcatTwice, Zenon
  <2> HIDE DEF y
  <2>2. /\ y \o Authorize \o AuthorizeDefault \in Seq(CallSet)
        /\ CallsOK(scope, "recreate", y \o Authorize \o AuthorizeDefault)
        /\ OpensWith(y \o Authorize \o AuthorizeDefault, n)
    BY <1>7, <2>1, ConcatTwice, Zenon
  <2> QED BY <2>2, Zenon DEF y
<1> HIDE DEF calls
<1>9. /\ Must(calls) \in GroupSet /\ GroupOK(scope, "recreate", Must(calls))
      /\ Must(calls).calls = calls
  BY <1>8, MustIs, Zenon
<1> DEFINE p == <<Must(calls)>>
<1>10. p \in Programs /\ ProgramOK(scope, "recreate", p) /\ FirstCall(p) = n
  BY <1>8, <1>9, OneGroupOK, Zenon DEF OpensWith
<1>11. Switches(v) /\ Switches(c)
  <2>1. "view" \in Shared /\ "coop" \in Shared
    BY DEF Shared
  <2> QED BY <1>0, <2>1, SwitchesOf, Zenon
<1> HIDE DEF p, v, c
<1> DEFINE q == p \o v
<1>12. "recreate" \in {"share", "recreate"}
  OBVIOUS
<1>13. q \in Programs /\ ProgramOK(scope, "recreate", q) /\ FirstCall(q) = FirstCall(p)
  BY <1>0, <1>10, <1>11, <1>12, SwitchesConcat, Zenon
<1> HIDE DEF q
<1>14. /\ q \o c \in Programs /\ ProgramOK(scope, "recreate", q \o c)
       /\ FirstCall(q \o c) = FirstCall(q)
  BY <1>0, <1>11, <1>12, <1>13, SwitchesConcat, Zenon
<1>15. ReCreateProgram(viewers, coopers) = q \o c
  BY <1>2, Zenon DEF q, p
<1>16. FirstCall(q \o c).call = "deleteNs"
  BY <1>1, <1>10, <1>13, <1>14, Zenon
<1>17. FirstCall(q \o c).call \notin {"forget", "insert", "remove"}
  BY <1>16
<1> QED BY <1>14, <1>15, <1>16, <1>17, Zenon DEF Begun

-----------------------------------------------------------------------------
(* Requests. *)

Bindings == (SUBSET Subjects) \cup {Gone}
Ops == {"none", "create", "share", "unshare", "delete", "recreate"}
Reading == [version : Nat, who : Bindings]
ReqSet == [op : Ops, id : Places, at : Places, todo : Programs, got : Reading,
           crossed : SUBSET Subjects]
PlaceIn(s, id) == IF s = "cluster" THEN 0 ELSE id

(* What a request may rely on where it is: its program is one of a         *)
(* handler's, and the place it acts on is that of its space, or the        *)
(* namespace it has created.                                               *)
RequestOK(s, m, q) ==
  q.op # "none" =>
    /\ ProgramOK(s, q.op, q.todo)
    /\ q.op = "recreate" => s = "ns"
    /\ s = "cluster" => q.at = 0
    /\ s = "ns" /\ FirstCall(q.todo).call # "createNs" => q.at \in 1..m
    /\ q.op # "create" => q.id \in 1..m
    /\ FirstCall(q.todo).call \in {"add", "list", "deleteNs"} =>
         q.at = PlaceIn(s, q.id) /\ q.id \in 1..m

(* n is request q when its call is over ... *)
Went(s, q, n) ==
  /\ n \in ReqSet /\ n.got = NoRead
  /\ \/ n = Idle /\ n.op = "none" /\ EndOK(FirstCall(q.todo))
     \/ /\ n.op = q.op /\ n.id = q.id /\ n.at = q.at /\ n.crossed = q.crossed
        /\ n.todo = AfterCall(q.todo)
        /\ \/ Link(s, q.op, FirstCall(q.todo), FirstCall(n.todo))
           \/ EndOK(FirstCall(q.todo)) /\ StartOK(q.op, q.todo[1], FirstCall(n.todo))

(* ... and when it has failed. *)
Left(q, n) ==
  /\ n \in ReqSet /\ n.got = NoRead
  /\ \/ n = Idle /\ n.op = "none"
     \/ /\ n.op = q.op /\ n.id = q.id /\ n.at = q.at /\ n.crossed = q.crossed
        /\ n.todo = AfterFailure(q.todo) /\ q.op # "delete"
        /\ StartOK(q.op, q.todo[1], FirstCall(n.todo))

LEMMA IdleIs ==
  /\ Idle \in ReqSet /\ Idle.op = "none" /\ Idle.got = NoRead /\ Idle.crossed = {}
  /\ Idle.todo = << >> /\ Idle.id = 0 /\ Idle.at = 0
  /\ NoRead \in Reading
<1>1. << >> \in Programs
  BY DEF Programs
<1>2. 0 \in Places
  BY DevSpaceAssumption DEF Places
<1>3. NoRead \in Reading
  BY DEF NoRead, Reading, Bindings
<1> QED BY <1>1, <1>2, <1>3 DEF Idle, ReqSet, Ops

LEMMA WithIs ==
  ASSUME NEW q \in ReqSet, NEW todo \in Programs
  PROVE  /\ With(q, todo) \in ReqSet /\ With(q, todo).got = NoRead
         /\ todo = << >> => With(q, todo) = Idle
         /\ todo # << >> =>
              /\ With(q, todo).op = q.op /\ With(q, todo).id = q.id /\ With(q, todo).at = q.at
              /\ With(q, todo).crossed = q.crossed /\ With(q, todo).todo = todo
<1>1. CASE todo = << >>
  BY <1>1, IdleIs DEF With
<1>2. CASE todo # << >>
  BY <1>2, IdleIs DEF With, ReqSet
<1> QED BY <1>1, <1>2

LEMMA AddGroupFirst ==
  ASSUME NEW todo, todo[1] = AddGroup
  PROVE  FirstCall(todo).call = "add"
BY DEF AddGroup, Must, Plain, Call, FirstCall

LEMMA WentOK ==
  ASSUME NEW s \in {"ns", "cluster"}, NEW m \in Nat, NEW q \in ReqSet, q.op # "none",
         RequestOK(s, m, q)
  PROVE  /\ Went(s, q, With(q, AfterCall(q.todo)))
         /\ FirstCall(q.todo).call # "createNs" =>
              RequestOK(s, m, With(q, AfterCall(q.todo)))
<1> DEFINE todo == q.todo
           next == AfterCall(todo)
           n == With(q, next)
           c == FirstCall(todo)
           d == FirstCall(next)
<1>1. todo \in Programs /\ ProgramOK(s, q.op, todo)
  BY DEF ReqSet, RequestOK
<1>2. /\ next \in Programs
      /\ next = << >> => EndOK(c)
      /\ next # << >> =>
           /\ ProgramOK(s, q.op, next)
           /\ \/ Link(s, q.op, c, d)
              \/ EndOK(c) /\ StartOK(q.op, todo[1], d)
  BY <1>1, AfterCallOK, Zenon
<1>3. /\ n \in ReqSet /\ n.got = NoRead
      /\ next = << >> => n = Idle
      /\ next # << >> => /\ n.op = q.op /\ n.id = q.id /\ n.at = q.at
                         /\ n.crossed = q.crossed /\ n.todo = next
  BY <1>2, WithIs, Zenon
<1>4. Idle.op = "none"
  BY IdleIs
<1>5. Went(s, q, n)
  <2>1. CASE next = << >>
    BY <1>2, <1>3, <1>4, <2>1, Zenon DEF Went
  <2>2. CASE next # << >>
    BY <1>2, <1>3, <2>2, Zenon DEF Went
  <2> QED BY <2>1, <2>2
<1>6. ASSUME c.call # "createNs"
      PROVE  RequestOK(s, m, n)
  <2>1. CASE next = << >>
    BY <1>3, <1>4, <2>1, Zenon DEF RequestOK
  <2>2. CASE next # << >>
    <3>1. /\ q.op = "recreate" => s = "ns"
          /\ s = "cluster" => q.at = 0
          /\ s = "ns" => q.at \in 1..m
          /\ q.op # "create" => q.id \in 1..m
      BY <1>6, Zenon DEF RequestOK
    <3>2. ASSUME d.call \in {"add", "list", "deleteNs"}
          PROVE  q.at = PlaceIn(s, q.id) /\ q.id \in 1..m
      <4>1. ~ Link(s, q.op, c, d)
        BY <3>2, Zenon DEF Link
      <4>2. StartOK(q.op, todo[1], d)
        BY <1>2, <2>2, <4>1, Zenon
      <4>3. d.call \in {"list", "deleteNs"}
        BY <3>2, <4>2 DEF StartOK
      <4>4. c.call = "add"
        BY <4>2, <4>3, AddGroupFirst, Zenon DEF StartOK
      <4>5. c.call \in {"add", "list", "deleteNs"}
        BY <4>4
      <4> QED BY <4>5, Zenon DEF RequestOK
    <3> HIDE DEF next
    <3>3. n.op = q.op /\ n.id = q.id /\ n.at = q.at /\ n.todo = next
      BY <1>3, <2>2, Zenon
    <3> HIDE DEF n
    <3> QED BY <1>2, <2>2, <3>1, <3>2, <3>3, Zenon DEF RequestOK
  <2> QED BY <2>1, <2>2
<1> QED BY <1>5, <1>6, Zenon

LEMMA LeftOK ==
  ASSUME NEW s \in {"ns", "cluster"}, NEW m \in Nat, NEW q \in ReqSet, q.op # "none",
         RequestOK(s, m, q)
  PROVE  /\ Left(q, With(q, AfterFailure(q.todo)))
         /\ RequestOK(s, m, With(q, AfterFailure(q.todo)))
<1> DEFINE todo == q.todo
           next == AfterFailure(todo)
           n == With(q, next)
           c == FirstCall(todo)
           d == FirstCall(next)
<1>1. todo \in Programs /\ ProgramOK(s, q.op, todo)
  BY DEF ReqSet, RequestOK
<1>2. /\ next \in Programs
      /\ next # << >> =>
           /\ ProgramOK(s, q.op, next) /\ StartOK(q.op, todo[1], d)
           /\ q.op # "delete" /\ c.call \notin {"add", "createNs"}
  BY <1>1, AfterFailureOK, Zenon
<1>3. /\ n \in ReqSet /\ n.got = NoRead
      /\ next = << >> => n = Idle
      /\ next # << >> => /\ n.op = q.op /\ n.id = q.id /\ n.at = q.at
                         /\ n.crossed = q.crossed /\ n.todo = next
  BY <1>2, WithIs, Zenon
<1>4. Idle.op = "none"
  BY IdleIs
<1>5. CASE next = << >>
  BY <1>3, <1>4, <1>5, Zenon DEF Left, RequestOK
<1>6. CASE next # << >>
  <2>1. Left(q, n)
    BY <1>2, <1>3, <1>6, Zenon DEF Left
  <2>2. c.call # "createNs" /\ c.call # "add"
    BY <1>2, <1>6
  <2>3. /\ q.op = "recreate" => s = "ns"
        /\ s = "cluster" => q.at = 0
        /\ s = "ns" => q.at \in 1..m
        /\ q.op # "create" => q.id \in 1..m
    BY <2>2, Zenon DEF RequestOK
  <2>4. d.call \notin {"add", "list", "deleteNs"}
    <3>1. StartOK(q.op, todo[1], d)
      BY <1>2, <1>6, Zenon
    <3>2. todo[1] # AddGroup
      BY <2>2, AddGroupFirst, Zenon
    <3> QED BY <3>1, <3>2 DEF StartOK
  <2> HIDE DEF next
  <2>5. n.op = q.op /\ n.id = q.id /\ n.at = q.at /\ n.todo = next
    BY <1>3, <1>6, Zenon
  <2> HIDE DEF n
  <2>6. RequestOK(s, m, n)
    BY <1>2, <1>6, <2>3, <2>4, <2>5, Zenon DEF RequestOK
  <2> QED BY <2>1, <2>6, Zenon DEF n, next
<1> QED BY <1>5, <1>6

-----------------------------------------------------------------------------
(* The type invariant, stronger than TypeOK: requests are where their      *)
(* programs have brought them, and what one has read was once written.     *)

WorldOK ==
  /\ scope \in {"ns", "cluster"} /\ made \in 0..MaxSpaces
  /\ spaces \subseteq 1..made /\ cached \subseteq 1..made /\ leaked \subseteq Ids
  /\ name \in [Ids -> Places] /\ ns \in [Places -> {"none", "live", "terminating"}]
LogOK ==
  /\ log \in [Places -> [Roles -> Seq(Bindings)]]
  /\ \A p \in Places, b \in Roles : Len(log[p][b]) > 0
SeenOK ==
  /\ seen \in [Places -> [Shared -> Nat]]
  /\ \A p \in Places, b \in Shared : seen[p][b] \in 1..Len(log[p][b])
ReqOK == req \in [Requests -> ReqSet] /\ \A r \in Requests : RequestOK(scope, made, req[r])
GotOK(lg, q) ==
  (q.op # "none" /\ q.got # NoRead) =>
    /\ FirstCall(q.todo).call \in {"append", "remove", "unauthorize"}
    /\ q.got.version \in 1..Len(lg[q.at][FirstCall(q.todo).role])
    /\ lg[q.at][FirstCall(q.todo).role][q.got.version] = q.got.who
GotsOK == \A r \in Requests : GotOK(log, req[r])
HistoryOK ==
  /\ events \in 0..MaxEvents /\ spoiled \subseteq Subjects
  /\ killed \in BOOLEAN /\ stayed \in BOOLEAN

Types == WorldOK /\ LogOK /\ SeenOK /\ ReqOK /\ GotsOK /\ HistoryOK

LEMMA NumbersAre ==
  ASSUME WorldOK
  PROVE  /\ made \in Nat /\ made <= MaxSpaces /\ MaxSpaces \in Nat
         /\ 0 \in Places /\ 1..made \subseteq Ids /\ Ids \subseteq Places
BY DevSpaceAssumption DEF WorldOK, Ids, Places

LEMMA ActiveIs ==
  ASSUME ReqOK, NEW r \in Requests, req[r].op # "none"
  PROVE  /\ req[r] \in ReqSet /\ RequestOK(scope, made, req[r])
         /\ Here(r) = FirstCall(req[r].todo) /\ Here(r) \in CallSet
         /\ CallOK(scope, req[r].op, Here(r)) /\ req[r].at \in Places
         /\ ProgramOK(scope, req[r].op, req[r].todo) /\ req[r].todo \in Programs
         /\ Here(r).role \in Roles /\ Here(r).who \in Subjects
<1>1. req[r] \in ReqSet /\ RequestOK(scope, made, req[r])
  BY DEF ReqOK
<1>2. req[r].todo \in Programs /\ req[r].at \in Places
  BY <1>1 DEF ReqSet
<1>3. ProgramOK(scope, req[r].op, req[r].todo)
  BY <1>1, Zenon DEF RequestOK
<1>4. /\ Here(r) = FirstCall(req[r].todo) /\ Here(r) \in CallSet
      /\ CallOK(scope, req[r].op, Here(r))
  BY <1>2, <1>3, FirstIs, Zenon DEF Here
<1>5. Here(r).role \in Roles /\ Here(r).who \in Subjects
  BY <1>4 DEF CallSet
<1> QED BY <1>1, <1>2, <1>3, <1>4, <1>5, Zenon

(* A request that has been asked for. *)
Begins(s, m, n) ==
  /\ n \in ReqSet /\ n.op # "none" /\ n.got = NoRead
  /\ RequestOK(s, m, n) /\ Begun(s, n.op, n.todo)
  /\ n.op = "delete" => n.todo = DeleteProgram \/ n.todo = <<AddGroup>> \o DeleteProgram

Quiet == UNCHANGED <<world, history>>

LEMMA Handled ==
  ASSUME WorldOK, NEW r \in Requests, NEW op \in Ops \ {"none", "create"}, NEW id, NEW program,
         Handle(r, op, id, program), Begun(scope, op, program),
         FirstCall(program).call # "add", op = "recreate" => scope = "ns",
         op = "delete" => program = DeleteProgram /\ Len(program) = 1
  PROVE  req[r].op = "none" /\ \E n : Begins(scope, made, n) /\ req' = [req EXCEPT ![r] = n]
<1> DEFINE todo == IF id \in cached THEN program ELSE <<AddGroup>> \o program
           n == [Idle EXCEPT !.op = op, !.id = id, !.at = Place(id), !.todo = todo]
<1>1. req[r].op = "none" /\ req' = [req EXCEPT ![r] = n]
  BY Zenon DEF Handle, AddGroup
<1>2. Begun(scope, op, <<AddGroup>> \o program)
  BY BegunWithAdd, Zenon
<1>3. Begun(scope, op, todo) /\ (op = "delete" => todo = DeleteProgram \/ todo = <<AddGroup>> \o DeleteProgram)
  BY <1>2, Zenon
<1> HIDE DEF todo
<1>4. id \in 1..made /\ id \in Places /\ Place(id) \in Places
      /\ (scope = "cluster" => Place(id) = 0) /\ (scope = "ns" => Place(id) = id)
      /\ Place(id) = PlaceIn(scope, id)
  <2>1. id \in 1..made
    BY DEF Handle, WorldOK
  <2>2. id \in Places /\ 0 \in Places
    BY <2>1, NumbersAre
  <2> QED BY <2>1, <2>2 DEF Place, PlaceIn
<1>5. todo \in Programs /\ ProgramOK(scope, op, todo)
  BY <1>3, Zenon DEF Begun
<1>6. /\ n \in ReqSet /\ n.op = op /\ n.id = id /\ n.at = Place(id) /\ n.todo = todo
      /\ n.got = NoRead
  BY <1>4, <1>5, IdleIs DEF ReqSet, Ops
<1>7. op # "none"
  OBVIOUS
<1> HIDE DEF n
<1>8. RequestOK(scope, made, n)
  <2>1. scope \in {"ns", "cluster"}
    BY DEF WorldOK
  <2> QED BY <1>4, <1>5, <1>6, Zenon DEF RequestOK
<1>9. Begins(scope, made, n)
  BY <1>3, <1>6, <1>7, <1>8, Zenon DEF Begins
<1> QED BY <1>1, <1>9, Zenon

LEMMA AsksOK ==
  ASSUME WorldOK, NEW r \in Requests, Asks(r)
  PROVE  /\ req[r].op = "none"
         /\ \E n : Begins(scope, made, n) /\ req' = [req EXCEPT ![r] = n]
         /\ Quiet /\ events < MaxEvents /\ events' = events + 1
<1>1. scope \in {"ns", "cluster"}
  BY DEF WorldOK
<1> DEFINE Goal == /\ req[r].op = "none"
                   /\ \E n : Begins(scope, made, n) /\ req' = [req EXCEPT ![r] = n]
                   /\ Quiet /\ events < MaxEvents /\ events' = events + 1
<1>2. CASE Create(r)
  <2> DEFINE n == [Idle EXCEPT !.op = "create", !.todo = CreateProgram]
  <2>1. /\ Begun(scope, "create", CreateProgram)
        /\ FirstCall(CreateProgram).call \notin {"add", "list", "deleteNs"}
        /\ scope = "ns" => FirstCall(CreateProgram).call = "createNs"
    BY <1>1, CreateBegun, Zenon
  <2>2. CreateProgram \in Programs /\ ProgramOK(scope, "create", CreateProgram)
    BY <2>1, Zenon DEF Begun
  <2>3. /\ n \in ReqSet /\ n.op = "create" /\ n.at = 0 /\ n.todo = CreateProgram
        /\ n.got = NoRead
    BY <2>2, IdleIs DEF ReqSet, Ops
  <2>4. req[r].op = "none" /\ req' = [req EXCEPT ![r] = n] /\ Quiet
        /\ events < MaxEvents /\ events' = events + 1
    BY <1>2, Zenon DEF Create, Quiet
  <2> HIDE DEF n
  <2>5. n.op # "none" /\ n.op # "recreate" /\ n.op # "delete"
    BY <2>3
  <2>6. RequestOK(scope, made, n)
    BY <2>1, <2>2, <2>3, <2>5, Zenon DEF RequestOK
  <2>7. Begins(scope, made, n)
    BY <2>1, <2>3, <2>5, <2>6, Zenon DEF Begins
  <2> QED BY <2>4, <2>7, Zenon
<1>3. ASSUME NEW op \in Ops \ {"none", "create"}, NEW id, NEW program, Handle(r, op, id, program),
             Begun(scope, op, program), FirstCall(program).call # "add",
             op = "recreate" => scope = "ns",
             op = "delete" => program = DeleteProgram /\ Len(program) = 1
      PROVE  Goal
  <2>1. Quiet /\ events < MaxEvents /\ events' = events + 1
    BY <1>3, Zenon DEF Handle, Quiet
  <2> QED BY <1>3, <2>1, Handled, Zenon
<1>4. /\ "share" \in Ops \ {"none", "create"} /\ "unshare" \in Ops \ {"none", "create"}
      /\ "recreate" \in Ops \ {"none", "create"} /\ "delete" \in Ops \ {"none", "create"}
      /\ "share" # "recreate" /\ "share" # "delete" /\ "unshare" # "recreate"
      /\ "unshare" # "delete" /\ "recreate" # "delete" /\ "list" # "add"
  BY DEF Ops
<1>5. ASSUME NEW id, NEW by, NEW targets \in Targets, Share(r, id, by, targets)
      PROVE  Goal
  <2>1. Handle(r, "share", id, ShareProgram(targets))
    BY <1>5, Zenon DEF Share
  <2>2. /\ Begun(scope, "share", ShareProgram(targets))
        /\ FirstCall(ShareProgram(targets)).call # "add"
    BY <1>1, ShareBegun, Zenon
  <2> QED BY <1>3, <1>4, <2>1, <2>2, Zenon
<1>6. ASSUME NEW id, NEW by, NEW u \in Users, UnShare(r, id, by, u)
      PROVE  Goal
  <2>1. Handle(r, "unshare", id, UnShareProgram(u))
    BY <1>6, Zenon DEF UnShare
  <2>2. Begun(scope, "unshare", UnShareProgram(u)) /\ FirstCall(UnShareProgram(u)).call # "add"
    BY <1>1, UnShareBegun, Zenon
  <2> QED BY <1>3, <1>4, <2>1, <2>2, Zenon
<1>7. ASSUME NEW id, Delete(r, id)
      PROVE  Goal
  <2>1. Handle(r, "delete", id, DeleteProgram)
    BY <1>7, Zenon DEF Delete
  <2>2. /\ Begun(scope, "delete", DeleteProgram) /\ Len(DeleteProgram) = 1
        /\ FirstCall(DeleteProgram).call # "add"
    BY <1>1, DeleteBegun, Zenon
  <2> QED BY <1>3, <1>4, <2>1, <2>2, Zenon
<1>8. ASSUME NEW id, NEW by \in Users \cup {Owner}, ReCreate(r, id, by)
      PROVE  Goal
  <2> DEFINE program == <<Must(<<Call("list", "admin", by)>>)>>
  <2>1. scope = "ns" /\ Handle(r, "recreate", id, program)
    BY <1>8, Zenon DEF ReCreate
  <2>2. by \in Subjects
    BY DEF Subjects
  <2>3. Begun(scope, "recreate", program) /\ FirstCall(program).call = "list"
    BY <2>1, <2>2, ListBegun, Zenon
  <2> HIDE DEF program
  <2> QED BY <1>3, <1>4, <2>1, <2>3, Zenon
<1> QED BY <1>2, <1>5, <1>6, <1>7, <1>8, Zenon DEF Asks

(* Request r becomes n; of the others at most "crossed" grows. *)
Aside(q, x) ==
  /\ x.op = q.op /\ x.id = q.id /\ x.at = q.at /\ x.todo = q.todo /\ x.got = q.got
  /\ q.crossed \subseteq x.crossed
Turns(r, n) ==
  /\ req' \in [Requests -> ReqSet] /\ req'[r] = n
  /\ \A x \in Requests \ {r} : Aside(req[x], req'[x])

(* No version of a binding is ever changed. *)
Grows(lg, new) ==
  \A p \in Places, b \in Roles :
    /\ Len(lg[p][b]) \in Nat /\ Len(new[p][b]) \in Nat /\ Len(lg[p][b]) <= Len(new[p][b])
    /\ \A v \in 1..Len(lg[p][b]) : new[p][b][v] = lg[p][b][v]

LEMMA TurnsAlone ==
  ASSUME ReqOK, NEW r \in Requests, NEW n \in ReqSet, req' = [req EXCEPT ![r] = n]
  PROVE  Turns(r, n) /\ \A x \in Requests \ {r} : req'[x] = req[x]
<1>1. req \in [Requests -> ReqSet]
  BY DEF ReqOK
<1>2. req' \in [Requests -> ReqSet] /\ req'[r] = n /\ \A x \in Requests \ {r} : req'[x] = req[x]
  BY <1>1
<1> QED BY <1>2 DEF Turns, Aside

LEMMA TurnsCrossed ==
  ASSUME ReqOK, NEW r \in Requests, NEW n \in ReqSet, Here(r).who \in Subjects,
         n.crossed = req[r].crossed \/ n = Idle,
         req' = Crossed(r, [req EXCEPT ![r] = n])
  PROVE  /\ Turns(r, n)
         /\ \A x \in Requests \ {r} : req[x].op # "none" => Here(r).who \in req'[x].crossed
<1> DEFINE u == Here(r).who
<1>1. req \in [Requests -> ReqSet]
  BY DEF ReqOK
<1>2. req' = [x \in Requests |->
                IF x # r /\ [req EXCEPT ![r] = n][x].op # "none"
                THEN [[req EXCEPT ![r] = n][x] EXCEPT !.crossed = @ \cup {u}]
                ELSE [req EXCEPT ![r] = n][x]]
  BY Zenon DEF Crossed
<1> HIDE DEF u
<1>3. req'[r] = n
  BY <1>1, <1>2
<1>4. ASSUME NEW x \in Requests \ {r}
      PROVE  /\ req'[x] \in ReqSet /\ Aside(req[x], req'[x])
             /\ req[x].op # "none" => u \in req'[x].crossed
  <2>1. req[x] \in ReqSet /\ u \in Subjects
    BY <1>1 DEF u
  <2>2. CASE req[x].op # "none"
    <3>1. req'[x] = [req[x] EXCEPT !.crossed = @ \cup {u}]
      BY <1>1, <1>2, <2>2
    <3> DEFINE c == req[x].crossed \cup {u}
    <3>2. c \in SUBSET Subjects /\ req[x].crossed \subseteq c /\ u \in c
      BY <2>1 DEF ReqSet
    <3>3. req'[x] = [req[x] EXCEPT !.crossed = c]
      BY <2>1, <3>1 DEF ReqSet
    <3> HIDE DEF c
    <3>4. /\ req'[x] \in ReqSet /\ req'[x].crossed = c /\ req'[x].op = req[x].op
          /\ req'[x].id = req[x].id /\ req'[x].at = req[x].at
          /\ req'[x].todo = req[x].todo /\ req'[x].got = req[x].got
      BY <2>1, <3>2, <3>3 DEF ReqSet
    <3> QED BY <3>2, <3>4 DEF Aside
  <2>3. CASE req[x].op = "none"
    <3>1. req'[x] = req[x]
      BY <1>1, <1>2, <2>3
    <3> QED BY <2>1, <2>3, <3>1 DEF Aside
  <2> QED BY <2>2, <2>3
<1>5. req' \in [Requests -> ReqSet]
  <2>1. \A x \in Requests : req'[x] \in ReqSet
    BY <1>3, <1>4
  <2> QED BY <1>2, <2>1
<1> QED BY <1>3, <1>4, <1>5, Zenon DEF Turns, u

LEMMA ContinueOK ==
  ASSUME WorldOK, ReqOK, NEW r \in Requests, req[r].op # "none"
  PROVE  LET n == With(req[r], AfterCall(req[r].todo)) IN
         /\ Went(scope, req[r], n) /\ n \in ReqSet
         /\ Here(r).call # "createNs" => RequestOK(scope, made, n)
         /\ Continue(r) => req' = [req EXCEPT ![r] = n]
<1>1. req[r] \in ReqSet /\ RequestOK(scope, made, req[r]) /\ Here(r) = FirstCall(req[r].todo)
  BY ActiveIs, Zenon
<1>2. scope \in {"ns", "cluster"} /\ made \in Nat
  BY NumbersAre DEF WorldOK
<1>3. /\ Went(scope, req[r], With(req[r], AfterCall(req[r].todo)))
      /\ FirstCall(req[r].todo).call # "createNs" =>
           RequestOK(scope, made, With(req[r], AfterCall(req[r].todo)))
  BY <1>1, <1>2, WentOK, Zenon
<1>4. With(req[r], AfterCall(req[r].todo)) \in ReqSet
  BY <1>3, Zenon DEF Went
<1>5. Continue(r) => req' = [req EXCEPT ![r] = With(req[r], AfterCall(req[r].todo))]
  BY DEF Continue
<1> QED BY <1>1, <1>3, <1>4, <1>5, Zenon

LEMMA GiveUpOK ==
  ASSUME WorldOK, ReqOK, NEW r \in Requests, req[r].op # "none"
  PROVE  LET n == With(req[r], AfterFailure(req[r].todo)) IN
         /\ Left(req[r], n) /\ n \in ReqSet /\ RequestOK(scope, made, n)
         /\ GiveUp(r) => req' = [req EXCEPT ![r] = n]
<1>1. req[r] \in ReqSet /\ RequestOK(scope, made, req[r])
  BY ActiveIs, Zenon
<1>2. scope \in {"ns", "cluster"} /\ made \in Nat
  BY NumbersAre DEF WorldOK
<1>3. /\ Left(req[r], With(req[r], AfterFailure(req[r].todo)))
      /\ RequestOK(scope, made, With(req[r], AfterFailure(req[r].todo)))
  BY <1>1, <1>2, LeftOK, Zenon
<1>4. With(req[r], AfterFailure(req[r].todo)) \in ReqSet
  BY <1>3, Zenon DEF Left
<1>5. GiveUp(r) => req' = [req EXCEPT ![r] = With(req[r], AfterFailure(req[r].todo))]
  BY DEF GiveUp
<1> QED BY <1>1, <1>3, <1>4, <1>5, Zenon

LEMMA RequestOKLater ==
  ASSUME NEW s, NEW m \in Nat, NEW k \in Nat, m <= k, NEW q, NEW x, RequestOK(s, m, q),
         Aside(q, x)
  PROVE  RequestOK(s, k, x)
<1>1. \A i \in 1..m : i \in 1..k
  OBVIOUS
<1>2. x.op = q.op /\ x.id = q.id /\ x.at = q.at /\ x.todo = q.todo
  BY DEF Aside
<1> QED BY <1>1, <1>2, Zenon DEF RequestOK

LEMMA GotOKLater ==
  ASSUME NEW lg, NEW new, Grows(lg, new), NEW q, NEW x, GotOK(lg, q), Aside(q, x),
         q.op # "none" => q.at \in Places /\ FirstCall(q.todo).role \in Roles
  PROVE  GotOK(new, x)
<1>1. x.op = q.op /\ x.at = q.at /\ x.todo = q.todo /\ x.got = q.got
  BY DEF Aside
<1>2. ASSUME q.op # "none", q.got # NoRead
      PROVE  /\ q.got.version \in 1..Len(new[q.at][FirstCall(q.todo).role])
             /\ new[q.at][FirstCall(q.todo).role][q.got.version] = q.got.who
  <2> DEFINE p == q.at
             b == FirstCall(q.todo).role
             v == q.got.version
  <2>1. p \in Places /\ b \in Roles /\ v \in 1..Len(lg[p][b]) /\ lg[p][b][v] = q.got.who
    BY <1>2, Zenon DEF GotOK
  <2> HIDE DEF p, b, v
  <2>2. /\ Len(lg[p][b]) \in Nat /\ Len(new[p][b]) \in Nat /\ Len(lg[p][b]) <= Len(new[p][b])
        /\ new[p][b][v] = lg[p][b][v]
    BY <2>1, Zenon DEF Grows
  <2>3. v \in 1..Len(new[p][b])
    BY <2>1, <2>2
  <2> QED BY <2>1, <2>2, <2>3, Zenon DEF p, b, v
<1>3. q.op # "none" /\ q.got # NoRead => FirstCall(q.todo).call \in {"append", "remove", "unauthorize"}
  BY Zenon DEF GotOK
<1> QED BY <1>1, <1>2, <1>3, Zenon DEF GotOK

LEMMA TurnKeeps ==
  ASSUME Types, NEW r \in Requests, NEW n \in ReqSet, Turns(r, n), scope' = scope,
         made' \in Nat, made <= made', Grows(log, log'),
         RequestOK(scope, made', n), GotOK(log', n)
  PROVE  ReqOK' /\ GotsOK'
<1>1. made \in Nat /\ ReqOK /\ GotsOK
  BY NumbersAre, Zenon DEF Types
<1>2. /\ req' \in [Requests -> ReqSet] /\ req'[r] = n
      /\ \A x \in Requests \ {r} : Aside(req[x], req'[x])
  BY Zenon DEF Turns
<1>3. ASSUME NEW x \in Requests
      PROVE  RequestOK(scope', made', req'[x]) /\ GotOK(log', req'[x])
  <2>1. CASE x = r
    BY <1>2, <2>1, Zenon
  <2>2. CASE x # r
    <3>1. Aside(req[x], req'[x]) /\ RequestOK(scope, made, req[x]) /\ GotOK(log, req[x])
      BY <1>1, <1>2, <2>2, Zenon DEF ReqOK, GotsOK
    <3>2. req[x].op # "none" => req[x].at \in Places /\ FirstCall(req[x].todo).role \in Roles
      BY <1>1, ActiveIs, Zenon
    <3>3. RequestOK(scope, made', req'[x])
      BY <1>1, <3>1, RequestOKLater, Zenon
    <3>4. GotOK(log', req'[x])
      BY <3>1, <3>2, GotOKLater, Zenon
    <3> QED BY <3>3, <3>4, Zenon
  <2> QED BY <2>1, <2>2
<1> QED BY <1>2, <1>3, Zenon DEF ReqOK, GotsOK

LEMMA GrowsSame ==
  ASSUME LogOK, log' = log
  PROVE  Grows(log, log')
<1>1. \A p \in Places, b \in Roles : Len(log[p][b]) \in Nat
  BY DEF LogOK
<1> QED BY <1>1 DEF Grows

LEMMA NothingRead ==
  ASSUME NEW lg, NEW n, n.got = NoRead
  PROVE  GotOK(lg, n)
BY Zenon DEF GotOK

-----------------------------------------------------------------------------
(* The bindings. *)

BoundIn(lg, p, b) == lg[p][b][Len(lg[p][b])] \ Gone

LEMMA BoundIs ==
  \A p, b : Bound(p, b) = BoundIn(log, p, b)
BY Zenon DEF Bound, Now, BoundIn

LEMMA NobodyIsNoSubject ==
  ASSUME NEW u \in Subjects
  PROVE  u \notin Gone
BY DevSpaceAssumption DEF Subjects, Gone

LEMMA NowIs ==
  ASSUME LogOK, NEW p \in Places, NEW b \in Roles
  PROVE  /\ log[p][b] \in Seq(Bindings) /\ Len(log[p][b]) \in Nat /\ Len(log[p][b]) > 0
         /\ Now(p, b) \in Bindings /\ Bound(p, b) \in SUBSET Subjects
         /\ \A v \in 1..Len(log[p][b]) : log[p][b][v] \in Bindings
         /\ Now(p, b) = log[p][b][Len(log[p][b])]
<1>1. log[p][b] \in Seq(Bindings) /\ Len(log[p][b]) > 0
  BY DEF LogOK
<1>2. Len(log[p][b]) \in Nat /\ \A v \in 1..Len(log[p][b]) : log[p][b][v] \in Bindings
  BY <1>1
<1>3. Len(log[p][b]) \in 1..Len(log[p][b])
  BY <1>1, <1>2
<1>4. Now(p, b) \in Bindings
  BY <1>2, <1>3, Zenon DEF Now
<1>5. Bound(p, b) \in SUBSET Subjects
  BY <1>4 DEF Bound, Bindings, Gone
<1> QED BY <1>1, <1>2, <1>4, <1>5, Zenon DEF Now

LEMMA SharedIs ==
  /\ Shared = {"coop", "view"} /\ "coop" \in Roles /\ "view" \in Roles
  /\ "admin" \notin Shared /\ "admin" \in Roles
BY DEF Shared, Roles

(* What a new version of one binding changes. *)
Only(p, b) == \A x \in Places, d \in Roles : x # p \/ d # b => log'[x][d] = log[x][d]

LEMMA AppendLog ==
  ASSUME LogOK, NEW p \in Places, NEW b \in Roles, NEW w \in Bindings,
         log' = [log EXCEPT ![p][b] = Append(@, w)]
  PROVE  LogOK' /\ Grows(log, log') /\ BoundIn(log', p, b) = w \ Gone /\ Only(p, b)
<1> DEFINE s == log[p][b]
<1>1. /\ log \in [Places -> [Roles -> Seq(Bindings)]]
      /\ \A x \in Places, d \in Roles : log[x][d] \in Seq(Bindings) /\ Len(log[x][d]) > 0
  BY DEF LogOK
<1>2. s \in Seq(Bindings) /\ Len(s) \in Nat
  BY <1>1
<1>3. log'[p][b] = Append(s, w) /\ Only(p, b)
  BY <1>1 DEF Only
<1>4. log' \in [Places -> [Roles -> Seq(Bindings)]]
  <2>1. Append(s, w) \in Seq(Bindings)
    BY <1>2
  <2>2. [log[p] EXCEPT ![b] = Append(s, w)] \in [Roles -> Seq(Bindings)]
    BY <1>1, <2>1
  <2>3. log' = [log EXCEPT ![p] = [log[p] EXCEPT ![b] = Append(s, w)]]
    OBVIOUS
  <2> QED BY <1>1, <2>2, <2>3
<1> HIDE DEF s
<1>5. /\ Len(Append(s, w)) = Len(s) + 1 /\ Append(s, w)[Len(s) + 1] = w
      /\ \A v \in 1..Len(s) : Append(s, w)[v] = s[v]
      /\ Len(s) <= Len(s) + 1 /\ Len(s) + 1 > 0 /\ Len(s) + 1 \in Nat
  BY <1>2
<1>6. BoundIn(log', p, b) = w \ Gone
  BY <1>3, <1>5 DEF BoundIn
<1>7. ASSUME NEW x \in Places, NEW d \in Roles
      PROVE  /\ Len(log'[x][d]) > 0
             /\ Len(log[x][d]) \in Nat /\ Len(log'[x][d]) \in Nat
             /\ Len(log[x][d]) <= Len(log'[x][d])
             /\ \A v \in 1..Len(log[x][d]) : log'[x][d][v] = log[x][d][v]
  <2>1. CASE x = p /\ d = b
    BY <1>2, <1>3, <1>5, <2>1 DEF s
  <2>2. CASE x # p \/ d # b
    <3>1. log'[x][d] = log[x][d]
      BY <1>3, <2>2 DEF Only
    <3>2. Len(log[x][d]) \in Nat /\ Len(log[x][d]) > 0
      BY <1>1
    <3> QED BY <3>1, <3>2
  <2> QED BY <2>1, <2>2
<1> QED BY <1>3, <1>4, <1>6, <1>7, Zenon DEF LogOK, Grows

(* The server has taken the update of request r. *)
Wrote(r) ==
  LET p == req[r].at
      b == Here(r).role
      u == Here(r).who IN
  /\ LogOK' /\ Grows(log, log') /\ Only(p, b)
  /\ Here(r).call = "append" => BoundIn(log', p, b) = Bound(p, b) \cup {u}
  /\ Here(r).call # "append" => BoundIn(log', p, b) = Bound(p, b) \ {u}

LEMMA ReadsIs ==
  ASSUME NEW r, Reads(r)
  PROVE  req[r].op # "none" /\ Here(r).call \in {"append", "remove", "unauthorize"}
BY DEF Reads, At

LEMMA WriteOK ==
  ASSUME Types, NEW r \in Requests, Reads(r), req[r].got # NoRead, Accepted(r), Write(r)
  PROVE  Wrote(r)
<1> DEFINE p == req[r].at
           b == Here(r).role
           u == Here(r).who
           w == Written(r)
           g == req[r].got
<1>1. req[r].op # "none"
  BY ReadsIs, Zenon
<1>2. /\ LogOK /\ ReqOK /\ GotOK(log, req[r])
  BY Zenon DEF Types, GotsOK
<1>3. /\ p \in Places /\ b \in Roles /\ u \in Subjects /\ Here(r) = FirstCall(req[r].todo)
  BY <1>1, <1>2, ActiveIs, Zenon
<1>4. Len(log[p][b]) = g.version /\ log' = [log EXCEPT ![p][b] = Append(@, w)]
  BY Zenon DEF Accepted, Write
<1>5. log[p][b][g.version] = g.who
  BY <1>1, <1>2, <1>3, Zenon DEF GotOK
<1>6. g.who = Now(p, b)
  BY <1>4, <1>5, Zenon DEF Now
<1>7. Now(p, b) \in Bindings
  BY <1>2, <1>3, NowIs, Zenon
<1>8. /\ Here(r).call = "append" => w = (g.who \ Gone) \cup {u}
      /\ Here(r).call # "append" => w = g.who \ {u}
  BY Zenon DEF Written
<1> HIDE DEF p, b, u, w, g
<1>9. u \notin Gone
  BY <1>3, NobodyIsNoSubject
<1>10. w \in Bindings
  BY <1>3, <1>6, <1>7, <1>8, <1>9 DEF Bindings, Gone
<1>11. LogOK' /\ Grows(log, log') /\ BoundIn(log', p, b) = w \ Gone /\ Only(p, b)
  BY <1>2, <1>3, <1>4, <1>10, AppendLog, Zenon
<1>12. Here(r).call = "append" => w \ Gone = Bound(p, b) \cup {u}
  BY <1>6, <1>8, <1>9 DEF Bound
<1>13. Here(r).call # "append" => w \ Gone = Bound(p, b) \ {u}
  BY <1>6, <1>8 DEF Bound
<1> QED BY <1>11, <1>12, <1>13, Zenon DEF Wrote, p, b, u

LEMMA TerminatedLog ==
  ASSUME LogOK, NEW p \in Ids, Terminated(p)
  PROVE  /\ LogOK' /\ Grows(log, log') /\ \A b \in Roles : BoundIn(log', p, b) = {}
         /\ \A x \in Places \ {p} : log'[x] = log[x]
<1>1. p \in Places
  BY DEF Ids, Places
<1>2. log \in [Places -> [Roles -> Seq(Bindings)]]
  BY DEF LogOK
<1> DEFINE L == [b \in Roles |-> IF Now(p, b) = Gone THEN log[p][b] ELSE Append(log[p][b], Gone)]
<1>3. log' = [log EXCEPT ![p] = L]
  BY DEF Terminated
<1>4. Gone \in Bindings /\ Gone \ Gone = {}
  BY DEF Bindings
<1>5. ASSUME NEW b \in Roles
      PROVE  /\ L[b] \in Seq(Bindings) /\ L[b][Len(L[b])] = Gone /\ Len(L[b]) \in Nat /\ Len(L[b]) > 0
             /\ Len(log[p][b]) \in Nat /\ Len(log[p][b]) <= Len(L[b])
             /\ \A v \in 1..Len(log[p][b]) : L[b][v] = log[p][b][v]
  <2> DEFINE s == log[p][b]
  <2>1. s \in Seq(Bindings) /\ Len(s) \in Nat /\ Len(s) > 0 /\ Now(p, b) = s[Len(s)]
    BY <1>1, NowIs, Zenon
  <2>2. L[b] = IF Now(p, b) = Gone THEN s ELSE Append(s, Gone)
    BY Zenon
  <2> HIDE DEF L, s
  <2>3. CASE Now(p, b) = Gone
    <3>1. L[b] = s
      BY <2>2, <2>3
    <3>2. s[Len(s)] = Gone /\ Len(s) <= Len(s)
      BY <2>1, <2>3
    <3> QED BY <2>1, <3>1, <3>2, Zenon DEF s
  <2>4. CASE Now(p, b) # Gone
    <3>1. L[b] = Append(s, Gone)
      BY <2>2, <2>4
    <3> QED BY <1>4, <2>1, <3>1 DEF s
  <2> QED BY <2>3, <2>4
<1>6. L \in [Roles -> Seq(Bindings)]
  <2> DEFINE F(b) == IF Now(p, b) = Gone THEN log[p][b] ELSE Append(log[p][b], Gone)
  <2>1. \A b \in Roles : L[b] = F(b)
    OBVIOUS
  <2>2. \A b \in Roles : F(b) \in Seq(Bindings)
    BY <1>5, <2>1
  <2>3. L = [b \in Roles |-> F(b)]
    OBVIOUS
  <2> HIDE DEF L, F
  <2> QED BY <2>2, <2>3
<1> HIDE DEF L
<1>7. log' \in [Places -> [Roles -> Seq(Bindings)]] /\ log'[p] = L
      /\ \A x \in Places \ {p} : log'[x] = log[x]
  BY <1>1, <1>2, <1>3, <1>6
<1>8. ASSUME NEW b \in Roles
      PROVE  BoundIn(log', p, b) = {}
  BY <1>4, <1>5, <1>7 DEF BoundIn
<1>9. ASSUME NEW x \in Places, NEW d \in Roles
      PROVE  /\ Len(log'[x][d]) > 0
             /\ Len(log[x][d]) \in Nat /\ Len(log'[x][d]) \in Nat
             /\ Len(log[x][d]) <= Len(log'[x][d])
             /\ \A v \in 1..Len(log[x][d]) : log'[x][d][v] = log[x][d][v]
  <2>1. CASE x = p
    BY <1>5, <1>7, <2>1, Zenon
  <2>2. CASE x # p
    <3>1. log'[x][d] = log[x][d]
      BY <1>7, <2>2, Zenon
    <3>2. Len(log[x][d]) \in Nat /\ Len(log[x][d]) > 0
      BY NowIs, Zenon
    <3> QED BY <3>1, <3>2
  <2> QED BY <2>1, <2>2
<1> QED BY <1>7, <1>8, <1>9, Zenon DEF LogOK, Grows

-----------------------------------------------------------------------------
(* RemoveAllFromViewer and RemoveAllFromCooperator put removals in front   *)
(* of what is left of a delete.                                            *)

(* The program has call c still to make. *)
Owes(todo, c) ==
  \E g \in 1..Len(todo) : \E i \in 1..Len(todo[g].calls) : todo[g].calls[i] = c

LEMMA RemovalsConcat ==
  ASSUME NEW s, NEW a \in Seq(CallSet),
         \A i \in 1..Len(a) : a[i].call = "remove" /\ CallOK(s, "delete", a[i]),
         NEW b \in Seq(CallSet), CallsOK(s, "delete", b),
         \A c \in CallSet : c.call = "remove" => Link(s, "delete", c, b[1])
  PROVE  CallsOK(s, "delete", a \o b)
<1> DEFINE t == a \o b
<1>1. /\ t \in Seq(CallSet) /\ Len(t) = Len(a) + Len(b) /\ Len(a) \in Nat /\ Len(b) \in Nat
      /\ \A i \in 1..Len(a) : t[i] = a[i]
      /\ \A i \in Len(a) + 1..Len(a) + Len(b) : t[i] = b[i - Len(a)]
  BY ConcatIs
<1> HIDE DEF t
<1>2. /\ Len(b) > 0
      /\ \A i \in 1..Len(b) : CallOK(s, "delete", b[i])
      /\ EndOK(b[Len(b)])
      /\ \A i \in 1..Len(b) - 1 : Link(s, "delete", b[i], b[i + 1])
      /\ \A i, j \in 1..Len(b) : i < j /\ b[i].call = "forget" => b[j].call \notin Removals
  BY Zenon DEF CallsOK
<1>3. \A i \in 1..Len(a) : a[i] \in CallSet
  OBVIOUS
<1>4. ASSUME NEW i \in 1..Len(t)
      PROVE  CallOK(s, "delete", t[i])
  <2>1. i \in 1..Len(a) \/ (i \in Len(a) + 1..Len(a) + Len(b) /\ i - Len(a) \in 1..Len(b))
    BY <1>1
  <2> QED BY <1>1, <1>2, <2>1, Zenon
<1>5. ASSUME NEW i \in 1..Len(t) - 1
      PROVE  Link(s, "delete", t[i], t[i + 1])
  <2>1. CASE i < Len(a)
    <3>1. i \in 1..Len(a) /\ i + 1 \in 1..Len(a)
      BY <1>1, <2>1
    <3>2. t[i].call = "remove" /\ t[i + 1].call = "remove"
      BY <1>1, <3>1, Zenon
    <3> QED BY <3>2 DEF Link
  <2>2. CASE i = Len(a)
    <3>1. i \in 1..Len(a) /\ i + 1 \in Len(a) + 1..Len(a) + Len(b) /\ (i + 1) - Len(a) = 1
      BY <1>1, <1>2, <2>2
    <3>2. t[i] \in CallSet /\ t[i].call = "remove" /\ t[i + 1] = b[1]
      BY <1>1, <1>3, <3>1, Zenon
    <3> QED BY <3>2, Zenon
  <2>3. CASE i > Len(a)
    <3>1. /\ i \in Len(a) + 1..Len(a) + Len(b) /\ i + 1 \in Len(a) + 1..Len(a) + Len(b)
          /\ i - Len(a) \in 1..Len(b) - 1 /\ (i + 1) - Len(a) = (i - Len(a)) + 1
      BY <1>1, <2>3
    <3>2. t[i] = b[i - Len(a)] /\ t[i + 1] = b[(i + 1) - Len(a)]
      BY <1>1, <3>1, Zenon
    <3>3. Link(s, "delete", b[i - Len(a)], b[(i - Len(a)) + 1])
      BY <1>2, <3>1, Zenon
    <3> QED BY <3>1, <3>2, <3>3, Zenon
  <2>4. i < Len(a) \/ i = Len(a) \/ i > Len(a)
    BY <1>1
  <2> QED BY <2>1, <2>2, <2>3, <2>4
<1>6. EndOK(t[Len(t)])
  <2>1. Len(t) \in Len(a) + 1..Len(a) + Len(b) /\ Len(t) - Len(a) = Len(b)
    BY <1>1, <1>2
  <2> QED BY <1>1, <1>2, <2>1, Zenon
<1>7. ASSUME NEW i \in 1..Len(t), NEW j \in 1..Len(t), i < j, t[i].call = "forget"
      PROVE  t[j].call \notin Removals
  <2>1. i \notin 1..Len(a)
    <3>1. "remove" # "forget"
      OBVIOUS
    <3> QED BY <1>1, <1>7, <3>1, Zenon
  <2>2. /\ i \in Len(a) + 1..Len(a) + Len(b) /\ j \in Len(a) + 1..Len(a) + Len(b)
        /\ i - Len(a) < j - Len(a) /\ i - Len(a) \in 1..Len(b) /\ j - Len(a) \in 1..Len(b)
    BY <1>1, <1>7, <2>1
  <2>3. t[i] = b[i - Len(a)] /\ t[j] = b[j - Len(a)]
    BY <1>1, <2>2, Zenon
  <2> QED BY <1>2, <1>7, <2>2, <2>3, Zenon
<1>8. Len(t) > 0
  BY <1>1, <1>2
<1> QED BY <1>4, <1>5, <1>6, <1>7, <1>8, Zenon DEF CallsOK, t

LEMMA RemoveAllOK ==
  ASSUME NEW s, NEW todo \in Programs, ProgramOK(s, "delete", todo),
         FirstCall(todo).call = "removeAll", NEW us \in Seq(Subjects), NEW b,
         b = FirstCall(todo).role
  PROVE  LET new == Removing(b, us, todo) IN
         /\ new \in Programs /\ ProgramOK(s, "delete", new)
         /\ FirstCall(new).call \notin {"add", "list", "deleteNs"}
         /\ FirstCall(new).call = "forget" => s # "ns"
         /\ \A i \in 1..Len(us) : Owes(new, Call("remove", b, us[i]))
         /\ \A c : Owes(todo, c) /\ c # FirstCall(todo) => Owes(new, c)
<1> DEFINE calls == todo[1].calls
           f == FirstCall(todo)
           x == [i \in DOMAIN us |-> Call("remove", b, us[i])]
           t == Tail(calls)
           y == x \o t
           g == [todo[1] EXCEPT !.calls = y]
           new == Removing(b, us, todo)
<1>1. /\ todo # << >> /\ todo[1] \in GroupSet /\ GroupOK(s, "delete", todo[1])
      /\ calls \in Seq(CallSet) /\ Len(calls) \in Nat /\ Len(calls) > 0
      /\ f \in CallSet /\ CallOK(s, "delete", f)
      /\ Len(todo) \in Nat /\ Len(todo) > 0
  BY FirstIs, Zenon
<1>2. todo \in Seq(GroupSet) /\ Head(todo) = todo[1]
  <2>1. todo \in Seq(GroupSet)
    BY DEF Programs, GroupSet, CallSet
  <2> QED BY <1>1, <2>1, TailIs
<1>3. /\ CallsOK(s, "delete", calls) /\ todo[1].must
  BY <1>1, Zenon DEF GroupOK, MustOK
<1>4. Len(todo) = 1
  <2>1. "removeAll" # "add"
    OBVIOUS
  <2>2. todo[1] # AddGroup
    BY <2>1, AddGroupFirst, Zenon
  <2> QED BY <2>2, Zenon DEF ProgramOK
<1>5. Tail(todo) = << >>
  <2>1. Tail(todo) \in Seq(GroupSet) /\ Len(Tail(todo)) = Len(todo) - 1
    BY <1>1, <1>2, TailIs
  <2>2. Len(Tail(todo)) = 0
    BY <1>4, <2>1
  <2>3. \A z \in Seq(GroupSet) : Len(z) = 0 => z = << >>
    OBVIOUS
  <2> QED BY <2>1, <2>2, <2>3, Zenon
<1>6. b \in Shared /\ b \in Roles
  BY <1>1 DEF CallOK, Shared, Roles
<1>7. f = calls[1]
  BY DEF FirstCall
<1> HIDE DEF calls, f
<1>8. Len(calls) > 1
  <2>1. ~ EndOK(f)
    BY DEF EndOK, f
  <2>2. Len(calls) # 1
    <3>1. EndOK(calls[Len(calls)])
      BY <1>3, Zenon DEF CallsOK
    <3> QED BY <1>7, <2>1, <3>1
  <2> QED BY <1>1, <2>2, OneIs, Zenon
<1>9. /\ t \in Seq(CallSet) /\ Len(t) = Len(calls) - 1
      /\ \A i \in 1..Len(calls) - 1 : t[i] = calls[i + 1]
  BY <1>1, <1>8, TailIs
<1>10. CallsOK(s, "delete", t)
  BY <1>1, <1>3, <1>8, CallsTail
<1>11. Link(s, "delete", f, t[1])
  <2>1. 1 \in 1..Len(calls) - 1 /\ 1 + 1 = 2
    BY <1>1, <1>8
  <2>2. Link(s, "delete", calls[1], calls[1 + 1]) /\ t[1] = calls[1 + 1]
    BY <1>3, <1>9, <2>1, Zenon DEF CallsOK
  <2> QED BY <1>7, <2>2, Zenon
<1>12. /\ t[1].call \notin {"add", "list", "deleteNs"} /\ (t[1].call = "forget" => s # "ns")
  BY <1>11 DEF Link, f
<1>13. \A c \in CallSet : c.call = "remove" => Link(s, "delete", c, t[1])
  BY <1>12 DEF Link
<1>14. /\ DOMAIN us = 1..Len(us) /\ Len(us) \in Nat
       /\ \A i \in 1..Len(us) : us[i] \in Subjects
  OBVIOUS
<1>15. \A i \in 1..Len(us) : /\ Call("remove", b, us[i]) \in CallSet
                             /\ Call("remove", b, us[i]).call = "remove"
                             /\ Call("remove", b, us[i]).role = b
  <2>1. "remove" \in CallNames
    BY DEF CallNames
  <2>2. ASSUME NEW u \in Subjects
        PROVE  /\ Call("remove", b, u) \in CallSet /\ Call("remove", b, u).call = "remove"
               /\ Call("remove", b, u).role = b
    BY <1>6, <2>1, CallFacts
  <2> QED BY <1>14, <2>2, Zenon
<1>16. x \in Seq(CallSet) /\ Len(x) = Len(us) /\ \A i \in 1..Len(us) : x[i] = Call("remove", b, us[i])
  <2>1. x \in [1..Len(us) -> CallSet]
    BY <1>14, <1>15
  <2> QED BY <1>14, <2>1
<1> HIDE DEF x
<1>17. \A i \in 1..Len(x) : x[i].call = "remove" /\ CallOK(s, "delete", x[i])
  <2>1. ASSUME NEW i \in 1..Len(x)
        PROVE  x[i].call = "remove" /\ x[i].role \in Shared
    BY <1>6, <1>15, <1>16, Zenon
  <2> QED BY <2>1 DEF CallOK
<1> HIDE DEF t
<1>18. /\ y \in Seq(CallSet) /\ Len(y) = Len(x) + Len(t) /\ Len(x) \in Nat /\ Len(t) \in Nat
       /\ \A i \in 1..Len(x) : y[i] = x[i]
       /\ \A i \in Len(x) + 1..Len(x) + Len(t) : y[i] = t[i - Len(x)]
  <2>1. x \in Seq(CallSet) /\ t \in Seq(CallSet)
    BY <1>9, <1>16, Zenon
  <2>2. Len(x) \in Nat /\ Len(t) \in Nat
    BY <2>1
  <2> QED BY <2>1, <2>2, ConcatIs, Zenon
<1>19. CallsOK(s, "delete", y)
  BY <1>9, <1>10, <1>13, <1>16, <1>17, RemovalsConcat, Zenon
<1> HIDE DEF y
<1>20. g \in GroupSet /\ g.calls = y /\ g.must
  <2>1. g \in GroupSet /\ g.calls = y /\ g.must = todo[1].must
    BY <1>1, <1>18 DEF GroupSet
  <2> QED BY <1>3, <2>1, Zenon
<1>21. new = <<g>> \o << >>
  BY <1>2, <1>5, Zenon DEF y, x, t, calls, Removing
<1>22. new = <<g>>
  <2>1. <<g>> \o << >> = <<g>>
    OBVIOUS
  <2> QED BY <1>21, <2>1, Zenon
<1> HIDE DEF g, new
<1>23. GroupOK(s, "delete", g)
  BY <1>19, <1>20, Zenon DEF GroupOK
<1>24. new \in Programs /\ ProgramOK(s, "delete", new) /\ FirstCall(new) = y[1] /\ Len(new) = 1
       /\ new[1] = g
  <2>1. <<g>>[1] = g
    OBVIOUS
  <2> QED BY <1>20, <1>22, <1>23, <2>1, OneGroupOK, Zenon
<1>25. y[1].call = "remove" \/ y[1] = t[1]
  <2>1. CASE Len(x) > 0
    <3>1. 1 \in 1..Len(x)
      BY <1>18, <2>1
    <3> QED BY <1>17, <1>18, <3>1, Zenon
  <2>2. CASE ~ (Len(x) > 0)
    <3>1. 1 \in Len(x) + 1..Len(x) + Len(t) /\ 1 - Len(x) = 1
      BY <1>8, <1>9, <1>18, <2>2, <1>1
    <3> QED BY <1>18, <3>1, Zenon
  <2> QED BY <2>1, <2>2
<1>26. y[1].call \notin {"add", "list", "deleteNs"} /\ (y[1].call = "forget" => s # "ns")
  BY <1>12, <1>25
<1>27. ASSUME NEW i \in 1..Len(y)
       PROVE  Owes(new, y[i])
  <2>1. 1 \in 1..Len(new)
    BY <1>24
  <2>2. new[1].calls = y
    BY <1>20, <1>24, Zenon
  <2> QED BY <2>1, <2>2, Zenon DEF Owes
<1>28. ASSUME NEW i \in 1..Len(us)
       PROVE  Owes(new, Call("remove", b, us[i]))
  <2>1. i \in 1..Len(x) /\ i \in 1..Len(y)
    BY <1>14, <1>16, <1>18
  <2>2. y[i] = Call("remove", b, us[i])
    BY <1>16, <1>18, <2>1, Zenon
  <2> QED BY <1>27, <2>1, <2>2, Zenon
<1>29. ASSUME NEW c, Owes(todo, c), c # f
       PROVE  Owes(new, c)
  <2>1. \A i \in 1..Len(todo) : i = 1
    BY <1>4
  <2>2. PICK i \in 1..Len(calls) : calls[i] = c
    BY <1>29, <2>1, Zenon DEF Owes, calls
  <2>3. i # 1
    BY <1>7, <1>29, <2>2, Zenon
  <2>4. /\ i - 1 \in 1..Len(calls) - 1 /\ (i - 1) + 1 = i
        /\ Len(x) + (i - 1) \in Len(x) + 1..Len(x) + Len(t)
        /\ Len(x) + (i - 1) \in 1..Len(y) /\ (Len(x) + (i - 1)) - Len(x) = i - 1
    BY <1>1, <1>9, <1>18, <2>3
  <2>5. t[i - 1] = calls[i]
    BY <1>9, <2>4, Zenon
  <2>6. y[Len(x) + (i - 1)] = t[i - 1]
    BY <1>18, <2>4, Zenon
  <2> QED BY <1>27, <2>2, <2>4, <2>5, <2>6, Zenon
<1> QED BY <1>24, <1>26, <1>28, <1>29, Zenon DEF new, f

-----------------------------------------------------------------------------
(* Every step keeps the types. *)

LEMMA SameLog ==
  ASSUME LogOK, SeenOK, log' = log, seen' = seen
  PROVE  LogOK' /\ SeenOK'
BY Zenon DEF LogOK, SeenOK

LEMMA SeenStill ==
  ASSUME SeenOK, Grows(log, log'), seen' = seen
  PROVE  SeenOK'
<1>1. /\ seen \in [Places -> [Shared -> Nat]]
      /\ \A p \in Places, b \in Shared : seen[p][b] \in 1..Len(log[p][b])
  BY Zenon DEF SeenOK
<1>2. Shared \subseteq Roles
  BY DEF Shared, Roles
<1>3. ASSUME NEW p \in Places, NEW b \in Shared
      PROVE  seen[p][b] \in 1..Len(log'[p][b])
  <2>1. Len(log[p][b]) \in Nat /\ Len(log'[p][b]) \in Nat /\ Len(log[p][b]) <= Len(log'[p][b])
    BY <1>2 DEF Grows
  <2>2. seen[p][b] \in 1..Len(log[p][b])
    BY <1>1, Zenon
  <2> QED BY <2>1, <2>2
<1> QED BY <1>1, <1>3, Zenon DEF SeenOK

(* Steps that leave the bindings alone, and what the request has read. *)
LEMMA MovedOn ==
  ASSUME Types, NEW r \in Requests, NEW n \in ReqSet, n.got = NoRead,
         RequestOK(scope, made, n), req' = [req EXCEPT ![r] = n],
         scope' = scope, made' = made, log' = log, seen' = seen, WorldOK', HistoryOK'
  PROVE  Types'
<1>1. LogOK' /\ SeenOK' /\ Grows(log, log')
  BY SameLog, GrowsSame, Zenon DEF Types
<1>2. made \in Nat /\ made <= made'
  <2>1. made \in Nat
    BY NumbersAre, Zenon DEF Types
  <2> QED BY <2>1
<1>3. Turns(r, n)
  BY TurnsAlone, Zenon DEF Types
<1>4. GotOK(log', n)
  BY NothingRead, Zenon
<1>5. ReqOK' /\ GotsOK'
  BY <1>1, <1>2, <1>3, <1>4, TurnKeeps
<1> QED BY <1>1, <1>5, Zenon DEF Types

LEMMA ContinueTypes ==
  ASSUME Types, NEW r \in Requests, req[r].op # "none", Here(r).call # "createNs", Continue(r),
         scope' = scope, made' = made, log' = log, seen' = seen, WorldOK', HistoryOK'
  PROVE  Types'
<1> DEFINE n == With(req[r], AfterCall(req[r].todo))
<1>1. /\ Went(scope, req[r], n) /\ n \in ReqSet /\ RequestOK(scope, made, n)
      /\ req' = [req EXCEPT ![r] = n]
  BY ContinueOK, Zenon DEF Types
<1>2. n.got = NoRead
  BY <1>1, Zenon DEF Went
<1> HIDE DEF n
<1> QED BY <1>1, <1>2, MovedOn

LEMMA GiveUpTypes ==
  ASSUME Types, NEW r \in Requests, req[r].op # "none", GiveUp(r),
         scope' = scope, made' = made, log' = log, seen' = seen, WorldOK', HistoryOK'
  PROVE  Types'
<1> DEFINE n == With(req[r], AfterFailure(req[r].todo))
<1>1. /\ Left(req[r], n) /\ n \in ReqSet /\ RequestOK(scope, made, n)
      /\ req' = [req EXCEPT ![r] = n]
  BY GiveUpOK, Zenon DEF Types
<1>2. n.got = NoRead
  BY <1>1, Zenon DEF Left
<1> HIDE DEF n
<1> QED BY <1>1, <1>2, MovedOn

LEMMA WorldSame ==
  ASSUME WorldOK, UNCHANGED world, leaked' = leaked
  PROVE  /\ WorldOK' /\ scope' = scope /\ made' = made /\ log' = log /\ seen' = seen
         /\ spaces' = spaces /\ ns' = ns /\ cached' = cached /\ name' = name
<1>1. /\ scope' = scope /\ made' = made /\ log' = log /\ seen' = seen
      /\ spaces' = spaces /\ ns' = ns /\ cached' = cached /\ name' = name
  BY Zenon DEF world
<1> QED BY <1>1, Zenon DEF WorldOK

LEMMA HistorySame ==
  ASSUME HistoryOK, UNCHANGED history
  PROVE  /\ leaked' = leaked /\ spoiled' = spoiled /\ killed' = killed /\ stayed' = stayed
         /\ events' = events => HistoryOK'
         /\ events < MaxEvents /\ events' = events + 1 => HistoryOK'
<1>1. leaked' = leaked /\ spoiled' = spoiled /\ killed' = killed /\ stayed' = stayed
  BY Zenon DEF history
<1>2. MaxEvents \in Nat
  BY DevSpaceAssumption
<1>3. \A e \in 0..MaxEvents : e < MaxEvents => e + 1 \in 0..MaxEvents
  BY <1>2
<1> QED BY <1>1, <1>3, Zenon DEF HistoryOK

LEMMA AtIs ==
  ASSUME Types, NEW r \in Requests, NEW call, At(r, call)
  PROVE  /\ req[r].op # "none" /\ Here(r).call = call
         /\ ReqOK /\ WorldOK /\ HistoryOK /\ LogOK /\ SeenOK
         /\ CallOK(scope, req[r].op, Here(r))
         /\ call # "createNs" /\ scope = "ns" => req[r].at \in 1..made
         /\ call # "createNs" /\ req[r].at # 0 => req[r].at \in 1..made
         /\ call \in {"add", "list", "deleteNs"} =>
              req[r].at = PlaceIn(scope, req[r].id) /\ req[r].id \in 1..made
         /\ req[r].op # "create" => req[r].id \in 1..made
         /\ scope = "cluster" => req[r].at = 0
<1>1. req[r].op # "none" /\ Here(r).call = call
  BY Zenon DEF At
<1>2. ReqOK /\ WorldOK /\ HistoryOK /\ LogOK /\ SeenOK
  BY Zenon DEF Types
<1>3. /\ RequestOK(scope, made, req[r]) /\ Here(r) = FirstCall(req[r].todo)
      /\ CallOK(scope, req[r].op, Here(r))
  BY <1>1, <1>2, ActiveIs, Zenon
<1>4. /\ call # "createNs" /\ scope = "ns" => req[r].at \in 1..made
      /\ call \in {"add", "list", "deleteNs"} =>
           req[r].at = PlaceIn(scope, req[r].id) /\ req[r].id \in 1..made
      /\ req[r].op # "create" => req[r].id \in 1..made
      /\ scope = "cluster" => req[r].at = 0
  BY <1>1, <1>3, Zenon DEF RequestOK
<1>5. scope = "ns" \/ scope = "cluster"
  BY <1>2 DEF WorldOK
<1> QED BY <1>1, <1>2, <1>3, <1>4, <1>5, Zenon

LEMMA AsksTypes ==
  ASSUME Types, NEW r \in Requests, Asks(r)
  PROVE  Types'
<1>1. WorldOK /\ HistoryOK
  BY Zenon DEF Types
<1>2. Quiet /\ events < MaxEvents /\ events' = events + 1
  BY <1>1, AsksOK, Zenon
<1>3. PICK n : Begins(scope, made, n) /\ req' = [req EXCEPT ![r] = n]
  BY <1>1, AsksOK, Zenon
<1>4. HistoryOK' /\ leaked' = leaked /\ UNCHANGED world
  BY <1>1, <1>2, HistorySame, Zenon DEF Quiet
<1>5. WorldOK' /\ scope' = scope /\ made' = made /\ log' = log /\ seen' = seen
  BY <1>1, <1>4, WorldSame, Zenon
<1>6. n \in ReqSet /\ n.got = NoRead /\ RequestOK(scope, made, n)
  BY <1>3, Zenon DEF Begins
<1> QED BY <1>3, <1>4, <1>5, <1>6, MovedOn

LEMMA RecordsTypes ==
  ASSUME Types, NEW r \in Requests, Add(r) \/ Forget(r) \/ Evict(r) \/ ForgetFails(r)
  PROVE  Types'
<1>1. WorldOK /\ HistoryOK
  BY Zenon DEF Types
<1>2. ASSUME UNCHANGED <<scope, name, made, ns, log, seen>>, UNCHANGED history,
             spaces' \subseteq 1..made, cached' \subseteq 1..made
      PROVE  /\ WorldOK' /\ scope' = scope /\ made' = made /\ log' = log /\ seen' = seen
  <2>1. leaked' = leaked
    BY <1>1, <1>2, HistorySame, Zenon
  <2> QED BY <1>1, <1>2, <2>1 DEF WorldOK
<1>3. spaces \subseteq 1..made /\ cached \subseteq 1..made
  BY <1>1 DEF WorldOK
<1>4. CASE Add(r)
  <2>1. /\ At(r, "add") /\ cached' = cached \cup {req[r].id} /\ Continue(r) /\ spaces' = spaces
        /\ UNCHANGED <<scope, name, made, ns, log, seen>> /\ events' = events
        /\ UNCHANGED history
    BY <1>4, Zenon DEF Add
  <2>2. req[r].op # "none" /\ Here(r).call = "add" /\ req[r].id \in 1..made
    <3>1. "add" \in {"add", "list", "deleteNs"}
      OBVIOUS
    <3> QED BY <2>1, <3>1, AtIs, Zenon
  <2>3. cached' \subseteq 1..made /\ spaces' \subseteq 1..made /\ Here(r).call # "createNs"
    BY <1>3, <2>1, <2>2
  <2>4. HistoryOK'
    BY <1>1, <2>1, HistorySame, Zenon
  <2> QED BY <1>2, <2>1, <2>2, <2>3, <2>4, ContinueTypes
<1>5. CASE Forget(r)
  <2>1. /\ At(r, "forget") /\ spaces' = spaces \ {req[r].id} /\ Continue(r) /\ cached' = cached
        /\ UNCHANGED <<scope, name, made, ns, log, seen>> /\ events' = events
        /\ UNCHANGED history
    BY <1>5, Zenon DEF Forget
  <2>2. req[r].op # "none" /\ Here(r).call = "forget"
    BY <2>1, AtIs, Zenon
  <2>3. cached' \subseteq 1..made /\ spaces' \subseteq 1..made /\ Here(r).call # "createNs"
    BY <1>3, <2>1, <2>2
  <2>4. HistoryOK'
    BY <1>1, <2>1, HistorySame, Zenon
  <2> QED BY <1>2, <2>1, <2>2, <2>3, <2>4, ContinueTypes
<1>6. CASE Evict(r)
  <2>1. /\ At(r, "evict") /\ cached' = cached \ {req[r].id} /\ Continue(r) /\ spaces' = spaces
        /\ UNCHANGED <<scope, name, made, ns, log, seen>> /\ events' = events
        /\ UNCHANGED history
    BY <1>6, Zenon DEF Evict
  <2>2. req[r].op # "none" /\ Here(r).call = "evict"
    BY <2>1, AtIs, Zenon
  <2>3. cached' \subseteq 1..made /\ spaces' \subseteq 1..made /\ Here(r).call # "createNs"
    BY <1>3, <2>1, <2>2
  <2>4. HistoryOK'
    BY <1>1, <2>1, HistorySame, Zenon
  <2> QED BY <1>2, <2>1, <2>2, <2>3, <2>4, ContinueTypes
<1>7. CASE ForgetFails(r)
  <2>1. /\ At(r, "forget") /\ cached' = cached \ {req[r].id} /\ GiveUp(r) /\ spaces' = spaces
        /\ UNCHANGED <<scope, name, made, ns, log, seen>> /\ events < MaxEvents
        /\ events' = events + 1 /\ UNCHANGED history
    BY <1>7, Zenon DEF ForgetFails
  <2>2. req[r].op # "none"
    BY <2>1, AtIs, Zenon
  <2>3. cached' \subseteq 1..made /\ spaces' \subseteq 1..made
    BY <1>3, <2>1
  <2>4. HistoryOK'
    BY <1>1, <2>1, HistorySame, Zenon
  <2> QED BY <1>2, <2>1, <2>2, <2>3, <2>4, GiveUpTypes
<1> QED BY <1>4, <1>5, <1>6, <1>7

LEMMA ChecksTypes ==
  ASSUME Types, NEW r \in Requests, Check(r) \/ CheckName(r)
  PROVE  Types'
<1>1. WorldOK /\ HistoryOK
  BY Zenon DEF Types
<1>2. /\ At(r, "check") \/ At(r, "checkName")
      /\ UNCHANGED <<world, events, history>>
  BY Zenon DEF Check, CheckName
<1>3. Continue(r) \/ GiveUp(r)
  BY Zenon DEF Check, CheckName
<1>4. req[r].op # "none" /\ Here(r).call \in {"check", "checkName"}
  BY <1>2, AtIs
<1>5. UNCHANGED world /\ events' = events /\ UNCHANGED history
  BY <1>2, Zenon
<1>6. HistoryOK' /\ leaked' = leaked
  BY <1>1, <1>5, HistorySame, Zenon
<1>7. WorldOK' /\ scope' = scope /\ made' = made /\ log' = log /\ seen' = seen
  BY <1>1, <1>5, <1>6, WorldSame, Zenon
<1>8. CASE Continue(r)
  <2>1. Here(r).call # "createNs"
    BY <1>4
  <2> QED BY <1>4, <1>6, <1>7, <1>8, <2>1, ContinueTypes
<1>9. CASE GiveUp(r)
  BY <1>4, <1>6, <1>7, <1>9, GiveUpTypes
<1> QED BY <1>3, <1>8, <1>9

(* The place of a request that has created something. *)
LEMMA PlacedIs ==
  ASSUME NEW q \in ReqSet, NEW p \in Places
  PROVE  /\ [q EXCEPT !.at = p] \in ReqSet
         /\ [q EXCEPT !.at = p].op = q.op /\ [q EXCEPT !.at = p].id = q.id
         /\ [q EXCEPT !.at = p].at = p /\ [q EXCEPT !.at = p].todo = q.todo
         /\ [q EXCEPT !.at = p].got = q.got /\ [q EXCEPT !.at = p].crossed = q.crossed
BY DEF ReqSet

(* What Insert does to its request. *)
LEMMA InsertIs ==
  ASSUME Types, NEW r \in Requests, Insert(r)
  PROVE  \E new \in 1..made', m \in ReqSet, n \in ReqSet :
           /\ new = (IF scope = "cluster" THEN made + 1 ELSE req[r].at)
           /\ new \in Ids /\ made' \in 0..MaxSpaces /\ made <= made' /\ (scope = "ns" => made' = made)
           /\ Went(scope, req[r], m) /\ RequestOK(scope, made, m)
           /\ n.op = m.op /\ n.id = m.id /\ n.todo = m.todo /\ n.got = NoRead
           /\ n.crossed = m.crossed /\ (m.op # "none" => n.at = m.at)
           /\ req' = [req EXCEPT ![r] = n]
           /\ spaces' = spaces \cup {new}
<1> DEFINE new == IF scope = "cluster" THEN made + 1 ELSE req[r].at
           m == With(req[r], AfterCall(req[r].todo))
           p == Place(new)
           n == [m EXCEPT !.at = p]
<1>1. /\ At(r, "insert") /\ new <= MaxSpaces
      /\ made' = (IF scope = "cluster" THEN new ELSE made)
      /\ spaces' = spaces \cup {new}
      /\ req' = [req EXCEPT ![r] = n]
  BY DEF Insert
<1>2. "insert" # "createNs"
  OBVIOUS
<1>3. /\ req[r].op # "none" /\ Here(r).call # "createNs" /\ WorldOK /\ ReqOK
      /\ scope = "ns" => req[r].at \in 1..made
      /\ scope = "cluster" => req[r].at = 0
  BY <1>1, <1>2, AtIs, Zenon
<1>4. Went(scope, req[r], m) /\ m \in ReqSet /\ RequestOK(scope, made, m)
  BY <1>3, ContinueOK, Zenon
<1>5. m.got = NoRead /\ (m.op # "none" => m.at = req[r].at)
  BY <1>4, Zenon DEF Went
<1> HIDE DEF m
<1>6. scope \in {"ns", "cluster"} /\ made \in 0..MaxSpaces /\ MaxSpaces \in Nat
  BY <1>3, NumbersAre DEF WorldOK
<1>7. /\ new \in 1..made' /\ new \in Ids /\ made' \in 0..MaxSpaces /\ made <= made'
      /\ scope = "ns" => made' = made
  <2>1. CASE scope = "cluster"
    BY <1>1, <1>6, <2>1 DEF Ids
  <2>2. CASE scope = "ns"
    BY <1>1, <1>3, <1>6, <2>2 DEF Ids
  <2> QED BY <1>6, <2>1, <2>2
<1>8. p \in Places /\ p = req[r].at
  <2>1. CASE scope = "cluster"
    BY <1>3, <1>6, <2>1 DEF Place, Places
  <2>2. CASE scope = "ns"
    BY <1>3, <1>6, <2>2 DEF Place, Places
  <2> QED BY <1>6, <2>1, <2>2
<1> HIDE DEF p, new
<1>9. /\ n \in ReqSet /\ n.op = m.op /\ n.id = m.id /\ n.at = p /\ n.todo = m.todo
      /\ n.got = m.got /\ n.crossed = m.crossed
  BY <1>4, <1>8, PlacedIs
<1> HIDE DEF n
<1>10. n.got = NoRead /\ (m.op # "none" => n.at = m.at)
  BY <1>5, <1>8, <1>9, Zenon
<1>11. new = (IF scope = "cluster" THEN made + 1 ELSE req[r].at)
  BY DEF new
<1> QED BY <1>1, <1>4, <1>7, <1>9, <1>10, <1>11, Zenon

LEMMA InsertTypes ==
  ASSUME Types, NEW r \in Requests, Insert(r)
  PROVE  Types'
<1>1. PICK new \in 1..made', m \in ReqSet, n \in ReqSet :
           /\ new = (IF scope = "cluster" THEN made + 1 ELSE req[r].at)
           /\ new \in Ids /\ made' \in 0..MaxSpaces /\ made <= made' /\ (scope = "ns" => made' = made)
           /\ Went(scope, req[r], m) /\ RequestOK(scope, made, m)
           /\ n.op = m.op /\ n.id = m.id /\ n.todo = m.todo /\ n.got = NoRead
           /\ n.crossed = m.crossed /\ (m.op # "none" => n.at = m.at)
           /\ req' = [req EXCEPT ![r] = n]
           /\ spaces' = spaces \cup {new}
  BY InsertIs, Zenon
<1>2. WorldOK /\ HistoryOK /\ LogOK /\ SeenOK /\ ReqOK
  BY Zenon DEF Types
<1>3. /\ scope' = scope /\ cached' = cached /\ ns' = ns /\ log' = log /\ seen' = seen
      /\ events' = events /\ UNCHANGED history
  BY Zenon DEF Insert
<1>4. HistoryOK' /\ leaked' = leaked
  BY <1>2, <1>3, HistorySame, Zenon
<1>5. made \in Nat /\ made' \in Nat
  <2>1. made \in Nat /\ MaxSpaces \in Nat
    BY <1>2, NumbersAre
  <2> QED BY <1>1, <2>1
<1>6. name' \in [Ids -> Places]
  <2>1. name \in [Ids -> Places] /\ 1..made \subseteq Ids /\ Ids \subseteq Places
    BY <1>2, NumbersAre DEF WorldOK
  <2>2. name' = [name EXCEPT ![new] = IF req[r].op = "recreate" THEN name[req[r].id] ELSE new]
    BY <1>1, Zenon DEF Insert
  <2>3. req[r].op = "recreate" => req[r].id \in 1..made
    <3>1. At(r, "insert")
      BY Zenon DEF Insert
    <3>2. req[r].op # "create" => req[r].id \in 1..made
      BY <3>1, AtIs, Zenon
    <3> QED BY <3>2
  <2>4. (IF req[r].op = "recreate" THEN name[req[r].id] ELSE new) \in Places
    BY <1>1, <2>1, <2>3
  <2> QED BY <2>1, <2>2, <2>4
<1>7. WorldOK'
  <2>1. 1..made \subseteq 1..made'
    BY <1>1, <1>5
  <2>2. /\ scope \in {"ns", "cluster"} /\ spaces \subseteq 1..made /\ cached \subseteq 1..made
        /\ leaked \subseteq Ids /\ ns \in [Places -> {"none", "live", "terminating"}]
    BY <1>2, Zenon DEF WorldOK
  <2>3. spaces' \subseteq 1..made' /\ cached' \subseteq 1..made'
    BY <1>1, <1>3, <2>1, <2>2
  <2> QED BY <1>1, <1>3, <1>4, <1>6, <2>2, <2>3, Zenon DEF WorldOK
<1>8. LogOK' /\ SeenOK' /\ Grows(log, log')
  BY <1>2, <1>3, SameLog, GrowsSame, Zenon
<1>9. Turns(r, n)
  BY <1>1, <1>2, TurnsAlone, Zenon
<1>10. RequestOK(scope, made', n)
  <2>1. CASE m.op = "none"
    BY <1>1, <2>1, Zenon DEF RequestOK
  <2>2. CASE m.op # "none"
    <3>1. n.at = m.at
      BY <1>1, <2>2, Zenon
    <3>2. m.got = NoRead
      BY <1>1, Zenon DEF Went
    <3>3. Aside(m, n)
      BY <1>1, <3>1, <3>2 DEF Aside
    <3> QED BY <1>1, <1>5, <3>3, RequestOKLater
  <2> QED BY <2>1, <2>2
<1>11. GotOK(log', n)
  BY <1>1, NothingRead, Zenon
<1>12. ReqOK' /\ GotsOK'
  BY <1>1, <1>3, <1>5, <1>8, <1>9, <1>10, <1>11, TurnKeeps
<1> QED BY <1>4, <1>7, <1>8, <1>12, Zenon DEF Types

(* What CreateNs does to its request: the record is inserted next. *)
LEMMA CreateNsIs ==
  ASSUME Types, NEW r \in Requests, CreateNs(r)
  PROVE  /\ scope = "ns" /\ made' = made + 1 /\ made + 1 \in Ids /\ made \in Nat
         /\ ns' = [ns EXCEPT ![made + 1] = "live"]
         /\ \E n \in ReqSet :
              /\ n.op = req[r].op /\ n.op # "none" /\ n.id = req[r].id /\ n.at = made + 1
              /\ n.got = NoRead /\ FirstCall(n.todo).call = "insert"
              /\ RequestOK(scope, made', n) /\ req' = [req EXCEPT ![r] = n]
<1> DEFINE todo == req[r].todo
           next == AfterCall(todo)
           m == With(req[r], next)
           n == [m EXCEPT !.at = made + 1]
<1>1. /\ At(r, "createNs") /\ made < MaxSpaces /\ made' = made + 1
      /\ ns' = [ns EXCEPT ![made + 1] = "live"] /\ req' = [req EXCEPT ![r] = n]
  BY Zenon DEF CreateNs
<1>2. /\ req[r].op # "none" /\ Here(r).call = "createNs" /\ WorldOK /\ ReqOK
      /\ CallOK(scope, req[r].op, Here(r))
      /\ req[r].op # "create" => req[r].id \in 1..made
  BY <1>1, AtIs, Zenon
<1>3. scope = "ns" /\ scope # "cluster"
  BY <1>2 DEF CallOK, WorldOK
<1>4. made \in Nat /\ made + 1 \in Ids /\ made + 1 \in Places /\ made + 1 \in 1..made + 1
      /\ \A i \in 1..made : i \in 1..made + 1
  <2>1. made \in Nat /\ MaxSpaces \in Nat
    BY <1>2, NumbersAre
  <2> QED BY <1>1, <2>1 DEF Ids, Places
<1>5. /\ req[r] \in ReqSet /\ Here(r) = FirstCall(todo) /\ todo \in Programs
      /\ ProgramOK(scope, req[r].op, todo) /\ RequestOK(scope, made, req[r])
  BY <1>2, ActiveIs, Zenon
<1>6. /\ next \in Programs
      /\ next = << >> => EndOK(FirstCall(todo))
      /\ next # << >> =>
           /\ ProgramOK(scope, req[r].op, next)
           /\ \/ Link(scope, req[r].op, FirstCall(todo), FirstCall(next))
              \/ EndOK(FirstCall(todo)) /\ StartOK(req[r].op, todo[1], FirstCall(next))
  BY <1>5, AfterCallOK, Zenon
<1>7. ~ EndOK(FirstCall(todo))
  BY <1>2, <1>5 DEF EndOK
<1>8. /\ next # << >> /\ ProgramOK(scope, req[r].op, next)
      /\ FirstCall(next).call = "insert"
  BY <1>2, <1>5, <1>6, <1>7, Zenon DEF Link
<1> HIDE DEF next
<1>9. /\ m \in ReqSet /\ m.got = NoRead /\ m.op = req[r].op /\ m.id = req[r].id /\ m.todo = next
  BY <1>5, <1>6, <1>8, WithIs, Zenon
<1> HIDE DEF m
<1>10. /\ n \in ReqSet /\ n.op = m.op /\ n.id = m.id /\ n.at = made + 1 /\ n.todo = m.todo
       /\ n.got = m.got
  BY <1>4, <1>9, PlacedIs, Zenon
<1> HIDE DEF n
<1>11. FirstCall(n.todo).call = "insert" /\ FirstCall(n.todo).call \notin {"add", "list", "deleteNs"}
  BY <1>8, <1>9, <1>10
<1>12. RequestOK(scope, made', n)
  <2>1. n.at \in 1..made'
    BY <1>1, <1>4, <1>10
  <2>2. n.op # "create" => n.id \in 1..made'
    BY <1>1, <1>2, <1>4, <1>9, <1>10, Zenon
  <2>3. ProgramOK(scope, n.op, n.todo)
    BY <1>8, <1>9, <1>10, Zenon
  <2> QED BY <1>3, <1>11, <2>1, <2>2, <2>3, Zenon DEF RequestOK
<1> QED BY <1>1, <1>2, <1>3, <1>4, <1>9, <1>10, <1>11, <1>12, Zenon

LEMMA CreateNsTypes ==
  ASSUME Types, NEW r \in Requests, CreateNs(r)
  PROVE  Types'
<1>1. /\ scope = "ns" /\ made' = made + 1 /\ made + 1 \in Ids /\ made \in Nat
      /\ ns' = [ns EXCEPT ![made + 1] = "live"]
  BY CreateNsIs, Zenon
<1>2. PICK n \in ReqSet :
              /\ n.op = req[r].op /\ n.op # "none" /\ n.id = req[r].id /\ n.at = made + 1
              /\ n.got = NoRead /\ FirstCall(n.todo).call = "insert"
              /\ RequestOK(scope, made', n) /\ req' = [req EXCEPT ![r] = n]
  BY CreateNsIs, Zenon
<1>3. WorldOK /\ HistoryOK /\ LogOK /\ SeenOK /\ ReqOK
  BY Zenon DEF Types
<1>4. /\ scope' = scope /\ spaces' = spaces /\ name' = name /\ cached' = cached
      /\ log' = log /\ seen' = seen /\ events' = events /\ UNCHANGED history
  BY Zenon DEF CreateNs
<1>5. HistoryOK' /\ leaked' = leaked
  BY <1>3, <1>4, HistorySame, Zenon
<1>6. WorldOK'
  <2>1. MaxSpaces \in Nat /\ Ids \subseteq Places
    BY <1>3, NumbersAre
  <2>2. 1..made \subseteq 1..made' /\ made' \in 0..MaxSpaces
    BY <1>1, <2>1 DEF Ids
  <2>3. ns' \in [Places -> {"none", "live", "terminating"}]
    BY <1>1, <1>3, <2>1 DEF WorldOK
  <2> QED BY <1>3, <1>4, <1>5, <2>2, <2>3 DEF WorldOK
<1>7. LogOK' /\ SeenOK' /\ Grows(log, log')
  BY <1>3, <1>4, SameLog, GrowsSame, Zenon
<1>8. Turns(r, n)
  BY <1>2, <1>3, TurnsAlone, Zenon
<1>9. GotOK(log', n)
  BY <1>2, NothingRead, Zenon
<1>10. made' \in Nat /\ made <= made'
  BY <1>1
<1>11. ReqOK' /\ GotsOK'
  BY <1>2, <1>4, <1>7, <1>8, <1>9, <1>10, TurnKeeps
<1> QED BY <1>5, <1>6, <1>7, <1>11, Zenon DEF Types

LEMMA NamespaceTypes ==
  ASSUME Types, NEW r \in Requests, CreateNamespaceINE(r) \/ DeleteNs(r)
  PROVE  Types'
<1>1. WorldOK /\ HistoryOK
  BY Zenon DEF Types
<1>2. /\ Continue(r) /\ scope' = scope /\ spaces' = spaces /\ name' = name /\ made' = made
      /\ cached' = cached /\ log' = log /\ seen' = seen /\ events' = events
      /\ spoiled' = spoiled /\ killed' = killed /\ stayed' = stayed
  BY Zenon DEF CreateNamespaceINE, DeleteNs, history
<1>3. At(r, "namespace") \/ At(r, "deleteNs")
  BY Zenon DEF CreateNamespaceINE, DeleteNs
<1>4. "namespace" # "createNs" /\ "deleteNs" # "createNs"
  OBVIOUS
<1>5. /\ req[r].op # "none" /\ Here(r).call # "createNs" /\ CallOK(scope, req[r].op, Here(r))
      /\ scope = "ns" => req[r].at \in 1..made
  BY <1>3, <1>4, AtIs, Zenon
<1>6. Here(r).call \in {"namespace", "deleteNs"}
  BY <1>3, AtIs
<1>7. req[r].at \in 1..made
  <2>1. scope = "ns"
    BY <1>1, <1>5, <1>6 DEF CallOK, WorldOK
  <2> QED BY <1>5, <2>1
<1>8. HistoryOK'
  BY <1>1, <1>2, Zenon DEF HistoryOK
<1>9. WorldOK'
  <2>1. req[r].at \in Ids /\ req[r].at \in Places
    BY <1>1, <1>7, NumbersAre
  <2>2. ns \in [Places -> {"none", "live", "terminating"}] /\ leaked \subseteq Ids
    BY <1>1 DEF WorldOK
  <2>3. /\ ns' = ns \/ ns' = [ns EXCEPT ![req[r].at] = "live"]
                    \/ ns' = [ns EXCEPT ![req[r].at] = IF @ = "live" THEN "terminating" ELSE @]
        /\ leaked' = leaked \/ leaked' = leaked \cup {req[r].at}
    BY DEF CreateNamespaceINE, DeleteNs, history
  <2>4. ns' \in [Places -> {"none", "live", "terminating"}] /\ leaked' \subseteq Ids
    BY <2>1, <2>2, <2>3
  <2> QED BY <1>1, <1>2, <2>4, Zenon DEF WorldOK
<1> QED BY <1>2, <1>5, <1>8, <1>9, ContinueTypes

LEMMA CachedIs ==
  ASSUME LogOK, SeenOK, NEW p \in Places, NEW b \in Shared
  PROVE  Cached(p, b) \in SUBSET Subjects /\ IsFiniteSet(Cached(p, b))
<1>1. b \in Roles
  BY DEF Shared, Roles
<1>2. seen[p][b] \in 1..Len(log[p][b])
  BY DEF SeenOK
<1>3. log[p][b][seen[p][b]] \in Bindings
  BY <1>1, <1>2, NowIs, Zenon
<1>4. Cached(p, b) \in SUBSET Subjects
  BY <1>3 DEF Cached, Bindings
<1>5. IsFiniteSet(Subjects)
  <2>1. IsFiniteSet(Users) /\ IsFiniteSet({Owner, Default})
    <3>1. IsFiniteSet({Owner}) /\ IsFiniteSet({Default})
      BY FS_Singleton
    <3>2. {Owner, Default} = {Owner} \cup {Default}
      OBVIOUS
    <3>3. IsFiniteSet({Owner} \cup {Default})
      BY <3>1, FS_Union, Zenon
    <3> QED BY <3>2, <3>3, DevSpaceAssumption, Zenon
  <2> QED BY <2>1, FS_Union DEF Subjects
<1> QED BY <1>4, <1>5, FS_Subset

(* What List does to its request. *)
LEMMA ListIs ==
  ASSUME Types, NEW r \in Requests, List(r)
  PROVE  /\ req[r].op = "recreate" /\ Here(r).call = "list" /\ scope = "ns"
         /\ \E n \in ReqSet :
              /\ n.got = NoRead /\ RequestOK(scope, made, n) /\ req' = [req EXCEPT ![r] = n]
              /\ \/ n = Idle
                 \/ /\ n.op = req[r].op /\ n.id = req[r].id /\ n.at = req[r].at
                    /\ FirstCall(n.todo).call = "deleteNs"
<1>1. At(r, "list")
  BY Zenon DEF List
<1>2. "list" \in {"add", "list", "deleteNs"} /\ "list" # "createNs"
  OBVIOUS
<1>3. /\ req[r].op # "none" /\ Here(r).call = "list" /\ WorldOK /\ ReqOK /\ LogOK /\ SeenOK
      /\ CallOK(scope, req[r].op, Here(r))
      /\ scope = "ns" => req[r].at \in 1..made
      /\ req[r].at = PlaceIn(scope, req[r].id) /\ req[r].id \in 1..made
  <2>1. WorldOK /\ ReqOK /\ LogOK /\ SeenOK
    BY Zenon DEF Types
  <2>2. /\ req[r].op # "none" /\ Here(r).call = "list" /\ CallOK(scope, req[r].op, Here(r))
        /\ scope = "ns" => req[r].at \in 1..made
    BY <1>1, <1>2, AtIs, Zenon
  <2>3. req[r].at = PlaceIn(scope, req[r].id) /\ req[r].id \in 1..made
    BY <1>1, <1>2, AtIs, Zenon
  <2> QED BY <2>1, <2>2, <2>3, Zenon
<1>4. scope = "ns" /\ req[r].op = "recreate" /\ scope # "cluster"
  BY <1>3 DEF CallOK, WorldOK
<1>5. /\ req[r] \in ReqSet /\ Here(r) = FirstCall(req[r].todo) /\ req[r].at \in Places
  BY <1>3, ActiveIs, Zenon
<1>6. req[r].got = NoRead
  <2>1. FirstCall(req[r].todo).call \notin {"append", "remove", "unauthorize"}
    BY <1>3, <1>5
  <2>2. GotOK(log, req[r])
    BY Zenon DEF Types, GotsOK
  <2> QED BY <1>3, <2>1, <2>2, Zenon DEF GotOK
<1>7. PICK viewers \in SetToSeqs(Cached(req[r].at, "view")),
           coopers \in SetToSeqs(Cached(req[r].at, "coop")) :
             \/ req' = [req EXCEPT ![r] = [req[r] EXCEPT !.todo = ReCreateProgram(viewers, coopers)]]
             \/ req' = [req EXCEPT ![r] = Idle]
  BY Zenon DEF List
<1>8. /\ viewers \in Seq(Subjects) /\ coopers \in Seq(Subjects)
  <2>1. "view" \in Shared /\ "coop" \in Shared
    BY DEF Shared
  <2>2. /\ Cached(req[r].at, "view") \in SUBSET Subjects /\ IsFiniteSet(Cached(req[r].at, "view"))
        /\ Cached(req[r].at, "coop") \in SUBSET Subjects /\ IsFiniteSet(Cached(req[r].at, "coop"))
    BY <1>3, <1>5, <2>1, CachedIs, Zenon
  <2>3. viewers \in Seq(Cached(req[r].at, "view")) /\ coopers \in Seq(Cached(req[r].at, "coop"))
    BY <2>2, ListsAll, Zenon
  <2>4. \A S \in SUBSET Subjects : Seq(S) \subseteq Seq(Subjects)
    OBVIOUS
  <2> QED BY <2>2, <2>3, <2>4, Zenon
<1> DEFINE todo == ReCreateProgram(viewers, coopers)
           q == [req[r] EXCEPT !.todo = todo]
<1>9. Begun(scope, "recreate", todo) /\ FirstCall(todo).call = "deleteNs"
  BY <1>4, <1>8, ReCreateBegun, Zenon
<1>10. todo \in Programs /\ ProgramOK(scope, "recreate", todo)
  BY <1>9, Zenon DEF Begun
<1> HIDE DEF todo
<1>11. /\ q \in ReqSet /\ q.op = req[r].op /\ q.id = req[r].id /\ q.at = req[r].at
       /\ q.todo = todo /\ q.got = req[r].got
  BY <1>5, <1>10 DEF ReqSet
<1> HIDE DEF q
<1>12. RequestOK(scope, made, q)
  BY <1>3, <1>4, <1>10, <1>11, Zenon DEF RequestOK
<1>13. Idle \in ReqSet /\ Idle.got = NoRead /\ RequestOK(scope, made, Idle)
  BY IdleIs, Zenon DEF RequestOK
<1>14. CASE req' = [req EXCEPT ![r] = Idle]
  BY <1>3, <1>4, <1>13, <1>14, Zenon
<1>15. CASE req' = [req EXCEPT ![r] = q]
  BY <1>3, <1>4, <1>6, <1>9, <1>11, <1>12, <1>15, Zenon
<1> QED BY <1>7, <1>14, <1>15, Zenon DEF q, todo

LEMMA ListTypes ==
  ASSUME Types, NEW r \in Requests, List(r)
  PROVE  Types'
<1>1. PICK n \in ReqSet : /\ n.got = NoRead /\ RequestOK(scope, made, n)
                          /\ req' = [req EXCEPT ![r] = n]
  BY ListIs, Zenon
<1>2. WorldOK /\ HistoryOK /\ UNCHANGED world /\ events' = events /\ UNCHANGED history
  BY Zenon DEF Types, List
<1>3. HistoryOK' /\ leaked' = leaked
  BY <1>2, HistorySame, Zenon
<1>4. WorldOK' /\ scope' = scope /\ made' = made /\ log' = log /\ seen' = seen
  BY <1>2, <1>3, WorldSame, Zenon
<1> QED BY <1>1, <1>3, <1>4, MovedOn

(* What RemoveAll does to its request. *)
LEMMA RemoveAllIs ==
  ASSUME Types, NEW r \in Requests, RemoveAll(r)
  PROVE  /\ req[r].op = "delete" /\ Here(r).call = "removeAll" /\ Here(r).role \in Shared
         /\ \E n \in ReqSet :
              /\ n.got = NoRead /\ RequestOK(scope, made, n) /\ req' = [req EXCEPT ![r] = n]
              /\ n.op = req[r].op /\ n.id = req[r].id /\ n.at = req[r].at
              /\ FirstCall(n.todo).call = "forget" => scope # "ns"
              /\ \A u \in Cached(req[r].at, Here(r).role) :
                   Owes(n.todo, Call("remove", Here(r).role, u))
              /\ \A c : Owes(req[r].todo, c) /\ c # Here(r) => Owes(n.todo, c)
<1> DEFINE todo == req[r].todo
           b == Here(r).role
<1>1. At(r, "removeAll")
  BY Zenon DEF RemoveAll
<1>2. "removeAll" # "createNs"
  OBVIOUS
<1>3. /\ req[r].op # "none" /\ Here(r).call = "removeAll" /\ WorldOK /\ ReqOK /\ LogOK /\ SeenOK
      /\ CallOK(scope, req[r].op, Here(r))
      /\ scope = "ns" => req[r].at \in 1..made
      /\ scope = "cluster" => req[r].at = 0
      /\ req[r].op # "create" => req[r].id \in 1..made
  <2>1. WorldOK /\ ReqOK /\ LogOK /\ SeenOK
    BY Zenon DEF Types
  <2>2. /\ req[r].op # "none" /\ Here(r).call = "removeAll" /\ CallOK(scope, req[r].op, Here(r))
        /\ scope = "ns" => req[r].at \in 1..made
    BY <1>1, <1>2, AtIs, Zenon
  <2>3. /\ scope = "cluster" => req[r].at = 0
        /\ req[r].op # "create" => req[r].id \in 1..made
    BY <1>1, <1>2, AtIs, Zenon
  <2> QED BY <2>1, <2>2, <2>3, Zenon
<1>4. req[r].op = "delete" /\ b \in Shared
  BY <1>3 DEF CallOK
<1>5. /\ req[r] \in ReqSet /\ Here(r) = FirstCall(todo) /\ req[r].at \in Places
      /\ todo \in Programs /\ ProgramOK(scope, req[r].op, todo)
  BY <1>3, ActiveIs, Zenon
<1>6. req[r].got = NoRead
  <2>1. FirstCall(todo).call \notin {"append", "remove", "unauthorize"}
    BY <1>3, <1>5
  <2>2. GotOK(log, req[r])
    BY Zenon DEF Types, GotsOK
  <2> QED BY <1>3, <2>1, <2>2, Zenon DEF GotOK
<1>7. Cached(req[r].at, b) \in SUBSET Subjects /\ IsFiniteSet(Cached(req[r].at, b))
  BY <1>3, <1>4, <1>5, CachedIs, Zenon
<1>8. PICK us \in SetToSeqs(Cached(req[r].at, b)) :
           req' = [req EXCEPT ![r].todo = Removing(b, us, todo)]
  BY Zenon DEF RemoveAll
<1> DEFINE C == Cached(req[r].at, b)
<1>9. us \in Seq(C) /\ \A x \in C : \E i \in 1..Len(us) : us[i] = x
  <2>1. us \in SetToSeqs(C) /\ IsFiniteSet(C)
    BY <1>7, <1>8, Zenon
  <2> HIDE DEF C
  <2> QED BY <2>1, ListsAll
<1>10. us \in Seq(Subjects)
  <2>1. \A S \in SUBSET Subjects : Seq(S) \subseteq Seq(Subjects)
    OBVIOUS
  <2> QED BY <1>7, <1>9, <2>1, Zenon
<1> DEFINE new == Removing(b, us, todo)
           n == [req[r] EXCEPT !.todo = new]
<1>11. /\ new \in Programs /\ ProgramOK(scope, "delete", new)
       /\ FirstCall(new).call \notin {"add", "list", "deleteNs"}
       /\ FirstCall(new).call = "forget" => scope # "ns"
       /\ \A i \in 1..Len(us) : Owes(new, Call("remove", b, us[i]))
       /\ \A c : Owes(todo, c) /\ c # FirstCall(todo) => Owes(new, c)
  <2>1. FirstCall(todo).call = "removeAll" /\ b = FirstCall(todo).role
        /\ todo \in Programs /\ ProgramOK(scope, "delete", todo)
    BY <1>3, <1>4, <1>5, Zenon
  <2> HIDE DEF b, todo
  <2> QED BY <1>10, <2>1, RemoveAllOK
<1>12. req' = [req EXCEPT ![r] = n]
  BY <1>8
<1> HIDE DEF new
<1>13. /\ n \in ReqSet /\ n.op = req[r].op /\ n.id = req[r].id /\ n.at = req[r].at
       /\ n.todo = new /\ n.got = req[r].got
  BY <1>5, <1>11 DEF ReqSet
<1> HIDE DEF n
<1>14. RequestOK(scope, made, n)
  <2>1. "delete" # "recreate" /\ "delete" # "create"
    OBVIOUS
  <2> QED BY <1>3, <1>4, <1>11, <1>13, <2>1, Zenon DEF RequestOK
<1>15. \A u \in Cached(req[r].at, b) : Owes(new, Call("remove", b, u))
  BY <1>9, <1>11, Zenon
<1> QED BY <1>3, <1>4, <1>5, <1>6, <1>11, <1>12, <1>13, <1>14, <1>15, Zenon

LEMMA RemoveAllTypes ==
  ASSUME Types, NEW r \in Requests, RemoveAll(r)
  PROVE  Types'
<1>1. PICK n \in ReqSet : /\ n.got = NoRead /\ RequestOK(scope, made, n)
                          /\ req' = [req EXCEPT ![r] = n]
  BY RemoveAllIs, Zenon
<1>2. /\ WorldOK /\ HistoryOK /\ UNCHANGED world /\ events' = events /\ leaked' = leaked
      /\ spoiled' = spoiled /\ killed' = killed
  BY Zenon DEF Types, RemoveAll
<1>3. stayed' \in BOOLEAN
  BY <1>2, Zenon DEF RemoveAll, HistoryOK
<1>4. HistoryOK'
  BY <1>2, <1>3, Zenon DEF HistoryOK
<1>5. WorldOK' /\ scope' = scope /\ made' = made /\ log' = log /\ seen' = seen
  BY <1>2, WorldSame, Zenon
<1> QED BY <1>1, <1>4, <1>5, MovedOn

(* The outcomes of a Get. *)
LEMMA GetIs ==
  ASSUME NEW r, Get(r)
  PROVE  /\ Reads(r) /\ req[r].got = NoRead /\ UNCHANGED <<world, events, history>>
         /\ LET p == req[r].at
                b == Here(r).role IN
            \/ req' = [req EXCEPT ![r].got = [version |-> Len(log[p][b]), who |-> Now(p, b)]]
            \/ /\ GiveUp(r) /\ Here(r).call = "remove" /\ Now(p, b) = Gone
               /\ scope = "cluster"
            \/ /\ Continue(r)
               /\ \/ Here(r).call = "append" /\ Here(r).who \in Now(p, b)
                  \/ Here(r).call # "append" /\ Now(p, b) \in {{}, Gone}
BY DEF Get

LEMMA GetTypes ==
  ASSUME Types, NEW r \in Requests, Get(r)
  PROVE  Types'
<1> DEFINE p == req[r].at
           b == Here(r).role
           read == [version |-> Len(log[p][b]), who |-> Now(p, b)]
           n == [req[r] EXCEPT !.got = read]
<1>1. Reads(r) /\ UNCHANGED world /\ events' = events /\ UNCHANGED history
  BY GetIs, Zenon
<1>2. req' = [req EXCEPT ![r] = n] \/ GiveUp(r) \/ Continue(r)
  BY GetIs, Zenon
<1>3. WorldOK /\ HistoryOK /\ ReqOK /\ LogOK /\ SeenOK
  BY Zenon DEF Types
<1>4. req[r].op # "none" /\ Here(r).call \in {"append", "remove", "unauthorize"}
  BY <1>1, ReadsIs, Zenon
<1>5. HistoryOK' /\ leaked' = leaked
  BY <1>1, <1>3, HistorySame, Zenon
<1>6. WorldOK' /\ scope' = scope /\ made' = made /\ log' = log /\ seen' = seen
  BY <1>1, <1>3, <1>5, WorldSame, Zenon
<1>7. CASE GiveUp(r)
  BY <1>4, <1>5, <1>6, <1>7, GiveUpTypes
<1>8. CASE Continue(r)
  <2>1. Here(r).call # "createNs"
    BY <1>4
  <2> QED BY <1>4, <1>5, <1>6, <1>8, <2>1, ContinueTypes
<1>9. CASE req' = [req EXCEPT ![r] = n]
  <2>1. /\ req[r] \in ReqSet /\ RequestOK(scope, made, req[r]) /\ Here(r) = FirstCall(req[r].todo)
        /\ p \in Places /\ b \in Roles
    BY <1>3, <1>4, ActiveIs, Zenon
  <2>2. /\ Len(log[p][b]) \in Nat /\ Len(log[p][b]) > 0 /\ Now(p, b) \in Bindings
        /\ Now(p, b) = log[p][b][Len(log[p][b])]
    BY <1>3, <2>1, NowIs, Zenon
  <2>3. /\ read \in Reading /\ read.version \in 1..Len(log[p][b])
        /\ log[p][b][read.version] = read.who
    BY <2>2 DEF Reading
  <2> HIDE DEF read
  <2>4. /\ n \in ReqSet /\ n.op = req[r].op /\ n.id = req[r].id /\ n.at = req[r].at
        /\ n.todo = req[r].todo /\ n.got = read
    BY <2>1, <2>3 DEF ReqSet
  <2> HIDE DEF n
  <2>5. RequestOK(scope, made', n)
    BY <1>6, <2>1, <2>4, Zenon DEF RequestOK
  <2>6. GotOK(log', n)
    BY <1>4, <1>6, <2>1, <2>3, <2>4, Zenon DEF GotOK
  <2>7. Turns(r, n) /\ Grows(log, log') /\ LogOK' /\ SeenOK'
    BY <1>3, <1>6, <1>9, <2>4, TurnsAlone, GrowsSame, SameLog, Zenon
  <2>8. made' \in Nat /\ made <= made'
    <3>1. made \in Nat
      BY <1>3, NumbersAre
    <3> QED BY <1>6, <3>1
  <2>9. ReqOK' /\ GotsOK'
    BY <1>6, <2>4, <2>5, <2>6, <2>7, <2>8, TurnKeeps
  <2> QED BY <1>5, <1>6, <2>7, <2>9, Zenon DEF Types
<1> QED BY <1>2, <1>7, <1>8, <1>9

(* What Put and PutLost have in common. *)
LEMMA PutIs ==
  ASSUME Types, NEW r \in Requests, Put(r) \/ PutLost(r)
  PROVE  /\ Reads(r) /\ req[r].got # NoRead /\ Accepted(r) /\ Write(r) /\ Wrote(r)
         /\ scope' = scope /\ spaces' = spaces /\ name' = name /\ made' = made
         /\ cached' = cached /\ ns' = ns /\ seen' = seen /\ leaked' = leaked /\ killed' = killed
         /\ \E n \in ReqSet :
              /\ Turns(r, n) /\ n.got = NoRead /\ RequestOK(scope, made, n)
              /\ Put(r) => Went(scope, req[r], n) /\ spoiled' = spoiled /\ events' = events
              /\ PutLost(r) => /\ Left(req[r], n) /\ spoiled' = spoiled \cup {Here(r).who}
                               /\ events < MaxEvents /\ events' = events + 1
              /\ \A x \in Requests \ {r} : req[x].op # "none" => Here(r).who \in req'[x].crossed
<1>1. Reads(r) /\ req[r].got # NoRead /\ Accepted(r) /\ Write(r)
  BY Zenon DEF Put, PutLost
<1>2. Wrote(r)
  BY <1>1, WriteOK
<1>3. /\ scope' = scope /\ spaces' = spaces /\ name' = name /\ made' = made
      /\ cached' = cached /\ ns' = ns /\ seen' = seen /\ leaked' = leaked /\ killed' = killed
  BY Zenon DEF Put, PutLost
<1>4. req[r].op # "none" /\ Here(r).call \in {"append", "remove", "unauthorize"}
  BY <1>1, ReadsIs, Zenon
<1>5. WorldOK /\ ReqOK /\ Here(r).call # "createNs"
  BY <1>4 DEF Types
<1>6. Here(r).who \in Subjects
  BY <1>4, <1>5, ActiveIs, Zenon
<1> DEFINE a == With(req[r], AfterCall(req[r].todo))
           z == With(req[r], AfterFailure(req[r].todo))
<1>7. Went(scope, req[r], a) /\ a \in ReqSet /\ RequestOK(scope, made, a)
  BY <1>4, <1>5, ContinueOK, Zenon
<1>8. Left(req[r], z) /\ z \in ReqSet /\ RequestOK(scope, made, z)
  BY <1>4, <1>5, GiveUpOK, Zenon
<1>9. /\ Put(r) => /\ req' = Crossed(r, [req EXCEPT ![r] = a])
                   /\ spoiled' = spoiled /\ events' = events
      /\ PutLost(r) => /\ req' = Crossed(r, [req EXCEPT ![r] = z])
                       /\ spoiled' = spoiled \cup {Here(r).who}
                       /\ events < MaxEvents /\ events' = events + 1
  BY Zenon DEF Put, PutLost, Spoil
<1>10. /\ a.got = NoRead /\ (a.crossed = req[r].crossed \/ a = Idle)
       /\ z.got = NoRead /\ (z.crossed = req[r].crossed \/ z = Idle)
  BY <1>7, <1>8, Zenon DEF Went, Left
<1> HIDE DEF a, z
<1>11. ASSUME NEW n \in ReqSet, n.crossed = req[r].crossed \/ n = Idle,
              req' = Crossed(r, [req EXCEPT ![r] = n])
       PROVE  /\ Turns(r, n)
              /\ \A x \in Requests \ {r} : req[x].op # "none" => Here(r).who \in req'[x].crossed
  BY <1>5, <1>6, <1>11, TurnsCrossed
<1>12. CASE Put(r) /\ ~ PutLost(r)
  <2>1. /\ Turns(r, a)
        /\ \A x \in Requests \ {r} : req[x].op # "none" => Here(r).who \in req'[x].crossed
    BY <1>7, <1>9, <1>10, <1>11, <1>12, Zenon
  <2> QED BY <1>1, <1>2, <1>3, <1>7, <1>9, <1>10, <1>12, <2>1, Zenon
<1>13. CASE PutLost(r) /\ ~ Put(r)
  <2>1. /\ Turns(r, z)
        /\ \A x \in Requests \ {r} : req[x].op # "none" => Here(r).who \in req'[x].crossed
    BY <1>8, <1>9, <1>10, <1>11, <1>13, Zenon
  <2> QED BY <1>1, <1>2, <1>3, <1>8, <1>9, <1>10, <1>13, <2>1, Zenon
<1>14. ~ (Put(r) /\ PutLost(r))
  <2>1. HistoryOK
    BY Zenon DEF Types
  <2>2. events \in Nat
    BY <2>1, DevSpaceAssumption DEF HistoryOK
  <2>3. events + 1 # events
    BY <2>2
  <2> QED BY <1>9, <2>3, Zenon
<1> QED BY <1>12, <1>13, <1>14

LEMMA PutTypes ==
  ASSUME Types, NEW r \in Requests, Put(r) \/ PutLost(r)
  PROVE  Types'
<1>1. WorldOK /\ HistoryOK /\ ReqOK /\ LogOK /\ SeenOK
  BY Zenon DEF Types
<1>2. /\ Reads(r) /\ Write(r) /\ Wrote(r)
      /\ scope' = scope /\ spaces' = spaces /\ name' = name /\ made' = made
      /\ cached' = cached /\ ns' = ns /\ seen' = seen /\ leaked' = leaked /\ killed' = killed
  BY PutIs, Zenon
<1>3. PICK n \in ReqSet :
              /\ Turns(r, n) /\ n.got = NoRead /\ RequestOK(scope, made, n)
              /\ Put(r) => spoiled' = spoiled /\ events' = events
              /\ PutLost(r) => /\ spoiled' = spoiled \cup {Here(r).who}
                               /\ events < MaxEvents /\ events' = events + 1
  BY PutIs, Zenon
<1>4. Here(r).who \in Subjects
  <2>1. req[r].op # "none"
    BY <1>2, ReadsIs, Zenon
  <2> QED BY <1>1, <2>1, ActiveIs, Zenon
<1>5. HistoryOK'
  <2>1. events' \in 0..MaxEvents
    BY <1>1, <1>3, DevSpaceAssumption DEF HistoryOK
  <2>2. spoiled' \subseteq Subjects
    BY <1>1, <1>3, <1>4 DEF HistoryOK
  <2>3. stayed' \in BOOLEAN
    BY <1>1, <1>2, Zenon DEF HistoryOK, Write
  <2> QED BY <1>1, <1>2, <2>1, <2>2, <2>3, Zenon DEF HistoryOK
<1>6. WorldOK'
  BY <1>1, <1>2, Zenon DEF WorldOK
<1>7. LogOK' /\ Grows(log, log')
  BY <1>2, Zenon DEF Wrote
<1>8. SeenOK'
  BY <1>1, <1>2, <1>7, SeenStill
<1>9. made' \in Nat /\ made <= made'
  <2>1. made \in Nat
    BY <1>1, NumbersAre
  <2> QED BY <1>2, <2>1
<1>10. RequestOK(scope, made', n) /\ GotOK(log', n)
  BY <1>2, <1>3, NothingRead, Zenon
<1>11. ReqOK' /\ GotsOK'
  BY <1>2, <1>3, <1>7, <1>9, <1>10, TurnKeeps
<1> QED BY <1>5, <1>6, <1>7, <1>8, <1>11, Zenon DEF Types

LEMMA RefusedTypes ==
  ASSUME Types, NEW r \in Requests, PutRefused(r)
  PROVE  Types'
<1>1. WorldOK /\ HistoryOK /\ ReqOK
  BY Zenon DEF Types
<1>2. /\ Reads(r) /\ GiveUp(r) /\ spoiled' = spoiled \cup {Here(r).who} /\ UNCHANGED world
      /\ events' = events /\ leaked' = leaked /\ killed' = killed /\ stayed' = stayed
  BY Zenon DEF PutRefused, Spoil
<1>3. req[r].op # "none"
  BY <1>2, ReadsIs, Zenon
<1>4. Here(r).who \in Subjects
  BY <1>1, <1>3, ActiveIs, Zenon
<1>5. HistoryOK'
  BY <1>1, <1>2, <1>4 DEF HistoryOK
<1>6. WorldOK' /\ scope' = scope /\ made' = made /\ log' = log /\ seen' = seen
  BY <1>1, <1>2, WorldSame, Zenon
<1> QED BY <1>2, <1>3, <1>5, <1>6, GiveUpTypes

LEMMA FailsIs ==
  ASSUME NEW r, Fails(r)
  PROVE  /\ req[r].op # "none" /\ Here(r).call \notin {"add", "list", "forget", "evict", "removeAll"}
         /\ events < MaxEvents /\ events' = events + 1
         /\ \/ Continue(r) /\ Ignored(r)
            \/ GiveUp(r) /\ ~ Ignored(r)
         /\ spoiled' = spoiled \cup {Here(r).who}
         /\ stayed' = (stayed \/ (Ignored(r) /\ Here(r).call \in {"remove", "unauthorize"}))
         /\ leaked' = IF Here(r).call \in {"deleteNs", "insert"}
                      THEN leaked \cup ({req[r].at} \ {0}) ELSE leaked
         /\ UNCHANGED world /\ killed' = killed
BY Zenon DEF Fails, Spoil

LEMMA FailsTypes ==
  ASSUME Types, NEW r \in Requests, Fails(r)
  PROVE  Types'
<1>1. WorldOK /\ HistoryOK /\ ReqOK
  BY Zenon DEF Types
<1>2. /\ req[r].op # "none" /\ events < MaxEvents /\ events' = events + 1
      /\ (Continue(r) /\ Ignored(r)) \/ GiveUp(r)
      /\ spoiled' = spoiled \cup {Here(r).who}
      /\ UNCHANGED world /\ killed' = killed
  BY FailsIs, Zenon
<1>3. Here(r).who \in Subjects /\ req[r].at \in Places
  BY <1>1, <1>2, ActiveIs, Zenon
<1>4. stayed' \in BOOLEAN
  BY <1>1, FailsIs, Zenon DEF HistoryOK
<1>5. HistoryOK'
  <2>1. events' \in 0..MaxEvents
    BY <1>1, <1>2, DevSpaceAssumption DEF HistoryOK
  <2> QED BY <1>1, <1>2, <1>3, <1>4, <2>1 DEF HistoryOK
<1>6. leaked' \subseteq Ids
  <2>1. {req[r].at} \ {0} \subseteq Ids
    BY <1>3 DEF Places, Ids
  <2>2. leaked \subseteq Ids
    BY <1>1 DEF WorldOK
  <2>3. leaked' = leaked \/ leaked' = leaked \cup ({req[r].at} \ {0})
    BY FailsIs, Zenon
  <2> QED BY <2>1, <2>2, <2>3
<1>7. /\ scope' = scope /\ made' = made /\ log' = log /\ seen' = seen
      /\ spaces' = spaces /\ ns' = ns /\ cached' = cached /\ name' = name
  BY <1>2, Zenon DEF world
<1>8. WorldOK'
  BY <1>1, <1>6, <1>7, Zenon DEF WorldOK
<1>9. CASE Continue(r) /\ Ignored(r)
  <2>1. Here(r).call # "createNs"
    BY <1>9 DEF Ignored
  <2> QED BY <1>2, <1>5, <1>7, <1>8, <1>9, <2>1, ContinueTypes
<1>10. CASE GiveUp(r)
  BY <1>2, <1>5, <1>7, <1>8, <1>10, GiveUpTypes
<1> QED BY <1>2, <1>9, <1>10

(* What the loss of an answer leaves of a request and of the namespaces. *)
LEMMA LostIs ==
  ASSUME Types, NEW r \in Requests, NamespaceLost(r)
  PROVE  /\ req[r].op # "none" /\ Here(r).call \in {"createNs", "namespace"} /\ scope = "ns"
         /\ \E x \in 1..made' : /\ ns' = [ns EXCEPT ![x] = "live"] /\ leaked' = leaked \cup {x}
         /\ made \in Nat /\ made' \in 0..MaxSpaces /\ made <= made' /\ 1..made' \subseteq Ids
         /\ GiveUp(r) /\ spoiled' = spoiled \cup {Here(r).who}
         /\ events < MaxEvents /\ events' = events + 1
         /\ UNCHANGED <<scope, spaces, name, cached, log, seen, killed, stayed>>
<1>1. WorldOK /\ made \in Nat /\ made <= MaxSpaces /\ MaxSpaces \in Nat
  BY NumbersAre, Zenon DEF Types
<1>2. /\ GiveUp(r) /\ spoiled' = spoiled \cup {Here(r).who}
      /\ events < MaxEvents /\ events' = events + 1
      /\ UNCHANGED <<scope, spaces, name, cached, log, seen, killed, stayed>>
  BY Zenon DEF NamespaceLost, Spoil
<1>3. \/ /\ At(r, "createNs") /\ made < MaxSpaces /\ made' = made + 1
         /\ ns' = [ns EXCEPT ![made + 1] = "live"] /\ leaked' = leaked \cup {made + 1}
      \/ /\ At(r, "namespace") /\ made' = made
         /\ ns' = [ns EXCEPT ![req[r].at] = "live"] /\ leaked' = leaked \cup {req[r].at}
  BY Zenon DEF NamespaceLost
<1>4. /\ req[r].op # "none" /\ Here(r).call \in {"createNs", "namespace"}
      /\ CallOK(scope, req[r].op, Here(r))
  BY <1>3, AtIs
<1>5. scope = "ns"
  BY <1>1, <1>4 DEF CallOK, WorldOK
<1>6. CASE At(r, "createNs") /\ made' = made + 1
  <2>1. made' \in 0..MaxSpaces /\ made <= made' /\ 1..made' \subseteq Ids /\ made + 1 \in 1..made'
    BY <1>1, <1>3, <1>4, <1>6 DEF Ids, At
  <2>2. ns' = [ns EXCEPT ![made + 1] = "live"] /\ leaked' = leaked \cup {made + 1}
    BY <1>3, <1>6 DEF At
  <2> QED BY <1>1, <1>2, <1>4, <1>5, <2>1, <2>2, Zenon
<1>7. CASE At(r, "namespace") /\ made' = made
  <2>1. made' \in 0..MaxSpaces /\ made <= made' /\ 1..made' \subseteq Ids
    BY <1>1, <1>7 DEF Ids
  <2>2. req[r].at \in 1..made'
    <3>1. "namespace" # "createNs"
      OBVIOUS
    <3>2. req[r].at \in 1..made
      BY <1>5, <1>7, <3>1, AtIs, Zenon
    <3> QED BY <1>7, <3>2
  <2>3. ns' = [ns EXCEPT ![req[r].at] = "live"] /\ leaked' = leaked \cup {req[r].at}
    BY <1>3, <1>7 DEF At
  <2> QED BY <1>1, <1>2, <1>4, <1>5, <2>1, <2>2, <2>3, Zenon
<1> QED BY <1>3, <1>6, <1>7, Zenon

LEMMA LostTypes ==
  ASSUME Types, NEW r \in Requests, NamespaceLost(r)
  PROVE  Types'
<1>1. WorldOK /\ HistoryOK /\ LogOK /\ SeenOK /\ ReqOK
  BY Zenon DEF Types
<1>2. /\ req[r].op # "none" /\ GiveUp(r) /\ spoiled' = spoiled \cup {Here(r).who}
      /\ made \in Nat /\ made' \in 0..MaxSpaces /\ made <= made' /\ 1..made' \subseteq Ids
      /\ events < MaxEvents /\ events' = events + 1
      /\ scope' = scope /\ spaces' = spaces /\ name' = name /\ cached' = cached
      /\ log' = log /\ seen' = seen /\ killed' = killed /\ stayed' = stayed
  BY LostIs, Zenon
<1>3. PICK x \in 1..made' : ns' = [ns EXCEPT ![x] = "live"] /\ leaked' = leaked \cup {x}
  BY LostIs, Zenon
<1>4. Here(r).who \in Subjects
  BY <1>1, <1>2, ActiveIs, Zenon
<1>5. HistoryOK'
  <2>1. events' \in 0..MaxEvents
    BY <1>1, <1>2, DevSpaceAssumption DEF HistoryOK
  <2> QED BY <1>1, <1>2, <1>4, <2>1 DEF HistoryOK
<1>6. WorldOK'
  <2>1. x \in Ids /\ Ids \subseteq Places
    BY <1>1, <1>2, NumbersAre
  <2>2. 1..made \subseteq 1..made'
    BY <1>2
  <2>3. ns' \in [Places -> {"none", "live", "terminating"}] /\ leaked' \subseteq Ids
    BY <1>1, <1>3, <2>1 DEF WorldOK
  <2> QED BY <1>1, <1>2, <2>2, <2>3 DEF WorldOK
<1>7. LogOK' /\ SeenOK' /\ Grows(log, log')
  BY <1>1, <1>2, SameLog, GrowsSame, Zenon
<1> DEFINE n == With(req[r], AfterFailure(req[r].todo))
<1>8. /\ Left(req[r], n) /\ n \in ReqSet /\ RequestOK(scope, made, n)
      /\ req' = [req EXCEPT ![r] = n]
  BY <1>1, <1>2, GiveUpOK, Zenon
<1> HIDE DEF n
<1>9. Turns(r, n)
  BY <1>1, <1>8, TurnsAlone, Zenon
<1>10. GotOK(log', n)
  BY <1>8, NothingRead, Zenon DEF Left
<1>11. made' \in Nat
  BY <1>2
<1>12. RequestOK(scope, made', n)
  <2>1. Aside(n, n)
    BY DEF Aside
  <2> QED BY <1>2, <1>8, <1>11, <2>1, RequestOKLater, Zenon
<1>13. ReqOK' /\ GotsOK'
  BY <1>2, <1>7, <1>8, <1>9, <1>10, <1>11, <1>12, TurnKeeps
<1> QED BY <1>5, <1>6, <1>7, <1>13, Zenon DEF Types

LEMMA SameRequests ==
  ASSUME Types, req' = req, scope' = scope, made' = made, Grows(log, log')
  PROVE  ReqOK' /\ GotsOK'
<1>1. ReqOK /\ GotsOK
  BY Zenon DEF Types
<1>2. ReqOK'
  BY <1>1, Zenon DEF ReqOK
<1>3. ASSUME NEW x \in Requests
      PROVE  GotOK(log', req[x])
  <2>1. Aside(req[x], req[x]) /\ GotOK(log, req[x])
    BY <1>1 DEF Aside, GotsOK
  <2>2. req[x].op # "none" => req[x].at \in Places /\ FirstCall(req[x].todo).role \in Roles
    BY <1>1, ActiveIs, Zenon
  <2> QED BY <2>1, <2>2, GotOKLater, Zenon
<1> QED BY <1>2, <1>3, Zenon DEF GotsOK

LEMMA TerminatedTypes ==
  ASSUME Types, NEW p \in Ids, Terminated(p)
  PROVE  Types'
<1>1. WorldOK /\ HistoryOK /\ LogOK /\ SeenOK
  BY Zenon DEF Types
<1>2. /\ ns' = [ns EXCEPT ![p] = "none"] /\ scope' = scope /\ spaces' = spaces /\ name' = name
      /\ made' = made /\ cached' = cached /\ seen' = seen /\ req' = req /\ events' = events
      /\ UNCHANGED history
  BY Zenon DEF Terminated
<1>3. HistoryOK' /\ leaked' = leaked
  BY <1>1, <1>2, HistorySame, Zenon
<1>4. ns' \in [Places -> {"none", "live", "terminating"}]
  BY <1>1, <1>2 DEF WorldOK
<1>5. WorldOK'
  BY <1>1, <1>2, <1>3, <1>4, Zenon DEF WorldOK
<1>6. LogOK' /\ Grows(log, log')
  BY <1>1, TerminatedLog, Zenon
<1>7. SeenOK'
  BY <1>1, <1>2, <1>6, SeenStill
<1>8. ReqOK' /\ GotsOK'
  BY <1>2, <1>6, SameRequests
<1> QED BY <1>3, <1>5, <1>6, <1>7, <1>8, Zenon DEF Types

LEMMA JoinTypes ==
  ASSUME Types, NEW p \in Places, NEW b \in Shared, Join(p, b)
  PROVE  Types'
<1>1. WorldOK /\ HistoryOK /\ LogOK /\ SeenOK
  BY Zenon DEF Types
<1>2. /\ scope' = scope /\ spaces' = spaces /\ name' = name /\ made' = made /\ cached' = cached
      /\ ns' = ns /\ log' = log /\ req' = req /\ events' = events /\ UNCHANGED history
  BY Zenon DEF Join
<1>3. PICK v \in (seen[p][b] + 1)..Len(log[p][b]) : seen' = [seen EXCEPT ![p][b] = v]
  BY Zenon DEF Join
<1>4. HistoryOK' /\ leaked' = leaked
  BY <1>1, <1>2, HistorySame, Zenon
<1>5. WorldOK'
  BY <1>1, <1>2, <1>4, Zenon DEF WorldOK
<1>6. LogOK' /\ Grows(log, log')
  BY <1>1, <1>2, GrowsSame, Zenon DEF LogOK
<1>7. SeenOK'
  <2>1. /\ seen \in [Places -> [Shared -> Nat]]
        /\ \A x \in Places, d \in Shared : seen[x][d] \in 1..Len(log[x][d])
    BY <1>1, Zenon DEF SeenOK
  <2>2. b \in Roles
    BY DEF Shared, Roles
  <2>3. Len(log[p][b]) \in Nat
    BY <1>1, <2>2, NowIs
  <2>4. v \in Nat /\ v \in 1..Len(log[p][b])
    BY <1>3, <2>1, <2>3
  <2>5. seen' \in [Places -> [Shared -> Nat]]
    BY <1>3, <2>1, <2>4
  <2>6. ASSUME NEW x \in Places, NEW d \in Shared
        PROVE  seen'[x][d] \in 1..Len(log'[x][d])
    <3>1. seen'[x][d] = IF x = p /\ d = b THEN v ELSE seen[x][d]
      BY <1>3, <2>1
    <3> QED BY <1>2, <2>1, <2>4, <3>1
  <2> QED BY <2>5, <2>6, Zenon DEF SeenOK
<1>8. ReqOK' /\ GotsOK'
  BY <1>2, <1>6, SameRequests
<1> QED BY <1>4, <1>5, <1>6, <1>7, <1>8, Zenon DEF Types

LEMMA FreshTypes ==
  ASSUME req = [r \in Requests |-> Idle], seen = [p \in Places |-> [b \in Shared |-> 1]], LogOK
  PROVE  ReqOK /\ GotsOK /\ SeenOK
<1>1. Idle \in ReqSet /\ Idle.op = "none" /\ Idle.got = NoRead
  BY IdleIs
<1>2. RequestOK(scope, made, Idle) /\ GotOK(log, Idle)
  BY <1>1, Zenon DEF RequestOK, GotOK
<1>3. req \in [Requests -> ReqSet] /\ \A r \in Requests : req[r] = Idle
  BY <1>1
<1>4. ReqOK /\ GotsOK
  BY <1>2, <1>3 DEF ReqOK, GotsOK
<1>5. seen \in [Places -> [Shared -> Nat]]
  OBVIOUS
<1>6. ASSUME NEW p \in Places, NEW b \in Shared
      PROVE  seen[p][b] \in 1..Len(log[p][b])
  <2>1. b \in Roles
    BY DEF Shared, Roles
  <2>2. Len(log[p][b]) \in Nat /\ Len(log[p][b]) > 0
    BY <2>1, NowIs
  <2>3. seen[p][b] = 1
    OBVIOUS
  <2> QED BY <2>2, <2>3
<1> QED BY <1>4, <1>5, <1>6, Zenon DEF SeenOK

(* What the migration at the start of the server does to the namespaces    *)
(* and the bindings.                                                       *)
LEMMA MigrateIs ==
  ASSUME WorldOK, LogOK, Migrate
  PROVE  /\ ns' \in [Places -> {"none", "live", "terminating"}] /\ LogOK'
         /\ \A p \in Places : ns'[p] = ns[p] \/ (scope = "ns" /\ p \in spaces)
         /\ \A p \in Places : log'[p] = log[p] \/ (scope = "ns" /\ p \in spaces)
         /\ \A p \in Places, b \in Shared : log'[p][b] = log[p][b]
<1>1. PICK again \in SUBSET {p \in spaces : scope = "ns" /\ ns[p] = "none"} :
        /\ ns' = [p \in Places |-> IF p \in again THEN "live" ELSE ns[p]]
        /\ \E who \in [Places -> SUBSET {Owner, Default}] :
             /\ \A p \in Places : who[p] # {} => scope = "ns" /\ p \in spaces
             /\ log' = [p \in Places |-> Migrated(p, p \in again, who[p])]
  BY Zenon DEF Migrate
<1>2. PICK who \in [Places -> SUBSET {Owner, Default}] :
        /\ \A p \in Places : who[p] # {} => scope = "ns" /\ p \in spaces
        /\ log' = [p \in Places |-> Migrated(p, p \in again, who[p])]
  BY <1>1, Zenon
<1>3. /\ ns' \in [Places -> {"none", "live", "terminating"}]
      /\ \A p \in Places : ns'[p] = ns[p] \/ (scope = "ns" /\ p \in spaces)
  BY <1>1 DEF WorldOK
<1>4. ASSUME NEW p \in Places
      PROVE  /\ log'[p] \in [Roles -> Seq(Bindings)]
             /\ \A b \in Roles : Len(log'[p][b]) > 0
             /\ log'[p] = log[p] \/ (scope = "ns" /\ p \in spaces)
             /\ \A b \in Shared : log'[p][b] = log[p][b]
  <2> DEFINE s == log[p]["admin"]
             w == Bound(p, "admin") \cup who[p]
  <2>1. log'[p] = Migrated(p, p \in again, who[p])
    BY <1>2
  <2>2. log[p] \in [Roles -> Seq(Bindings)] /\ \A b \in Roles : Len(log[p][b]) > 0
    BY DEF LogOK
  <2>3. log'[p] = log[p] \/ (log'[p] = [log[p] EXCEPT !["admin"] = Append(s, w)] /\ who[p] # {})
    <3>1. {} \subseteq Bound(p, "admin")
      OBVIOUS
    <3> QED BY <2>1, <3>1, Zenon DEF Migrated
  <2>4. CASE log'[p] = log[p]
    BY <2>2, <2>4, SharedIs
  <2>5. CASE log'[p] = [log[p] EXCEPT !["admin"] = Append(s, w)] /\ who[p] # {}
    <3>1. "admin" \in Roles /\ \A b \in Shared : b \in Roles /\ b # "admin"
      BY SharedIs DEF Roles
    <3>2. w \in Bindings
      <4>1. Bound(p, "admin") \in SUBSET Subjects
        BY <3>1, NowIs, Zenon
      <4>2. who[p] \in SUBSET {Owner, Default}
        BY Zenon
      <4> QED BY <4>1, <4>2 DEF Bindings, Subjects
    <3> HIDE DEF w
    <3>3. Append(s, w) \in Seq(Bindings) /\ Len(Append(s, w)) > 0
      BY <2>2, <3>1, <3>2
    <3> HIDE DEF s
    <3>4. scope = "ns" /\ p \in spaces
      BY <1>2, <2>5, Zenon
    <3> QED BY <2>2, <2>5, <3>1, <3>3, <3>4
  <2> QED BY <2>3, <2>4, <2>5
<1>5. LogOK'
  <2>1. log' = [p \in Places |-> log'[p]]
    BY <1>2
  <2> QED BY <1>4, <2>1 DEF LogOK
<1> QED BY <1>3, <1>4, <1>5, Zenon

LEMMA RestartTypes ==
  ASSUME Types, Restart
  PROVE  Types'
<1>1. WorldOK /\ HistoryOK /\ LogOK
  BY Zenon DEF Types
<1>2. /\ events < MaxEvents /\ events' = events + 1 /\ cached' = {}
      /\ seen' = [p \in Places |-> [b \in Shared |-> 1]]
      /\ killed' = (killed \/ Active # {}) /\ req' = [r \in Requests |-> Idle]
      /\ scope' = scope /\ spaces' = spaces /\ name' = name /\ made' = made
      /\ Migrate /\ leaked' = leaked /\ spoiled' = spoiled /\ stayed' = stayed
  BY Zenon DEF Restart
<1>3. LogOK' /\ ns' \in [Places -> {"none", "live", "terminating"}]
  BY <1>1, <1>2, MigrateIs, Zenon
<1>4. ReqOK' /\ GotsOK' /\ SeenOK'
  <2>1. Idle \in ReqSet /\ Idle.op = "none" /\ Idle.got = NoRead
    BY IdleIs
  <2>2. RequestOK(scope', made', Idle) /\ GotOK(log', Idle)
    BY <2>1, Zenon DEF RequestOK, GotOK
  <2>3. req' \in [Requests -> ReqSet] /\ \A r \in Requests : req'[r] = Idle
    BY <1>2, <2>1
  <2>4. ReqOK' /\ GotsOK'
    BY <2>2, <2>3, Zenon DEF ReqOK, GotsOK
  <2>5. seen' \in [Places -> [Shared -> Nat]]
    BY <1>2
  <2>6. ASSUME NEW p \in Places, NEW b \in Shared
        PROVE  seen'[p][b] \in 1..Len(log'[p][b])
    <3>1. b \in Roles
      BY DEF Shared, Roles
    <3>2. Len(log'[p][b]) \in Nat /\ Len(log'[p][b]) > 0
      BY <1>3, <3>1 DEF LogOK
    <3>3. seen'[p][b] = 1
      BY <1>2
    <3> QED BY <3>2, <3>3
  <2> QED BY <2>4, <2>5, <2>6, Zenon DEF SeenOK
<1>5. HistoryOK'
  <2>1. events' \in 0..MaxEvents
    BY <1>1, <1>2, DevSpaceAssumption DEF HistoryOK
  <2>2. killed' \in BOOLEAN
    BY <1>1, <1>2, Zenon DEF HistoryOK
  <2> QED BY <1>1, <1>2, <2>1, <2>2, Zenon DEF HistoryOK
<1>6. WorldOK'
  <2>1. cached' \subseteq 1..made
    BY <1>2
  <2> QED BY <1>1, <1>2, <1>3, <2>1, Zenon DEF WorldOK
<1> QED BY <1>3, <1>4, <1>5, <1>6, Zenon DEF Types

LEMMA InitTypes ==
  Init => Types
<1> SUFFICES ASSUME Init PROVE Types
  OBVIOUS
<1>1. PICK first \in {0, 1} :
       /\ made = first
       /\ spaces = 1..first
       /\ name = [id \in Ids |-> IF id <= first THEN id ELSE 0]
       /\ ns = [p \in Places |-> IF scope = "ns" /\ p \in 1..first THEN "live" ELSE "none"]
       /\ log = [p \in Places |-> [b \in Roles |->
            IF first = 1 /\ p = Place(1) /\ b = "admin"
            THEN <<{Owner} \cup (IF scope = "ns" THEN {Default} ELSE {})>>
            ELSE <<Gone>>]]
  BY Zenon DEF Init
<1>2. MaxSpaces \in Nat \ {0} /\ MaxEvents \in Nat /\ Scopes \subseteq {"ns", "cluster"}
  BY DevSpaceAssumption
<1>3. WorldOK
  <2>1. made \in 0..MaxSpaces /\ spaces \subseteq 1..made
    BY <1>1, <1>2
  <2>2. name \in [Ids -> Places]
    BY <1>1, <1>2 DEF Ids, Places
  <2>3. ns \in [Places -> {"none", "live", "terminating"}]
    BY <1>1
  <2> QED BY <1>2, <2>1, <2>2, <2>3 DEF Init, WorldOK
<1>4. LogOK
  <2> DEFINE w == {Owner} \cup (IF scope = "ns" THEN {Default} ELSE {})
             F(p, b) == IF first = 1 /\ p = Place(1) /\ b = "admin" THEN <<w>> ELSE <<Gone>>
  <2>1. w \in Bindings /\ Gone \in Bindings
    BY DEF Bindings, Subjects
  <2>2. log = [p \in Places |-> [b \in Roles |-> F(p, b)]]
    BY <1>1, Zenon
  <2> HIDE DEF w
  <2>3. \A p \in Places, b \in Roles : F(p, b) \in Seq(Bindings) /\ Len(F(p, b)) > 0
    BY <2>1
  <2> HIDE DEF F
  <2> QED BY <2>2, <2>3 DEF LogOK
<1>5. ReqOK /\ GotsOK /\ SeenOK
  BY <1>4, FreshTypes, Zenon DEF Init
<1>6. HistoryOK
  <2>1. events = 0 /\ spoiled = {} /\ killed = FALSE /\ stayed = FALSE
    BY Zenon DEF Init
  <2>2. events \in 0..MaxEvents /\ spoiled \subseteq Subjects
    BY <1>2, <2>1
  <2> QED BY <2>1, <2>2, Zenon DEF HistoryOK
<1> QED BY <1>3, <1>4, <1>5, <1>6, Zenon DEF Types

LEMMA NextTypes ==
  ASSUME Types, [Next]_vars
  PROVE  Types'
<1>1. CASE UNCHANGED vars
  <2>1. /\ UNCHANGED <<scope, spaces, name, made, cached, ns, log, seen>>
        /\ UNCHANGED <<req, events, leaked, spoiled, killed, stayed>>
    BY <1>1 DEF vars, world, history
  <2> QED BY <2>1, Zenon
          DEF Types, WorldOK, LogOK, SeenOK, ReqOK, GotsOK, HistoryOK
<1>2. ASSUME NEW r \in Requests, Asks(r) \/ Works(r) \/ Errs(r)
      PROVE  Types'
  <2>1. CASE Works(r)
    BY <2>1, RecordsTypes, ChecksTypes, InsertTypes, CreateNsTypes, NamespaceTypes, ListTypes,
       GetTypes, PutTypes, RefusedTypes, RemoveAllTypes, Zenon DEF Works
  <2>2. CASE ~ Works(r)
    BY <1>2, <2>2, AsksTypes, FailsTypes, LostTypes, RecordsTypes, PutTypes, Zenon DEF Errs
  <2> QED BY <2>1, <2>2
<1> QED BY <1>1, <1>2, TerminatedTypes, JoinTypes, RestartTypes, Zenon DEF Next

(* Whatever the requests of the server do to the bindings, the records and *)
(* each other, every variable keeps its type: a binding lists users and    *)
(* accounts or does not exist, the watcher has joined a version there is,  *)
(* and a program is one of a handler's (the whole of DevSpace).            *)
THEOREM TypeCorrect == Spec => []TypeOK
<1>1. Types => TypeOK
  <2> SUFFICES ASSUME Types PROVE TypeOK
    OBVIOUS
  <2>1. WorldOK /\ LogOK /\ SeenOK /\ ReqOK /\ HistoryOK
    BY Zenon DEF Types
  <2>2. /\ scope \in {"ns", "cluster"} /\ leaked \subseteq Ids /\ made \in 0..MaxSpaces
        /\ name \in [Ids -> 0..MaxSpaces] /\ ns \in [Places -> {"none", "live", "terminating"}]
    BY <2>1, Zenon DEF WorldOK, Places
  <2>3. spaces \subseteq Ids /\ cached \subseteq Ids
    BY <2>1, NumbersAre DEF WorldOK
  <2>4. ASSUME NEW p \in Places, NEW b \in Roles
        PROVE  /\ log[p][b] \in Seq((SUBSET Subjects) \cup {Gone})
               /\ b \in Shared => seen[p][b] \in 1..Len(log[p][b])
    <3>1. log[p][b] \in Seq(Bindings)
      BY <2>1, NowIs
    <3> QED BY <2>1, <3>1 DEF SeenOK, Bindings
  <2>5. ASSUME NEW r \in Requests
        PROVE  /\ req[r].op \in {"none", "create", "share", "unshare", "delete", "recreate"}
               /\ req[r].id \in Places /\ req[r].at \in Places
               /\ req[r].todo \in Programs
               /\ req[r].got.version \in Nat
               /\ req[r].got.who \in (SUBSET Subjects) \cup {Gone}
               /\ req[r].crossed \subseteq Subjects
    <3>1. req[r] \in ReqSet
      BY <2>1 DEF ReqOK
    <3>2. /\ req[r].op \in Ops /\ req[r].id \in Places /\ req[r].at \in Places
          /\ req[r].todo \in Programs /\ req[r].got \in Reading
          /\ req[r].crossed \subseteq Subjects
      BY <3>1 DEF ReqSet
    <3>3. req[r].got.version \in Nat /\ req[r].got.who \in Bindings
      BY <3>2 DEF Reading
    <3> QED BY <3>2, <3>3, Zenon DEF Ops, Bindings
  <2>6. /\ events \in 0..MaxEvents /\ spoiled \subseteq Subjects
        /\ killed \in BOOLEAN /\ stayed \in BOOLEAN
    BY <2>1, Zenon DEF HistoryOK
  <2> QED BY <2>2, <2>3, <2>4, <2>5, <2>6, Zenon DEF TypeOK
<1> QED BY <1>1, InitTypes, NextTypes, PTL DEF Spec

-----------------------------------------------------------------------------
(* Changing from one role to the other.                                    *)

(* Request q is about to take user u from a binding of place p. *)
Removes(q, p, u) ==
  /\ q.op # "none" /\ q.at = p
  /\ FirstCall(q.todo).call = "remove" /\ FirstCall(q.todo).who = u

(* Who is in both bindings is about to be taken from one. *)
Switching ==
  \A p \in Places, u \in Users :
    (/\ u \in BoundIn(log, p, "coop") /\ u \in BoundIn(log, p, "view")
     /\ u \notin spoiled /\ ~ killed)
    => \E r \in Requests : Removes(req[r], p, u)

(* A request that changes a role takes the user from one binding when he   *)
(* is in the other, if it was the only one about him.                      *)
Follows(lg, q) ==
  (/\ q.op \in {"share", "recreate"} /\ FirstCall(q.todo).call = "remove"
   /\ FirstCall(q.todo).who \notin q.crossed
   /\ \/ FirstCall(q.todo).who \in BoundIn(lg, q.at, "coop")
      \/ FirstCall(q.todo).who \in BoundIn(lg, q.at, "view"))
  => FirstCall(q.todo).who \in BoundIn(lg, q.at, Other(FirstCall(q.todo).role))
Switched == \A r \in Requests : Follows(log, req[r])

(* A step of request r that writes no binding, in what matters here. *)
Same(q, n) == n.op = q.op /\ n.at = q.at /\ n.todo = q.todo /\ n.crossed = q.crossed
LeavesOff(q, lg, sp) ==
  \/ q.op = "none"
  \/ FirstCall(q.todo).call # "remove"
  \/ FirstCall(q.todo).who \in sp
  \/ BoundIn(lg, q.at, FirstCall(q.todo).role) = {}
ComesTo(n, lg) ==
  n.op \in {"share", "recreate"} /\ FirstCall(n.todo).call = "remove" =>
    FirstCall(n.todo).who \in BoundIn(lg, n.at, Other(FirstCall(n.todo).role))
Calm(r, n) ==
  /\ n \in ReqSet /\ req' = [req EXCEPT ![r] = n]
  /\ log' = log /\ killed' = killed /\ spoiled \subseteq spoiled'
  /\ Same(req[r], n) \/ (LeavesOff(req[r], log, spoiled') /\ ComesTo(n, log))

LEMMA IdleComes ==
  ASSUME NEW lg
  PROVE  ComesTo(Idle, lg)
BY IdleIs DEF ComesTo

LEMMA LeftComes ==
  ASSUME NEW q, NEW n, NEW lg, Left(q, n)
  PROVE  ComesTo(n, lg)
<1>1. CASE n = Idle
  BY <1>1, IdleComes
<1>2. CASE n # Idle
  <2>1. n.op = q.op /\ StartOK(q.op, q.todo[1], FirstCall(n.todo))
    BY <1>2, Zenon DEF Left
  <2> QED BY <2>1, Zenon DEF StartOK, ComesTo
<1> QED BY <1>1, <1>2

(* The call before a removal that ends a change of role. *)
Appended(q, n, c) ==
  /\ n.op = q.op /\ n.op # "none" /\ n.at = q.at /\ c.call = "append" /\ c.role \in Shared
  /\ FirstCall(n.todo) = Call("remove", Other(c.role), c.who)
  /\ c.role = Other(FirstCall(n.todo).role)

LEMMA WentComes ==
  ASSUME NEW s, NEW q, NEW n, NEW lg, Went(s, q, n), FirstCall(q.todo) \in CallSet,
         FirstCall(n.todo).role \in Shared \/ FirstCall(n.todo).call # "remove" \/ n.op = "none"
  PROVE  ComesTo(n, lg) \/ Appended(q, n, FirstCall(q.todo))
<1> DEFINE c == FirstCall(q.todo)
           d == FirstCall(n.todo)
<1>1. CASE n = Idle
  BY <1>1, IdleComes
<1>2. CASE n # Idle /\ ~ Link(s, q.op, c, d)
  <2>1. n.op = q.op /\ StartOK(q.op, q.todo[1], d)
    BY <1>2, Zenon DEF Went
  <2> QED BY <2>1, Zenon DEF StartOK, ComesTo
<1>3. CASE n # Idle /\ Link(s, q.op, c, d)
  <2>1. n.op = q.op /\ n.at = q.at
    BY <1>3, Zenon DEF Went
  <2>2. CASE ~ (n.op \in {"share", "recreate"} /\ d.call = "remove")
    BY <2>2, Zenon DEF ComesTo
  <2>3. CASE n.op \in {"share", "recreate"} /\ d.call = "remove"
    <3>1. c = Call("append", Other(d.role), d.who) /\ n.op # "none" /\ d.role \in Shared
      BY <1>3, <2>1, <2>3 DEF Link
    <3>2. c.call = "append" /\ c.role = Other(d.role)
      BY <3>1 DEF Call
    <3>3. Other(d.role) \in Shared
      BY <3>1, OtherIs
    <3>4. d = Call("remove", Other(c.role), c.who)
      BY <1>3, <3>2, <3>3, Zenon DEF Link
    <3> QED BY <2>1, <3>1, <3>2, <3>3, <3>4, Zenon DEF Appended
  <2> QED BY <2>2, <2>3
<1> QED BY <1>1, <1>2, <1>3

LEMMA RemoveRole ==
  ASSUME NEW s, NEW m, NEW n \in ReqSet, RequestOK(s, m, n)
  PROVE  FirstCall(n.todo).role \in Shared \/ FirstCall(n.todo).call # "remove" \/ n.op = "none"
<1>1. CASE n.op # "none"
  <2>1. n.todo \in Programs /\ ProgramOK(s, n.op, n.todo)
    BY <1>1 DEF ReqSet, RequestOK
  <2>2. CallOK(s, n.op, FirstCall(n.todo))
    BY <2>1, FirstIs, Zenon
  <2> QED BY <2>2, Zenon DEF CallOK
<1> QED BY <1>1

LEMMA ContinueCalm ==
  ASSUME Types, NEW r \in Requests, req[r].op # "none", Continue(r), Here(r).call # "createNs",
         log' = log, killed' = killed, spoiled \subseteq spoiled',
         LeavesOff(req[r], log, spoiled'),
         \/ Here(r).call # "append"
         \/ Here(r).who \in BoundIn(log, req[r].at, Here(r).role)
  PROVE  \E n : Calm(r, n)
<1> DEFINE n == With(req[r], AfterCall(req[r].todo))
<1>1. WorldOK /\ ReqOK
  BY Zenon DEF Types
<1>2. /\ Went(scope, req[r], n) /\ n \in ReqSet /\ RequestOK(scope, made, n)
      /\ req' = [req EXCEPT ![r] = n]
  BY <1>1, ContinueOK, Zenon
<1>3. Here(r) = FirstCall(req[r].todo) /\ Here(r) \in CallSet
  BY <1>1, ActiveIs, Zenon
<1> HIDE DEF n
<1>4. FirstCall(n.todo).role \in Shared \/ FirstCall(n.todo).call # "remove" \/ n.op = "none"
  BY <1>2, RemoveRole
<1>5. ComesTo(n, log)
  <2>1. CASE Appended(req[r], n, Here(r))
    <3>0. /\ n.at = req[r].at /\ Here(r).call = "append"
          /\ FirstCall(n.todo) = Call("remove", Other(Here(r).role), Here(r).who)
          /\ Here(r).role = Other(FirstCall(n.todo).role)
      BY <2>1, Zenon DEF Appended
    <3>1. FirstCall(n.todo).who = Here(r).who
      BY <3>0 DEF Call
    <3> QED BY <3>0, <3>1, Zenon DEF ComesTo
  <2>2. FirstCall(req[r].todo) \in CallSet
    BY <1>3, Zenon
  <2>3. ComesTo(n, log) \/ Appended(req[r], n, FirstCall(req[r].todo))
    BY <1>2, <1>4, <2>2, WentComes, Zenon
  <2> QED BY <1>3, <2>1, <2>3, Zenon
<1>6. Calm(r, n)
  BY <1>2, <1>5, Zenon DEF Calm
<1> QED BY <1>6, Zenon

LEMMA GiveUpCalm ==
  ASSUME Types, NEW r \in Requests, req[r].op # "none", GiveUp(r),
         log' = log, killed' = killed, spoiled \subseteq spoiled',
         LeavesOff(req[r], log, spoiled')
  PROVE  \E n : Calm(r, n)
<1> DEFINE n == With(req[r], AfterFailure(req[r].todo))
<1>1. Left(req[r], n) /\ n \in ReqSet /\ req' = [req EXCEPT ![r] = n]
  BY GiveUpOK, Zenon DEF Types
<1> HIDE DEF n
<1>2. ComesTo(n, log)
  BY <1>1, LeftComes
<1>3. Calm(r, n)
  BY <1>1, <1>2, Zenon DEF Calm
<1> QED BY <1>3, Zenon

(* All the steps of a request but Put and PutLost. *)
LEMMA CalmSteps ==
  ASSUME Types, NEW r \in Requests,
         Asks(r) \/ Works(r) \/ Errs(r),
         ~ Put(r), ~ PutLost(r)
  PROVE  \E n : Calm(r, n)
<1>0. WorldOK /\ ReqOK /\ HistoryOK /\ LogOK
  BY Zenon DEF Types
<1> DEFINE Frame == log' = log /\ killed' = killed /\ spoiled' = spoiled
<1>1. ASSUME NEW call, At(r, call), call \notin {"remove", "append", "createNs"}, Frame,
             Continue(r) \/ GiveUp(r)
      PROVE  \E n : Calm(r, n)
  <2>1. req[r].op # "none" /\ Here(r).call = call
    BY <1>1, Zenon DEF At
  <2>2. Here(r) = FirstCall(req[r].todo)
    BY <1>0, <2>1, ActiveIs, Zenon
  <2>3. Here(r).call # "remove" /\ Here(r).call # "append" /\ Here(r).call # "createNs"
    BY <1>1, <2>1
  <2>4. LeavesOff(req[r], log, spoiled') /\ spoiled \subseteq spoiled'
    BY <1>1, <2>2, <2>3, Zenon DEF LeavesOff
  <2>5. CASE Continue(r)
    BY <1>1, <2>1, <2>3, <2>4, <2>5, ContinueCalm
  <2>6. CASE GiveUp(r)
    BY <1>1, <2>1, <2>4, <2>6, GiveUpCalm
  <2> QED BY <1>1, <2>5, <2>6
<1>2. ASSUME NEW n \in ReqSet, req' = [req EXCEPT ![r] = n], Frame,
             LeavesOff(req[r], log, spoiled), ComesTo(n, log)
      PROVE  \E m : Calm(r, m)
  <2>1. Calm(r, n)
    BY <1>2, Zenon DEF Calm
  <2> QED BY <2>1, Zenon
<1>3. CASE Asks(r)
  <2>1. req[r].op = "none" /\ Quiet
    BY <1>0, <1>3, AsksOK, Zenon
  <2>2. PICK n : Begins(scope, made, n) /\ req' = [req EXCEPT ![r] = n]
    BY <1>0, <1>3, AsksOK, Zenon
  <2>3. n \in ReqSet /\ ComesTo(n, log)
    BY <2>2, Zenon DEF Begins, Begun, ComesTo
  <2>4. Frame /\ LeavesOff(req[r], log, spoiled)
    BY <2>1, Zenon DEF Quiet, world, history, LeavesOff
  <2> QED BY <1>2, <2>2, <2>3, <2>4, Zenon
<1>4. CASE \/ Add(r) \/ Forget(r) \/ Evict(r) \/ Check(r) \/ CheckName(r) \/ ForgetFails(r)
           \/ CreateNamespaceINE(r) \/ DeleteNs(r)
  <2>1. Frame /\ (Continue(r) \/ GiveUp(r))
    BY <1>4, Zenon DEF Add, Forget, Evict, Check, CheckName, ForgetFails, CreateNamespaceINE,
                       DeleteNs, history, world
  <2>2. \/ At(r, "add") \/ At(r, "forget") \/ At(r, "evict") \/ At(r, "check")
        \/ At(r, "checkName") \/ At(r, "namespace") \/ At(r, "deleteNs")
    BY <1>4, Zenon DEF Add, Forget, Evict, Check, CheckName, ForgetFails, CreateNamespaceINE,
                       DeleteNs
  <2>3. PICK call \in {"add", "forget", "evict", "check", "checkName", "namespace", "deleteNs"} :
             At(r, call)
    BY <2>2
  <2>4. call \notin {"remove", "append", "createNs"}
    OBVIOUS
  <2> QED BY <1>1, <2>1, <2>3, <2>4, Zenon
<1>5. CASE Insert(r)
  <2>1. At(r, "insert") /\ Frame
    BY <1>5, Zenon DEF Insert, history
  <2>2. PICK m \in ReqSet, n \in ReqSet :
           /\ Went(scope, req[r], m) /\ RequestOK(scope, made, m)
           /\ n.op = m.op /\ n.todo = m.todo /\ (m.op # "none" => n.at = m.at)
           /\ req' = [req EXCEPT ![r] = n]
    BY <1>5, InsertIs, Zenon
  <2>3. req[r].op # "none" /\ Here(r).call = "insert"
    BY <2>1, Zenon DEF At
  <2>4. Here(r) = FirstCall(req[r].todo) /\ Here(r) \in CallSet
    BY <1>0, <2>3, ActiveIs, Zenon
  <2>5. Here(r).call # "remove" /\ Here(r).call # "append"
    BY <2>3
  <2>6. FirstCall(m.todo).role \in Shared \/ FirstCall(m.todo).call # "remove" \/ m.op = "none"
    BY <2>2, RemoveRole
  <2>7. ComesTo(m, log)
    <3>1. ~ Appended(req[r], m, FirstCall(req[r].todo))
      BY <2>4, <2>5, Zenon DEF Appended
    <3>2. FirstCall(req[r].todo) \in CallSet
      BY <2>4, Zenon
    <3> QED BY <2>2, <2>6, <3>1, <3>2, WentComes, Zenon
  <2>8. ComesTo(n, log)
    <3>1. CASE m.op = "none"
      <4>1. n.op \notin {"share", "recreate"}
        BY <2>2, <3>1
      <4> QED BY <4>1, Zenon DEF ComesTo
    <3>2. CASE m.op # "none"
      BY <2>2, <2>7, <3>2, Zenon DEF ComesTo
    <3> QED BY <3>1, <3>2
  <2>9. LeavesOff(req[r], log, spoiled)
    BY <2>4, <2>5, Zenon DEF LeavesOff
  <2> QED BY <1>2, <2>1, <2>2, <2>8, <2>9, Zenon
<1>6. CASE CreateNs(r)
  <2>1. At(r, "createNs") /\ Frame
    BY <1>6, Zenon DEF CreateNs, history
  <2>2. PICK n \in ReqSet : FirstCall(n.todo).call = "insert" /\ req' = [req EXCEPT ![r] = n]
    BY <1>6, CreateNsIs, Zenon
  <2>3. req[r].op # "none" /\ Here(r).call = "createNs"
    BY <2>1, Zenon DEF At
  <2>4. Here(r) = FirstCall(req[r].todo)
    BY <1>0, <2>3, ActiveIs, Zenon
  <2>5. Here(r).call # "remove" /\ FirstCall(n.todo).call # "remove"
    BY <2>2, <2>3
  <2>6. LeavesOff(req[r], log, spoiled) /\ ComesTo(n, log)
    BY <2>4, <2>5, Zenon DEF LeavesOff, ComesTo
  <2> QED BY <1>2, <2>1, <2>2, <2>6, Zenon
<1>7. CASE List(r)
  <2>1. Frame /\ req[r].op # "none"
    BY <1>7, Zenon DEF List, world, history, At
  <2>2. Here(r).call = "list"
    BY <1>7, ListIs, Zenon
  <2>3. PICK n \in ReqSet : /\ req' = [req EXCEPT ![r] = n]
                            /\ n = Idle \/ FirstCall(n.todo).call = "deleteNs"
    BY <1>7, ListIs, Zenon
  <2>4. Here(r) = FirstCall(req[r].todo)
    BY <1>0, <2>1, ActiveIs, Zenon
  <2>5. Here(r).call # "remove" /\ "deleteNs" # "remove"
    BY <2>2
  <2>6. LeavesOff(req[r], log, spoiled)
    BY <2>4, <2>5, Zenon DEF LeavesOff
  <2>7. ComesTo(n, log)
    <3>1. CASE n = Idle
      BY <3>1, IdleComes
    <3>2. CASE FirstCall(n.todo).call = "deleteNs"
      BY <2>5, <3>2, Zenon DEF ComesTo
    <3> QED BY <2>3, <3>1, <3>2
  <2> QED BY <1>2, <2>1, <2>3, <2>6, <2>7, Zenon
<1>8. CASE RemoveAll(r)
  <2>1. Frame /\ req[r].op # "none"
    BY <1>8, Zenon DEF RemoveAll, world, At
  <2>2. Here(r).call = "removeAll" /\ req[r].op = "delete"
    BY <1>8, RemoveAllIs, Zenon
  <2>3. PICK n \in ReqSet : req' = [req EXCEPT ![r] = n] /\ n.op = req[r].op
    BY <1>8, RemoveAllIs, Zenon
  <2>4. Here(r) = FirstCall(req[r].todo)
    BY <1>0, <2>1, ActiveIs, Zenon
  <2>5. Here(r).call # "remove" /\ n.op \notin {"share", "recreate"}
    BY <2>2, <2>3
  <2>6. LeavesOff(req[r], log, spoiled) /\ ComesTo(n, log)
    BY <2>4, <2>5, Zenon DEF LeavesOff, ComesTo
  <2> QED BY <1>2, <2>1, <2>3, <2>6, Zenon
<1>9. CASE Get(r)
  <2> DEFINE p == req[r].at
             b == Here(r).role
  <2>1. Reads(r) /\ Frame
    BY <1>9, GetIs, Zenon DEF world, history
  <2>2. req[r].op # "none" /\ Here(r).call \in {"append", "remove", "unauthorize"}
    BY <2>1, ReadsIs, Zenon
  <2>3. /\ Here(r) = FirstCall(req[r].todo) /\ req[r] \in ReqSet /\ b \in Roles /\ p \in Places
        /\ Here(r).who \in Subjects
    BY <1>0, <2>2, ActiveIs, Zenon
  <2>4. Here(r).call # "createNs" /\ spoiled \subseteq spoiled'
    BY <2>1, <2>2
  <2>5. CASE req' = [req EXCEPT ![r].got = [version |-> Len(log[p][b]), who |-> Now(p, b)]]
    <3> DEFINE read == [version |-> Len(log[p][b]), who |-> Now(p, b)]
               n == [req[r] EXCEPT !.got = read]
    <3>1. read \in Reading
      <4>1. Len(log[p][b]) \in Nat /\ Now(p, b) \in Bindings
        BY <1>0, <2>3, NowIs, Zenon
      <4> QED BY <4>1 DEF Reading
    <3>2. req' = [req EXCEPT ![r] = n]
      BY <2>5, Zenon
    <3> HIDE DEF read
    <3>3. n \in ReqSet /\ Same(req[r], n)
      BY <2>3, <3>1 DEF ReqSet, Same
    <3> HIDE DEF n
    <3>4. Calm(r, n)
      BY <2>1, <2>4, <3>2, <3>3, Zenon DEF Calm
    <3> QED BY <3>4, Zenon
  <2>6. CASE GiveUp(r) /\ Here(r).call = "remove" /\ Now(p, b) = Gone
    <3>1. BoundIn(log, p, b) = {}
      BY <2>6, BoundIs DEF Bound
    <3>2. LeavesOff(req[r], log, spoiled')
      BY <2>3, <3>1, Zenon DEF LeavesOff
    <3> QED BY <2>1, <2>2, <2>4, <2>6, <3>2, GiveUpCalm
  <2>7. CASE Continue(r) /\ Here(r).call = "append" /\ Here(r).who \in Now(p, b)
    <3>1. Here(r).who \in BoundIn(log, p, b)
      <4>1. Here(r).who \notin Gone
        BY <2>3, NobodyIsNoSubject
      <4>2. Bound(p, b) = BoundIn(log, p, b)
        BY BoundIs
      <4> QED BY <2>7, <4>1, <4>2 DEF Bound
    <3>2. "append" # "remove"
      OBVIOUS
    <3>3. LeavesOff(req[r], log, spoiled')
      BY <2>3, <2>7, <3>2, Zenon DEF LeavesOff
    <3> QED BY <2>1, <2>2, <2>4, <2>7, <3>1, <3>3, ContinueCalm
  <2>8. CASE Continue(r) /\ Here(r).call # "append" /\ Now(p, b) \in {{}, Gone}
    <3>1. BoundIn(log, p, b) = {}
      BY <2>8, BoundIs DEF Bound
    <3>2. LeavesOff(req[r], log, spoiled')
      BY <2>3, <3>1, Zenon DEF LeavesOff
    <3> QED BY <2>1, <2>2, <2>4, <2>8, <3>2, ContinueCalm
  <2> QED BY <1>9, <2>5, <2>6, <2>7, <2>8, GetIs, Zenon
<1>10. CASE PutRefused(r) \/ Fails(r)
  <2>1. /\ UNCHANGED world /\ killed' = killed /\ spoiled' = spoiled \cup {Here(r).who}
        /\ req[r].op # "none" /\ (GiveUp(r) \/ (Continue(r) /\ Ignored(r)))
    <3>1. CASE PutRefused(r)
      BY <3>1, ReadsIs, Zenon DEF PutRefused, Spoil
    <3>2. CASE Fails(r)
      BY <3>2, FailsIs, Zenon
    <3> QED BY <1>10, <3>1, <3>2
  <2>2. log' = log
    BY <2>1, Zenon DEF world
  <2>3. Here(r) = FirstCall(req[r].todo)
    BY <1>0, <2>1, ActiveIs, Zenon
  <2>4. Here(r).who \in spoiled' /\ spoiled \subseteq spoiled'
    BY <2>1
  <2>5. LeavesOff(req[r], log, spoiled')
    BY <2>3, <2>4, Zenon DEF LeavesOff
  <2>6. CASE GiveUp(r)
    BY <2>1, <2>2, <2>4, <2>5, <2>6, GiveUpCalm
  <2>7. CASE Continue(r) /\ Ignored(r)
    <3>1. Here(r).call # "append" /\ Here(r).call # "createNs"
      BY <2>7 DEF Ignored
    <3> QED BY <2>1, <2>2, <2>4, <2>5, <2>7, <3>1, ContinueCalm
  <2> QED BY <2>1, <2>6, <2>7
<1>11. CASE NamespaceLost(r)
  <2>1. /\ req[r].op # "none" /\ GiveUp(r) /\ spoiled' = spoiled \cup {Here(r).who}
        /\ log' = log /\ killed' = killed
    BY <1>11, LostIs, Zenon
  <2>2. Here(r) = FirstCall(req[r].todo)
    BY <1>0, <2>1, ActiveIs, Zenon
  <2>3. Here(r).who \in spoiled' /\ spoiled \subseteq spoiled'
    BY <2>1
  <2>4. LeavesOff(req[r], log, spoiled')
    BY <2>2, <2>3, Zenon DEF LeavesOff
  <2> QED BY <2>1, <2>3, <2>4, GiveUpCalm
<1> QED BY <1>3, <1>4, <1>5, <1>6, <1>7, <1>8, <1>9, <1>10, <1>11, Zenon DEF Works, Errs

LEMMA WroteOthers ==
  ASSUME NEW r, Wrote(r), NEW y, y # Here(r).who, NEW p \in Places, NEW d \in Roles
  PROVE  y \in BoundIn(log', p, d) <=> y \in BoundIn(log, p, d)
<1>1. CASE p = req[r].at /\ d = Here(r).role
  <2>1. \/ BoundIn(log', p, d) = Bound(p, d) \cup {Here(r).who}
        \/ BoundIn(log', p, d) = Bound(p, d) \ {Here(r).who}
    BY <1>1, Zenon DEF Wrote
  <2>2. Bound(p, d) = BoundIn(log, p, d)
    BY BoundIs
  <2> QED BY <2>1, <2>2
<1>2. CASE p # req[r].at \/ d # Here(r).role
  <2>1. log'[p][d] = log[p][d]
    BY <1>2, Zenon DEF Wrote, Only
  <2> QED BY <2>1 DEF BoundIn
<1> QED BY <1>1, <1>2

(* A binding of another place, or another binding. *)
LEMMA WroteElsewhere ==
  ASSUME NEW r, Wrote(r), NEW p \in Places, NEW d \in Roles, p # req[r].at \/ d # Here(r).role
  PROVE  BoundIn(log', p, d) = BoundIn(log, p, d)
<1>1. log'[p][d] = log[p][d]
  BY Zenon DEF Wrote, Only
<1> QED BY <1>1 DEF BoundIn

LEMMA SwitchingCalm ==
  ASSUME Types, Switching, NEW r \in Requests, NEW n, Calm(r, n)
  PROVE  Switching'
<1>1. ReqOK
  BY Zenon DEF Types
<1>2. /\ n \in ReqSet /\ req' = [req EXCEPT ![r] = n]
      /\ log' = log /\ killed' = killed /\ spoiled \subseteq spoiled'
      /\ Same(req[r], n) \/ LeavesOff(req[r], log, spoiled')
  BY Zenon DEF Calm
<1>3. req'[r] = n /\ \A x \in Requests \ {r} : req'[x] = req[x]
  <2>1. Turns(r, n) /\ \A x \in Requests \ {r} : req'[x] = req[x]
    BY <1>1, <1>2, TurnsAlone, Zenon
  <2> QED BY <2>1, Zenon DEF Turns
<1> SUFFICES ASSUME NEW p \in Places, NEW u \in Users,
                    u \in BoundIn(log', p, "coop"), u \in BoundIn(log', p, "view"),
                    u \notin spoiled', ~ killed'
             PROVE  \E x \in Requests : Removes(req'[x], p, u)
  BY Zenon DEF Switching
<1>4. u \in BoundIn(log, p, "coop") /\ u \in BoundIn(log, p, "view") /\ u \notin spoiled /\ ~ killed
  BY <1>2
<1>5. PICK x \in Requests : Removes(req[x], p, u)
  BY <1>4, Zenon DEF Switching
<1>6. CASE x # r
  BY <1>3, <1>5, <1>6, Zenon
<1>7. CASE x = r /\ Same(req[r], n)
  <2>1. Removes(n, p, u)
    BY <1>5, <1>7, Zenon DEF Removes, Same
  <2> QED BY <1>3, <2>1, Zenon
<1>8. CASE x = r /\ LeavesOff(req[r], log, spoiled')
  <2>1. /\ req[r].op # "none" /\ req[r].at = p
        /\ FirstCall(req[r].todo).call = "remove" /\ FirstCall(req[r].todo).who = u
    BY <1>5, <1>8, Zenon DEF Removes
  <2>2. BoundIn(log, p, FirstCall(req[r].todo).role) = {}
    BY <1>8, <2>1, Zenon DEF LeavesOff
  <2>3. FirstCall(req[r].todo).role \in Shared
    <3>1. req[r] \in ReqSet /\ RequestOK(scope, made, req[r])
      BY <1>1, <2>1, ActiveIs, Zenon
    <3> QED BY <2>1, <3>1, RemoveRole, Zenon
  <2>4. FirstCall(req[r].todo).role = "coop" \/ FirstCall(req[r].todo).role = "view"
    BY <2>3, SharedIs
  <2> QED BY <1>4, <2>2, <2>4
<1> QED BY <1>2, <1>6, <1>7, <1>8

LEMMA SwitchingPut ==
  ASSUME Types, Switching, NEW r \in Requests, Put(r) \/ PutLost(r)
  PROVE  Switching'
<1>1. ReqOK /\ LogOK
  BY Zenon DEF Types
<1>2. Reads(r) /\ Wrote(r) /\ killed' = killed
  BY PutIs, Zenon
<1>3. PICK n \in ReqSet :
              /\ Turns(r, n)
              /\ Put(r) => Went(scope, req[r], n) /\ spoiled' = spoiled
              /\ PutLost(r) => spoiled' = spoiled \cup {Here(r).who}
  BY PutIs, Zenon
<1>4. /\ req'[r] = n /\ \A x \in Requests \ {r} : Aside(req[x], req'[x])
  BY <1>3, Zenon DEF Turns
<1>5. req[r].op # "none" /\ Here(r).call \in {"append", "remove", "unauthorize"}
  BY <1>2, ReadsIs, Zenon
<1>6. /\ Here(r) = FirstCall(req[r].todo) /\ Here(r) \in CallSet /\ req[r].at \in Places
      /\ Here(r).role \in Roles /\ req[r] \in ReqSet /\ RequestOK(scope, made, req[r])
  BY <1>1, <1>5, ActiveIs, Zenon
<1>7. spoiled \subseteq spoiled'
  BY <1>3
<1> SUFFICES ASSUME NEW p \in Places, NEW u \in Users,
                    u \in BoundIn(log', p, "coop"), u \in BoundIn(log', p, "view"),
                    u \notin spoiled', ~ killed'
             PROVE  \E x \in Requests : Removes(req'[x], p, u)
  BY Zenon DEF Switching
<1>8. \A d \in Shared : u \in BoundIn(log', p, d)
  BY SharedIs
<1>9. CASE p = req[r].at /\ Here(r).role \in Shared /\ Here(r).who = u
  <2>1. u \in BoundIn(log', p, Here(r).role)
    BY <1>8, <1>9
  <2>2. Here(r).call = "append"
    <3>1. Here(r).call # "append" => BoundIn(log', p, Here(r).role) = Bound(p, Here(r).role) \ {u}
      BY <1>2, <1>9, Zenon DEF Wrote
    <3> QED BY <2>1, <3>1
  <2>3. ~ PutLost(r)
    BY <1>3, <1>9
  <2>4. Went(scope, req[r], n)
    BY <1>3, <2>3, Zenon
  <2>5. ~ EndOK(FirstCall(req[r].todo))
    BY <1>6, <1>9, <2>2, Zenon DEF EndOK
  <2>6. /\ n.op = req[r].op /\ n.at = req[r].at
        /\ Link(scope, req[r].op, FirstCall(req[r].todo), FirstCall(n.todo))
    BY <2>4, <2>5, Zenon DEF Went
  <2>7. FirstCall(n.todo) = Call("remove", Other(Here(r).role), u)
    BY <1>6, <1>9, <2>2, <2>6, Zenon DEF Link
  <2>8. FirstCall(n.todo).call = "remove" /\ FirstCall(n.todo).who = u
    BY <2>7 DEF Call
  <2>9. Removes(n, p, u)
    BY <1>5, <1>9, <2>6, <2>8, Zenon DEF Removes
  <2> QED BY <1>4, <2>9, Zenon
<1>10. CASE ~ (p = req[r].at /\ Here(r).role \in Shared /\ Here(r).who = u)
  <2>1. ASSUME NEW d \in Shared
        PROVE  u \in BoundIn(log, p, d)
    <3>1. d \in Roles
      BY DEF Shared, Roles
    <3>2. CASE u # Here(r).who
      BY <1>2, <1>8, <3>1, <3>2, WroteOthers, Zenon
    <3>3. CASE u = Here(r).who
      <4>1. p # req[r].at \/ d # Here(r).role
        BY <1>10, <3>3, Zenon
      <4>2. BoundIn(log', p, d) = BoundIn(log, p, d)
        BY <1>2, <3>1, <4>1, WroteElsewhere, Zenon
      <4> QED BY <1>8, <4>2
    <3> QED BY <3>2, <3>3
  <2>2. /\ u \in BoundIn(log, p, "coop") /\ u \in BoundIn(log, p, "view") /\ u \notin spoiled
        /\ ~ killed
    BY <1>2, <1>7, <2>1, SharedIs
  <2>3. PICK x \in Requests : Removes(req[x], p, u)
    BY <2>2, Zenon DEF Switching
  <2>4. x # r
    <3>1. ASSUME x = r
          PROVE  FALSE
      <4>1. /\ req[r].at = p /\ FirstCall(req[r].todo).call = "remove"
            /\ FirstCall(req[r].todo).who = u
        BY <2>3, <3>1, Zenon DEF Removes
      <4>2. FirstCall(req[r].todo).role \in Shared
        BY <1>5, <1>6, <4>1, RemoveRole, Zenon
      <4> QED BY <1>6, <1>10, <4>1, <4>2, Zenon
    <3> QED BY <3>1
  <2>5. Aside(req[x], req'[x])
    BY <1>4, <2>4, Zenon
  <2>6. Removes(req'[x], p, u)
    BY <2>3, <2>5, Zenon DEF Removes, Aside
  <2> QED BY <2>6, Zenon
<1> QED BY <1>9, <1>10

LEMMA FollowsCalm ==
  ASSUME Types, Switched, NEW r \in Requests, NEW n, Calm(r, n)
  PROVE  Switched'
<1>1. ReqOK
  BY Zenon DEF Types
<1>2. /\ n \in ReqSet /\ req' = [req EXCEPT ![r] = n] /\ log' = log
      /\ Same(req[r], n) \/ ComesTo(n, log)
  BY Zenon DEF Calm
<1>3. req'[r] = n /\ \A x \in Requests \ {r} : req'[x] = req[x]
  <2>1. Turns(r, n) /\ \A x \in Requests \ {r} : req'[x] = req[x]
    BY <1>1, <1>2, TurnsAlone, Zenon
  <2> QED BY <2>1, Zenon DEF Turns
<1>4. Follows(log, n)
  <2>1. CASE Same(req[r], n)
    BY <2>1, Zenon DEF Same, Switched, Follows
  <2>2. CASE ComesTo(n, log)
    BY <2>2, Zenon DEF ComesTo, Follows
  <2> QED BY <1>2, <2>1, <2>2
<1> QED BY <1>2, <1>3, <1>4, Zenon DEF Switched

LEMMA FollowsPut ==
  ASSUME Types, Switched, NEW r \in Requests, Put(r) \/ PutLost(r)
  PROVE  Switched'
<1>1. ReqOK /\ LogOK
  BY Zenon DEF Types
<1>2. Reads(r) /\ Wrote(r)
  BY PutIs, Zenon
<1>3. PICK n \in ReqSet :
              /\ Turns(r, n) /\ RequestOK(scope, made, n)
              /\ Put(r) => Went(scope, req[r], n)
              /\ PutLost(r) => Left(req[r], n)
              /\ \A x \in Requests \ {r} : req[x].op # "none" => Here(r).who \in req'[x].crossed
  BY PutIs, Zenon
<1>4. /\ req'[r] = n /\ \A x \in Requests \ {r} : Aside(req[x], req'[x])
  BY <1>3, Zenon DEF Turns
<1>5. req[r].op # "none"
  BY <1>2, ReadsIs, Zenon
<1>6. Here(r) = FirstCall(req[r].todo) /\ Here(r) \in CallSet
  BY <1>1, <1>5, ActiveIs, Zenon
<1>7. Follows(log', n)
  <2>1. CASE Left(req[r], n)
    <3>1. ComesTo(n, log')
      BY <2>1, LeftComes
    <3> QED BY <3>1, Zenon DEF ComesTo, Follows
  <2>2. CASE Went(scope, req[r], n)
    <3>1. FirstCall(n.todo).role \in Shared \/ FirstCall(n.todo).call # "remove" \/ n.op = "none"
      BY <1>3, RemoveRole
    <3>2. CASE ComesTo(n, log')
      BY <3>2, Zenon DEF ComesTo, Follows
    <3>3. CASE Appended(req[r], n, Here(r))
      <4>0. /\ n.at = req[r].at /\ Here(r).call = "append"
            /\ FirstCall(n.todo) = Call("remove", Other(Here(r).role), Here(r).who)
            /\ Here(r).role = Other(FirstCall(n.todo).role)
        BY <3>3, Zenon DEF Appended
      <4>1. FirstCall(n.todo).who = Here(r).who
        BY <4>0 DEF Call
      <4>2. BoundIn(log', req[r].at, Here(r).role) = Bound(req[r].at, Here(r).role) \cup {Here(r).who}
        BY <1>2, <4>0, Zenon DEF Wrote
      <4>3. Here(r).who \in BoundIn(log', req[r].at, Here(r).role)
        BY <4>2
      <4> QED BY <4>0, <4>1, <4>3, Zenon DEF Follows
    <3>4. FirstCall(req[r].todo) \in CallSet
      BY <1>6, Zenon
    <3>5. ComesTo(n, log') \/ Appended(req[r], n, FirstCall(req[r].todo))
      BY <2>2, <3>1, <3>4, WentComes, Zenon
    <3> QED BY <1>6, <3>2, <3>3, <3>5, Zenon
  <2> QED BY <1>3, <2>1, <2>2
<1>8. ASSUME NEW x \in Requests, x # r
      PROVE  Follows(log', req'[x])
  <2>1. Aside(req[x], req'[x]) /\ Follows(log, req[x])
    BY <1>4, <1>8, Zenon DEF Switched
  <2> DEFINE q == req'[x]
             c == FirstCall(q.todo)
  <2> SUFFICES ASSUME q.op \in {"share", "recreate"}, c.call = "remove", c.who \notin q.crossed,
                      \/ c.who \in BoundIn(log', q.at, "coop")
                      \/ c.who \in BoundIn(log', q.at, "view")
               PROVE  c.who \in BoundIn(log', q.at, Other(c.role))
    BY Zenon DEF Follows
  <2>2. /\ q.op = req[x].op /\ q.at = req[x].at /\ q.todo = req[x].todo
        /\ req[x].crossed \subseteq q.crossed
    BY <2>1, Zenon DEF Aside
  <2>3. req[x].op # "none" /\ c.who \notin req[x].crossed
    BY <2>2
  <2>4. c.who # Here(r).who
    BY <1>3, <1>8, <2>3, Zenon
  <2>5. /\ req[x].at \in Places /\ req[x] \in ReqSet /\ RequestOK(scope, made, req[x])
    BY <1>1, <2>3, ActiveIs, Zenon
  <2>6. c.role \in Shared
    BY <2>2, <2>3, <2>5, RemoveRole, Zenon
  <2>7. Other(c.role) \in Roles
    BY <2>6, OtherIs
  <2>8. ASSUME NEW d \in Roles
        PROVE  c.who \in BoundIn(log', q.at, d) <=> c.who \in BoundIn(log, q.at, d)
    BY <1>2, <2>2, <2>4, <2>5, WroteOthers, Zenon
  <2>9. c.who \in BoundIn(log, q.at, "coop") \/ c.who \in BoundIn(log, q.at, "view")
    BY <2>8, SharedIs, Zenon
  <2>10. c.who \in BoundIn(log, q.at, Other(c.role))
    BY <2>1, <2>2, <2>3, <2>9, Zenon DEF Follows
  <2> QED BY <2>7, <2>8, <2>10, Zenon
<1> QED BY <1>4, <1>7, <1>8, Zenon DEF Switched

Switch == Switching /\ Switched

LEMMA SwitchStill ==
  ASSUME Switch, log' = log, req' = req, spoiled' = spoiled, killed' = killed
  PROVE  Switch'
BY Zenon DEF Switch, Switching, Switched

LEMMA SwitchFresh ==
  ASSUME req = [r \in Requests |-> Idle], \A p \in Places, b \in Shared : BoundIn(log, p, b) = {}
  PROVE  Switch
<1>1. \A r \in Requests : req[r] = Idle
  BY Zenon
<1>2. Switched
  <2>1. Idle.op \notin {"share", "recreate"}
    BY IdleIs
  <2>2. Follows(log, Idle)
    BY <2>1, Zenon DEF Follows
  <2> QED BY <1>1, <2>2, Zenon DEF Switched
<1>3. Switching
  <2>1. \A p \in Places : BoundIn(log, p, "coop") = {}
    BY SharedIs
  <2> QED BY <2>1 DEF Switching
<1> QED BY <1>2, <1>3, Zenon DEF Switch

LEMMA SwitchTerminated ==
  ASSUME Types, Switch, NEW x \in Ids, Terminated(x)
  PROVE  Switch'
<1>1. LogOK /\ ReqOK
  BY Zenon DEF Types
<1>2. /\ \A b \in Roles : BoundIn(log', x, b) = {}
      /\ \A p \in Places \ {x} : log'[p] = log[p]
  BY <1>1, TerminatedLog, Zenon
<1>3. req' = req /\ spoiled' = spoiled /\ killed' = killed
  BY Zenon DEF Terminated, history
<1>4. ASSUME NEW p \in Places, NEW b \in Roles, NEW u, u \in BoundIn(log', p, b)
      PROVE  p # x /\ \A d : BoundIn(log', p, d) = BoundIn(log, p, d)
  <2>1. p # x
    BY <1>2, <1>4
  <2>2. log'[p] = log[p]
    BY <1>2, <2>1, Zenon
  <2> QED BY <2>1, <2>2 DEF BoundIn
<1>5. Switching'
  <2> SUFFICES ASSUME NEW p \in Places, NEW u \in Users,
                      u \in BoundIn(log', p, "coop"), u \in BoundIn(log', p, "view"),
                      u \notin spoiled', ~ killed'
               PROVE  \E r \in Requests : Removes(req'[r], p, u)
    BY Zenon DEF Switching
  <2>1. u \in BoundIn(log, p, "coop") /\ u \in BoundIn(log, p, "view")
    BY <1>4, SharedIs
  <2> QED BY <1>3, <2>1, Zenon DEF Switch, Switching
<1>6. ASSUME NEW r \in Requests
      PROVE  Follows(log', req'[r])
  <2> DEFINE q == req[r]
             c == FirstCall(q.todo)
  <2> SUFFICES ASSUME q.op \in {"share", "recreate"}, c.call = "remove", c.who \notin q.crossed,
                      \/ c.who \in BoundIn(log', q.at, "coop")
                      \/ c.who \in BoundIn(log', q.at, "view")
               PROVE  c.who \in BoundIn(log', q.at, Other(c.role))
    BY <1>3, Zenon DEF Follows
  <2>1. q.op # "none"
    OBVIOUS
  <2>2. q.at \in Places
    BY <1>1, <2>1, ActiveIs, Zenon
  <2>3. \A d : BoundIn(log', q.at, d) = BoundIn(log, q.at, d)
    BY <1>4, <2>2, SharedIs, Zenon
  <2>4. Follows(log, q)
    BY Zenon DEF Switch, Switched
  <2> QED BY <2>3, <2>4, Zenon DEF Follows
<1> QED BY <1>5, <1>6, Zenon DEF Switch, Switched

LEMMA SwitchRestart ==
  ASSUME Types, Switch, Restart
  PROVE  Switch'
<1>1. /\ Migrate /\ spoiled' = spoiled /\ killed' = (killed \/ Active # {})
      /\ req' = [r \in Requests |-> Idle]
  BY Zenon DEF Restart
<1>2. \A r \in Requests : req'[r] = Idle
  BY <1>1, Zenon
<1>3. Switched'
  <2>1. Idle.op \notin {"share", "recreate"}
    BY IdleIs
  <2>2. Follows(log', Idle)
    BY <2>1, Zenon DEF Follows
  <2> QED BY <1>2, <2>2, Zenon DEF Switched
<1>4. Switching'
  <2> SUFFICES ASSUME NEW p \in Places, NEW u \in Users,
                      u \in BoundIn(log', p, "coop"), u \in BoundIn(log', p, "view"),
                      u \notin spoiled', ~ killed'
               PROVE  FALSE
    BY Zenon DEF Switching
  <2>1. ~ killed /\ Active = {}
    BY <1>1, Zenon
  <2>2. PICK r \in Requests : Removes(req[r], p, u)
    <3>1. \A b \in Shared : log'[p][b] = log[p][b]
      BY <1>1, MigrateIs, Zenon DEF Types
    <3>2. u \in BoundIn(log, p, "coop") /\ u \in BoundIn(log, p, "view")
      BY <3>1, SharedIs, Zenon DEF BoundIn
    <3> QED BY <1>1, <2>1, <3>2, Zenon DEF Switch, Switching
  <2>3. r \in Active
    BY <2>2, Zenon DEF Removes, Active
  <2> QED BY <2>1, <2>3
<1> QED BY <1>3, <1>4, Zenon DEF Switch

LEMMA SwitchInit ==
  ASSUME Init
  PROVE  Switch
<1>1. PICK first \in {0, 1} :
        log = [p \in Places |-> [b \in Roles |->
            IF first = 1 /\ p = Place(1) /\ b = "admin"
            THEN <<{Owner} \cup (IF scope = "ns" THEN {Default} ELSE {})>>
            ELSE <<Gone>>]]
  BY Zenon DEF Init
<1>2. ASSUME NEW p \in Places, NEW b \in Shared
      PROVE  BoundIn(log, p, b) = {}
  <2>1. b \in Roles /\ b # "admin"
    BY DEF Shared, Roles
  <2>2. log[p][b] = <<Gone>>
    BY <1>1, <2>1
  <2>3. Len(<<Gone>>) = 1 /\ <<Gone>>[1] = Gone
    OBVIOUS
  <2> QED BY <2>2, <2>3 DEF BoundIn
<1>3. req = [r \in Requests |-> Idle]
  BY Zenon DEF Init
<1> QED BY <1>2, <1>3, SwitchFresh, Zenon

LEMMA SwitchNext ==
  ASSUME Types, Switch, [Next]_vars
  PROVE  Switch'
<1>1. Switching /\ Switched
  BY Zenon DEF Switch
<1>2. CASE UNCHANGED vars
  <2>1. log' = log /\ req' = req /\ spoiled' = spoiled /\ killed' = killed
    BY <1>2 DEF vars, world, history
  <2> QED BY <2>1, SwitchStill, Zenon
<1>3. ASSUME NEW r \in Requests, Asks(r) \/ Works(r) \/ Errs(r)
      PROVE  Switch'
  <2>1. CASE Put(r) \/ PutLost(r)
    BY <1>1, <2>1, SwitchingPut, FollowsPut, Zenon DEF Switch
  <2>2. CASE ~ Put(r) /\ ~ PutLost(r)
    <3>1. PICK n : Calm(r, n)
      BY <1>3, <2>2, CalmSteps, Zenon
    <3> QED BY <1>1, <3>1, SwitchingCalm, FollowsCalm, Zenon DEF Switch
  <2> QED BY <2>1, <2>2, Zenon
<1>4. ASSUME NEW p \in Places, NEW b \in Shared, Join(p, b)
      PROVE  Switch'
  <2>1. log' = log /\ req' = req /\ spoiled' = spoiled /\ killed' = killed
    BY <1>4, Zenon DEF Join, history
  <2> QED BY <2>1, SwitchStill, Zenon
<1> QED BY <1>2, <1>3, <1>4, SwitchTerminated, SwitchRestart, Zenon DEF Next

(* AsCooperator and AsViewer add a user to one binding before they take    *)
(* him from the other, and an update of a version that has changed is      *)
(* refused: so whoever is in both is about to be taken from one by a       *)
(* request under way, and nobody stays in both when the requests about him *)
(* are over (NotBoth).                                                     *)
THEOREM NeverBoth == Spec => []NotBoth
<1>1. Types /\ Switch => NotBoth
  <2> SUFFICES ASSUME Types, Switch, NEW p \in Places, NEW u \in Users,
                      u \notin spoiled, ~ killed, \A r \in Active : u \notin Concerns(r),
                      u \in Bound(p, "coop"), u \in Bound(p, "view")
               PROVE  FALSE
    BY Zenon DEF NotBoth
  <2>1. u \in BoundIn(log, p, "coop") /\ u \in BoundIn(log, p, "view")
    BY BoundIs
  <2>2. PICK r \in Requests : Removes(req[r], p, u)
    BY <2>1, Zenon DEF Switch, Switching
  <2>3. req[r].op # "none" /\ req[r].todo[1].calls[1].who = u
    BY <2>2, Zenon DEF Removes, FirstCall
  <2>4. ReqOK
    BY Zenon DEF Types
  <2>5. req[r].todo \in Programs /\ ProgramOK(scope, req[r].op, req[r].todo)
    BY <2>3, <2>4, ActiveIs, Zenon
  <2>6. /\ req[r].todo \in Seq(GroupSet) /\ Len(req[r].todo) > 0
        /\ req[r].todo[1].calls \in Seq(CallSet) /\ Len(req[r].todo[1].calls) > 0
    <3>1. req[r].todo \in Seq(GroupSet)
      BY <2>5, Zenon DEF Programs, GroupSet, CallSet
    <3> QED BY <2>5, <3>1, FirstIs, Zenon
  <2>7. \A S : \A s \in Seq(S) : Len(s) > 0 => 1 \in DOMAIN s
    OBVIOUS
  <2>8. 1 \in DOMAIN req[r].todo /\ 1 \in DOMAIN req[r].todo[1].calls
    BY <2>6, <2>7, Zenon
  <2>9. u \in Concerns(r)
    <3> DEFINE W(calls) == {calls[c].who : c \in DOMAIN calls}
               S == {req[r].todo[g].calls : g \in DOMAIN req[r].todo}
               mine == req[r].todo[1].calls
    <3>1. u \in W(mine)
      BY <2>3, <2>8
    <3>2. mine \in S
      BY <2>8
    <3>3. Concerns(r) = UNION {W(calls) : calls \in S}
      BY Zenon DEF Concerns
    <3> HIDE DEF W, S, mine
    <3>4. W(mine) \in {W(calls) : calls \in S}
      BY <3>2
    <3> QED BY <3>1, <3>3, <3>4, Zenon
  <2>10. r \in Active
    BY <2>3, Zenon DEF Active
  <2> QED BY <2>9, <2>10, Zenon
<1> QED BY <1>1, InitTypes, NextTypes, SwitchInit, SwitchNext, PTL DEF Spec

(* Only these steps give a binding of cooperators or viewers a new version. *)
LEMMA WhoWrites ==
  ASSUME Types, [Next]_vars, NEW p \in Places, NEW b \in Shared, log'[p][b] # log[p][b]
  PROVE  \/ \E r \in Requests : Put(r) \/ PutLost(r)
         \/ \E x \in Ids : Terminated(x)
<1>1. CASE UNCHANGED vars
  <2>1. log' = log
    BY <1>1 DEF vars, world
  <2> QED BY <2>1
<1>2. ASSUME NEW r \in Requests, Asks(r) \/ Works(r) \/ Errs(r)
      PROVE  Put(r) \/ PutLost(r)
  <2> SUFFICES ASSUME ~ Put(r), ~ PutLost(r) PROVE FALSE
    OBVIOUS
  <2>1. PICK n : Calm(r, n)
    BY <1>2, CalmSteps, Zenon
  <2> QED BY <2>1, Zenon DEF Calm
<1>3. ASSUME NEW x \in Places, NEW d \in Shared, Join(x, d)
      PROVE  FALSE
  BY <1>3, Zenon DEF Join
<1>4. CASE Restart
  BY <1>4, MigrateIs, Zenon DEF Types, Restart
<1> QED BY <1>1, <1>2, <1>3, <1>4, Zenon DEF Next

LEMMA LosesRole ==
  ASSUME Types, Switched, NEW r \in Requests, Put(r) \/ PutLost(r),
         NEW p \in Places, NEW u \in Users, HasRole(p, u), ~ HasRole(p, u)'
  PROVE  /\ r \in Active /\ Here(r).who = u /\ req'[r] # req[r]
         /\ req[r].op \in {"unshare", "delete"} \/ u \in req[r].crossed
<1>1. ReqOK /\ LogOK
  BY Zenon DEF Types
<1>2. Reads(r) /\ Wrote(r) /\ req[r].got # NoRead
  BY PutIs, Zenon
<1>3. PICK n \in ReqSet : Turns(r, n) /\ n.got = NoRead
  BY PutIs, Zenon
<1>4. req'[r] # req[r]
  BY <1>2, <1>3, Zenon DEF Turns
<1>5. req[r].op # "none" /\ Here(r).call \in {"append", "remove", "unauthorize"}
  BY <1>2, ReadsIs, Zenon
<1>6. r \in Active
  BY <1>5, Zenon DEF Active
<1>7. /\ Here(r) = FirstCall(req[r].todo) /\ CallOK(scope, req[r].op, Here(r)) /\ req[r].at \in Places
      /\ req[r] \in ReqSet
  BY <1>1, <1>5, ActiveIs, Zenon
<1>8. PICK b \in Shared : u \in BoundIn(log, p, b)
  <2>1. u \in Bound(p, "coop") \/ u \in Bound(p, "view")
    BY DEF HasRole
  <2> QED BY <2>1, BoundIs, SharedIs
<1>9. \A d \in Shared : u \notin BoundIn(log', p, d)
  <2>1. u \notin Bound(p, "coop")' /\ u \notin Bound(p, "view")'
    BY DEF HasRole
  <2>2. Bound(p, "coop")' = BoundIn(log', p, "coop") /\ Bound(p, "view")' = BoundIn(log', p, "view")
    BY Zenon DEF Bound, Now, BoundIn
  <2> QED BY <2>1, <2>2, SharedIs
<1>10. b \in Roles /\ Shared \subseteq Roles
  BY SharedIs
<1>11. Here(r).who = u
  BY <1>2, <1>8, <1>9, <1>10, WroteOthers, Zenon
<1>12. p = req[r].at /\ b = Here(r).role
  BY <1>2, <1>8, <1>9, <1>10, WroteElsewhere, Zenon
<1>13. Here(r).call # "append"
  <2>1. ASSUME Here(r).call = "append" PROVE FALSE
    <3>1. BoundIn(log', p, b) = Bound(p, b) \cup {u}
      BY <1>2, <1>11, <1>12, <2>1, Zenon DEF Wrote
    <3> QED BY <1>9, <3>1
  <2> QED BY <2>1
<1>14. Here(r).call # "unauthorize"
  <2>1. b # "admin"
    BY SharedIs
  <2> QED BY <1>7, <1>12, <2>1, Zenon DEF CallOK
<1>15. Here(r).call = "remove"
  BY <1>5, <1>13, <1>14
<1>16. req[r].op # "create"
  BY <1>7, <1>15, Zenon DEF CallOK
<1>17. req[r].op \in {"share", "recreate"} => u \in req[r].crossed
  <2> SUFFICES ASSUME req[r].op \in {"share", "recreate"}, u \notin req[r].crossed
               PROVE  FALSE
    OBVIOUS
  <2>1. Other(b) \in Shared /\ Other(b) # b
    BY SharedIs DEF Other
  <2>2. u \in BoundIn(log, p, "coop") \/ u \in BoundIn(log, p, "view")
    BY <1>8, SharedIs
  <2>3. Follows(log, req[r])
    BY Zenon DEF Switched
  <2>4. u \in BoundIn(log, p, Other(b))
    BY <1>7, <1>11, <1>12, <1>15, <2>2, <2>3, Zenon DEF Follows
  <2>5. BoundIn(log', p, Other(b)) = BoundIn(log, p, Other(b))
    BY <1>2, <1>10, <1>12, <2>1, WroteElsewhere, Zenon
  <2> QED BY <1>9, <2>1, <2>4, <2>5, Zenon
<1>18. req[r].op \in {"unshare", "delete"} \/ u \in req[r].crossed
  <2>1. req[r].op \in Ops
    BY <1>7 DEF ReqSet
  <2> QED BY <1>5, <1>16, <1>17, <2>1 DEF Ops
<1> QED BY <1>4, <1>6, <1>11, <1>18, Zenon

(* A change from viewer to cooperator or back never leaves the user        *)
(* without a role: AsCooperator and AsViewer remove only whom they have    *)
(* added, unless another request about the same user came in between; and  *)
(* of the other handlers only UnShare and Delete remove anybody            *)
(* (SwitchKeepsAccess).                                                    *)
THEOREM AccessKept == Spec => SwitchKeepsAccess
<1> DEFINE Step == \A p \in Places, u \in Users :
       (HasRole(p, u) /\ ~HasRole(p, u)') =>
         \/ ns'[p] # ns[p]
         \/ \E r \in Active :
              /\ Here(r).who = u
              /\ req'[r] # req[r]
              /\ req[r].op \in {"unshare", "delete"} \/ u \in req[r].crossed
<1>1. Types /\ Switch /\ [Next]_vars => [Step]_vars
  <2> SUFFICES ASSUME Types, Switch, [Next]_vars, NEW p \in Places, NEW u \in Users,
                      HasRole(p, u), ~HasRole(p, u)'
               PROVE  \/ ns'[p] # ns[p]
                      \/ \E r \in Active :
                           /\ Here(r).who = u
                           /\ req'[r] # req[r]
                           /\ req[r].op \in {"unshare", "delete"} \/ u \in req[r].crossed
    BY Zenon
  <2>1. \E b \in Shared : log'[p][b] # log[p][b]
    BY SharedIs, Zenon DEF HasRole, Bound, Now
  <2>2. CASE \E r \in Requests : Put(r) \/ PutLost(r)
    BY <2>2, LosesRole, Zenon DEF Switch
  <2>3. ASSUME NEW x \in Ids, Terminated(x)
        PROVE  ns'[p] # ns[p]
    <3>1. WorldOK /\ LogOK
      BY Zenon DEF Types
    <3>2. \A y \in Places \ {x} : log'[y] = log[y]
      BY <2>3, <3>1, TerminatedLog, Zenon
    <3>3. p = x
      BY <3>2, Zenon DEF HasRole, Bound, Now
    <3>4. ns[x] = "terminating" /\ ns' = [ns EXCEPT ![x] = "none"]
      BY <2>3, Zenon DEF Terminated
    <3> QED BY <3>1, <3>3, <3>4 DEF WorldOK
  <2> QED BY <2>1, <2>2, <2>3, WhoWrites, Zenon
<1> QED BY <1>1, InitTypes, NextTypes, SwitchInit, SwitchNext, PTL DEF Spec, SwitchKeepsAccess

-----------------------------------------------------------------------------
(* Namespaces and their records.                                           *)

(* Request q has created the namespace p and is about to record it. *)
Records(q, p) == q.op # "none" /\ q.at = p /\ FirstCall(q.todo).call = "insert"

(* A request that is about to delete a record has deleted its namespace. *)
Forgets(s, nsp, lk, q) ==
  (s = "ns" /\ q.op # "none" /\ FirstCall(q.todo).call = "forget")
  => nsp[q.id] # "live" \/ q.id \in lk

Astray(nsp, sp, lk, p) == nsp[p] = "live" /\ p \notin sp /\ p \notin lk

Found ==
  ~ killed => \A p \in Ids : Astray(ns, spaces, leaked, p) => \E r \in Requests : Records(req[r], p)
Deleted == \A r \in Requests : Forgets(scope, ns, leaked, req[r])
Numbered == \A p \in Ids : ns[p] # "none" => p \in 1..made /\ scope = "ns"
Recorded == Found /\ Deleted /\ Numbered

(* A step of request r, in what matters here. *)
Housed(r, n) ==
  /\ Turns(r, n) /\ scope' = scope /\ killed' = killed
  /\ Forgets(scope, ns', leaked', n)
  /\ \A p \in 1..made : (ns[p] # "live" \/ p \in leaked) => (ns'[p] # "live" \/ p \in leaked')
  /\ \A p \in Ids : Astray(ns', spaces', leaked', p) =>
       \/ Records(n, p)
       \/ Astray(ns, spaces, leaked, p) /\ ~ Records(req[r], p)

LEMMA WentForgets ==
  ASSUME NEW s, NEW q, NEW n, NEW nsp, NEW lk, Went(s, q, n), FirstCall(q.todo).call # "deleteNs"
  PROVE  Forgets(s, nsp, lk, n)
<1>1. CASE n.op = "none"
  BY <1>1, Zenon DEF Forgets
<1>2. CASE n.op # "none"
  <2>1. \/ Link(s, q.op, FirstCall(q.todo), FirstCall(n.todo))
        \/ StartOK(q.op, q.todo[1], FirstCall(n.todo))
    BY <1>2, Zenon DEF Went
  <2>2. FirstCall(n.todo).call # "forget" \/ s # "ns"
    BY <2>1, Zenon DEF Link, StartOK
  <2> QED BY <2>2, Zenon DEF Forgets
<1> QED BY <1>1, <1>2

LEMMA LeftForgets ==
  ASSUME NEW s, NEW q, NEW n, NEW nsp, NEW lk, Left(q, n)
  PROVE  Forgets(s, nsp, lk, n)
<1>1. CASE n.op = "none"
  BY <1>1, Zenon DEF Forgets
<1>2. CASE n.op # "none"
  <2>1. StartOK(q.op, q.todo[1], FirstCall(n.todo))
    BY <1>2, Zenon DEF Left
  <2>2. FirstCall(n.todo).call # "forget"
    BY <2>1, Zenon DEF StartOK
  <2> QED BY <2>2, Zenon DEF Forgets
<1> QED BY <1>1, <1>2

LEMMA HousedKeeps ==
  ASSUME Types, Found, Deleted, NEW r \in Requests, NEW n, Housed(r, n)
  PROVE  Found' /\ Deleted'
<1>1. /\ req'[r] = n /\ \A x \in Requests \ {r} : Aside(req[x], req'[x])
      /\ scope' = scope /\ killed' = killed /\ Forgets(scope, ns', leaked', n)
  BY Zenon DEF Housed, Turns
<1>2. ASSUME ~ killed', NEW p \in Ids, Astray(ns', spaces', leaked', p)
      PROVE  \E x \in Requests : Records(req'[x], p)
  <2>1. Records(n, p) \/ (Astray(ns, spaces, leaked, p) /\ ~ Records(req[r], p))
    BY <1>2, Zenon DEF Housed
  <2>2. CASE Astray(ns, spaces, leaked, p) /\ ~ Records(req[r], p)
    <3>1. PICK x \in Requests : Records(req[x], p)
      BY <1>1, <1>2, <2>2, Zenon DEF Found
    <3>2. x # r
      BY <2>2, <3>1
    <3>3. Aside(req[x], req'[x])
      BY <1>1, <3>2, Zenon
    <3>4. Records(req'[x], p)
      BY <3>1, <3>3, Zenon DEF Aside, Records
    <3> QED BY <3>4, Zenon
  <2> QED BY <1>1, <2>1, <2>2, Zenon
<1>3. ASSUME NEW x \in Requests
      PROVE  Forgets(scope', ns', leaked', req'[x])
  <2>1. CASE x = r
    BY <1>1, <2>1, Zenon
  <2>2. CASE x # r
    <3>1. Aside(req[x], req'[x])
      BY <1>1, <2>2, Zenon
    <3> SUFFICES ASSUME scope = "ns", req[x].op # "none", FirstCall(req[x].todo).call = "forget"
                 PROVE  ns'[req[x].id] # "live" \/ req[x].id \in leaked'
      BY <1>1, <3>1, Zenon DEF Forgets, Aside
    <3>2. ReqOK
      BY Zenon DEF Types
    <3>3. RequestOK(scope, made, req[x]) /\ CallOK(scope, req[x].op, FirstCall(req[x].todo))
      BY <3>2, ActiveIs, Zenon
    <3>4. req[x].op \in {"delete", "recreate"}
      BY <3>3, Zenon DEF CallOK
    <3>5. req[x].op # "create"
      BY <3>4
    <3>6. req[x].id \in 1..made
      BY <3>3, <3>5, Zenon DEF RequestOK
    <3>7. ns[req[x].id] # "live" \/ req[x].id \in leaked
      BY Zenon DEF Deleted, Forgets
    <3> QED BY <3>6, <3>7, Zenon DEF Housed
  <2> QED BY <2>1, <2>2
<1> QED BY <1>2, <1>3, Zenon DEF Found, Deleted

(* Steps that leave the namespaces alone. *)
LEMMA HousedQuiet ==
  ASSUME NEW r \in Requests, NEW n, Turns(r, n), scope' = scope, killed' = killed,
         ns' = ns, spaces \subseteq spaces', leaked \subseteq leaked',
         Forgets(scope, ns, leaked', n), req[r].op = "none" \/ FirstCall(req[r].todo).call # "insert"
  PROVE  Housed(r, n)
<1>1. \A p : ~ Records(req[r], p)
  BY Zenon DEF Records
<1>2. \A p : p \in spaces => p \in spaces'
  BY Zenon
<1>3. \A p : p \in leaked => p \in leaked'
  BY Zenon
<1> QED BY <1>1, <1>2, <1>3, Zenon DEF Housed, Astray

LEMMA NumberedStill ==
  ASSUME Types, Numbered, ns' = ns, scope' = scope, made' \in Nat, made <= made'
  PROVE  Numbered'
<1>1. made \in Nat
  <2>1. WorldOK
    BY Zenon DEF Types
  <2> QED BY <2>1, NumbersAre
<1>2. \A p : p \in 1..made => p \in 1..made'
  BY <1>1
<1> QED BY <1>2, Zenon DEF Numbered

LEMMA ReadingIs ==
  ASSUME Types, NEW r \in Requests, req[r].op # "none",
         req' = [req EXCEPT ![r].got =
                   [version |-> Len(log[req[r].at][Here(r).role]), who |-> Now(req[r].at, Here(r).role)]]
  PROVE  \E n \in ReqSet : req' = [req EXCEPT ![r] = n] /\ Same(req[r], n)
<1> DEFINE read == [version |-> Len(log[req[r].at][Here(r).role]), who |-> Now(req[r].at, Here(r).role)]
           n == [req[r] EXCEPT !.got = read]
<1>1. req[r] \in ReqSet /\ req[r].at \in Places /\ Here(r).role \in Roles
  <2>1. ReqOK
    BY Zenon DEF Types
  <2> QED BY <2>1, ActiveIs, Zenon
<1>2. read \in Reading
  <2>1. LogOK
    BY Zenon DEF Types
  <2>2. Len(log[req[r].at][Here(r).role]) \in Nat /\ Now(req[r].at, Here(r).role) \in Bindings
    BY <1>1, <2>1, NowIs, Zenon
  <2> QED BY <2>2 DEF Reading
<1>3. req' = [req EXCEPT ![r] = n]
  BY Zenon
<1> HIDE DEF read
<1>4. n \in ReqSet /\ Same(req[r], n)
  BY <1>1, <1>2 DEF ReqSet, Same
<1> HIDE DEF n
<1> QED BY <1>3, <1>4, Zenon

(* The steps that are only the request's own. *)
LEMMA QuietHoused ==
  ASSUME Types, NEW r \in Requests, NEW call, At(r, call),
         call \notin {"insert", "deleteNs"},
         Continue(r) \/ GiveUp(r), scope' = scope, killed' = killed, ns' = ns,
         spaces \subseteq spaces', leaked \subseteq leaked'
  PROVE  \E n : Housed(r, n)
<1>1. WorldOK /\ ReqOK
  BY Zenon DEF Types
<1>2. req[r].op # "none" /\ Here(r).call = call
  BY Zenon DEF At
<1>3. Here(r) = FirstCall(req[r].todo)
  BY <1>1, <1>2, ActiveIs, Zenon
<1>4. FirstCall(req[r].todo).call # "insert" /\ FirstCall(req[r].todo).call # "deleteNs"
  BY <1>2, <1>3
<1>5. PICK n \in ReqSet : req' = [req EXCEPT ![r] = n] /\ (Went(scope, req[r], n) \/ Left(req[r], n))
  BY <1>1, <1>2, ContinueOK, GiveUpOK, Zenon
<1>6. Turns(r, n)
  BY <1>1, <1>5, TurnsAlone, Zenon
<1>7. Forgets(scope, ns, leaked', n)
  BY <1>4, <1>5, WentForgets, LeftForgets, Zenon
<1>8. Housed(r, n)
  BY <1>4, <1>6, <1>7, HousedQuiet, Zenon
<1> QED BY <1>8, Zenon

LEMMA StepHoused1 ==
  ASSUME Types, Deleted, Numbered, NEW r \in Requests,
         Asks(r) \/ Add(r) \/ Evict(r) \/ Check(r) \/ CheckName(r) \/ ForgetFails(r)
         \/ List(r) \/ RemoveAll(r) \/ Get(r) \/ Put(r) \/ PutLost(r) \/ PutRefused(r)
  PROVE  (\E n : Housed(r, n)) /\ ns' = ns /\ made' = made /\ scope' = scope
<1>1. WorldOK /\ ReqOK
  BY Zenon DEF Types
<1> DEFINE Frame == /\ scope' = scope /\ killed' = killed /\ ns' = ns /\ spaces' = spaces
                    /\ leaked' = leaked /\ made' = made
<1>2. Frame => spaces \subseteq spaces' /\ leaked \subseteq leaked'
  OBVIOUS
<1>3. ASSUME NEW n \in ReqSet, req' = [req EXCEPT ![r] = n], Frame, Forgets(scope, ns, leaked, n),
             req[r].op = "none" \/ FirstCall(req[r].todo).call # "insert"
      PROVE  \E m : Housed(r, m)
  <2>1. Turns(r, n)
    BY <1>1, <1>3, TurnsAlone, Zenon
  <2>2. Housed(r, n)
    BY <1>2, <1>3, <2>1, HousedQuiet, Zenon
  <2> QED BY <2>2, Zenon
<1>4. CASE Asks(r)
  <2>1. req[r].op = "none" /\ Frame
    BY <1>1, <1>4, AsksOK, Zenon DEF Quiet, world, history
  <2>2. PICK n : Begins(scope, made, n) /\ req' = [req EXCEPT ![r] = n]
    BY <1>1, <1>4, AsksOK, Zenon
  <2>3. n \in ReqSet /\ Begun(scope, n.op, n.todo)
    BY <2>2, Zenon DEF Begins
  <2>4. FirstCall(n.todo).call # "forget"
    BY <2>3, Zenon DEF Begun
  <2>5. Forgets(scope, ns, leaked, n)
    BY <2>4, Zenon DEF Forgets
  <2> QED BY <1>3, <2>1, <2>2, <2>3, <2>5, Zenon
<1>5. CASE Add(r) \/ Evict(r) \/ Check(r) \/ CheckName(r) \/ ForgetFails(r)
  <2>1. Frame /\ (Continue(r) \/ GiveUp(r))
    BY <1>5, Zenon DEF Add, Evict, Check, CheckName, ForgetFails, history, world
  <2>2. At(r, "add") \/ At(r, "evict") \/ At(r, "check") \/ At(r, "checkName") \/ At(r, "forget")
    BY <1>5, Zenon DEF Add, Evict, Check, CheckName, ForgetFails
  <2>3. PICK call \in {"add", "evict", "check", "checkName", "forget"} : At(r, call)
    BY <2>2
  <2>4. call \notin {"insert", "deleteNs"}
    OBVIOUS
  <2> QED BY <1>2, <2>1, <2>3, <2>4, QuietHoused, Zenon
<1>6. CASE List(r)
  <2>1. Frame /\ req[r].op # "none"
    BY <1>6, Zenon DEF List, world, history, At
  <2>2. Here(r).call = "list"
    BY <1>6, ListIs, Zenon
  <2>3. PICK n \in ReqSet : /\ req' = [req EXCEPT ![r] = n]
                            /\ n = Idle \/ FirstCall(n.todo).call = "deleteNs"
    BY <1>6, ListIs, Zenon
  <2>4. Here(r) = FirstCall(req[r].todo)
    BY <1>1, <2>1, ActiveIs, Zenon
  <2>5. FirstCall(req[r].todo).call # "insert" /\ "deleteNs" # "forget"
    BY <2>2, <2>4
  <2>6. Forgets(scope, ns, leaked, n)
    BY <2>3, <2>5, IdleIs, Zenon DEF Forgets
  <2> QED BY <1>3, <2>1, <2>3, <2>5, <2>6, Zenon
<1>7. CASE RemoveAll(r)
  <2>1. Frame /\ req[r].op # "none"
    BY <1>7, Zenon DEF RemoveAll, world, At
  <2>2. Here(r).call = "removeAll"
    BY <1>7, RemoveAllIs, Zenon
  <2>3. PICK n \in ReqSet : /\ req' = [req EXCEPT ![r] = n]
                            /\ FirstCall(n.todo).call = "forget" => scope # "ns"
    BY <1>7, RemoveAllIs, Zenon
  <2>4. Here(r) = FirstCall(req[r].todo)
    BY <1>1, <2>1, ActiveIs, Zenon
  <2>5. FirstCall(req[r].todo).call # "insert"
    BY <2>2, <2>4
  <2>6. Forgets(scope, ns, leaked, n)
    BY <2>3, Zenon DEF Forgets
  <2> QED BY <1>3, <2>1, <2>3, <2>5, <2>6, Zenon
<1>8. CASE Get(r) \/ PutRefused(r)
  <2>1. Frame /\ Reads(r)
    BY <1>8, GetIs, Zenon DEF PutRefused, world, history
  <2>2. req[r].op # "none" /\ Here(r).call \in {"append", "remove", "unauthorize"}
    BY <2>1, ReadsIs, Zenon
  <2>3. Here(r).call \notin {"insert", "deleteNs"} /\ Here(r).call # "forget"
    BY <2>2
  <2>4. CASE Continue(r) \/ GiveUp(r)
    <3>1. At(r, Here(r).call)
      BY <2>2, Zenon DEF At
    <3> QED BY <1>2, <2>1, <2>3, <2>4, <3>1, QuietHoused, Zenon
  <2>5. CASE req' = [req EXCEPT ![r].got = [version |-> Len(log[req[r].at][Here(r).role]),
                                            who |-> Now(req[r].at, Here(r).role)]]
    <3>1. PICK n \in ReqSet : req' = [req EXCEPT ![r] = n] /\ Same(req[r], n)
      BY <2>2, <2>5, ReadingIs, Zenon
    <3>2. Here(r) = FirstCall(req[r].todo)
      BY <1>1, <2>2, ActiveIs, Zenon
    <3>3. FirstCall(n.todo).call # "forget" /\ FirstCall(req[r].todo).call # "insert"
      <4>1. n.todo = req[r].todo
        BY <3>1, Zenon DEF Same
      <4> QED BY <2>3, <3>2, <4>1
    <3>4. Forgets(scope, ns, leaked, n)
      BY <3>3, Zenon DEF Forgets
    <3> QED BY <1>3, <2>1, <3>1, <3>3, <3>4, Zenon
  <2>6. \/ Continue(r) \/ GiveUp(r)
        \/ req' = [req EXCEPT ![r].got = [version |-> Len(log[req[r].at][Here(r).role]),
                                          who |-> Now(req[r].at, Here(r).role)]]
    BY <1>8, GetIs, Zenon DEF PutRefused
  <2> QED BY <2>1, <2>4, <2>5, <2>6, Zenon
<1>9. CASE Put(r) \/ PutLost(r)
  <2>1. Reads(r) /\ Frame
    BY <1>9, PutIs, Zenon
  <2>2. PICK n \in ReqSet : /\ Turns(r, n)
                            /\ Put(r) => Went(scope, req[r], n)
                            /\ PutLost(r) => Left(req[r], n)
    BY <1>9, PutIs, Zenon
  <2>3. req[r].op # "none" /\ Here(r).call \in {"append", "remove", "unauthorize"}
    BY <2>1, ReadsIs, Zenon
  <2>4. Here(r) = FirstCall(req[r].todo)
    BY <1>1, <2>3, ActiveIs, Zenon
  <2>5. FirstCall(req[r].todo).call # "insert" /\ FirstCall(req[r].todo).call # "deleteNs"
    BY <2>3, <2>4
  <2>6. Forgets(scope, ns, leaked', n)
    BY <1>9, <2>2, <2>5, WentForgets, LeftForgets, Zenon
  <2>7. Housed(r, n)
    BY <1>2, <2>1, <2>2, <2>5, <2>6, HousedQuiet, Zenon
  <2> QED BY <2>1, <2>7, Zenon
<1> QED BY <1>4, <1>5, <1>6, <1>7, <1>8, <1>9, Zenon

LEMMA ForgetHoused ==
  ASSUME Types, Deleted, Numbered, NEW r \in Requests, Forget(r)
  PROVE  (\E n : Housed(r, n)) /\ Numbered'
<1>1. WorldOK /\ ReqOK
  BY Zenon DEF Types
<1>2. /\ At(r, "forget") /\ Continue(r) /\ spaces' = spaces \ {req[r].id} /\ scope' = scope
      /\ killed' = killed /\ ns' = ns /\ leaked' = leaked /\ made' = made
  BY Zenon DEF Forget, history
<1>3. req[r].op # "none" /\ Here(r).call = "forget"
  BY <1>2, Zenon DEF At
<1>4. Here(r) = FirstCall(req[r].todo)
  BY <1>1, <1>3, ActiveIs, Zenon
<1>5. PICK n \in ReqSet : req' = [req EXCEPT ![r] = n] /\ Went(scope, req[r], n)
  BY <1>1, <1>2, <1>3, ContinueOK, Zenon
<1>6. Turns(r, n)
  BY <1>1, <1>5, TurnsAlone, Zenon
<1>7. Forgets(scope, ns', leaked', n)
  <2>1. FirstCall(req[r].todo).call # "deleteNs"
    BY <1>3, <1>4
  <2> QED BY <1>5, <2>1, WentForgets, Zenon
<1>8. ASSUME NEW p \in Ids, Astray(ns', spaces', leaked', p)
      PROVE  Astray(ns, spaces, leaked, p) /\ ~ Records(req[r], p)
  <2>1. ns[p] = "live" /\ p \notin leaked /\ (p \notin spaces \/ p = req[r].id)
    BY <1>2, <1>8 DEF Astray
  <2>2. p # req[r].id
    <3>1. scope = "ns"
      <4>1. ns[p] # "none"
        BY <2>1
      <4> QED BY <4>1, Zenon DEF Numbered
    <3>2. ns[req[r].id] # "live" \/ req[r].id \in leaked
      BY <1>3, <1>4, <3>1, Zenon DEF Deleted, Forgets
    <3> QED BY <2>1, <3>2, Zenon
  <2>3. ~ Records(req[r], p)
    <3>1. FirstCall(req[r].todo).call # "insert"
      BY <1>3, <1>4
    <3> QED BY <3>1, Zenon DEF Records
  <2> QED BY <2>1, <2>2, <2>3, Zenon DEF Astray
<1>9. Housed(r, n)
  BY <1>2, <1>6, <1>7, <1>8, Zenon DEF Housed
<1>10. Numbered'
  BY <1>2, Zenon DEF Numbered
<1> QED BY <1>9, <1>10, Zenon

LEMMA InsertHoused ==
  ASSUME Types, Deleted, Numbered, NEW r \in Requests, Insert(r)
  PROVE  (\E n : Housed(r, n)) /\ Numbered'
<1>1. WorldOK /\ ReqOK
  BY Zenon DEF Types
<1>2. /\ At(r, "insert") /\ scope' = scope /\ killed' = killed /\ ns' = ns /\ leaked' = leaked
  BY Zenon DEF Insert, history
<1>3. PICK new \in 1..made', m \in ReqSet, n \in ReqSet :
           /\ new = (IF scope = "cluster" THEN made + 1 ELSE req[r].at)
           /\ new \in Ids /\ made' \in 0..MaxSpaces /\ made <= made' /\ (scope = "ns" => made' = made)
           /\ Went(scope, req[r], m) /\ RequestOK(scope, made, m)
           /\ n.op = m.op /\ n.id = m.id /\ n.todo = m.todo /\ n.got = NoRead
           /\ n.crossed = m.crossed /\ (m.op # "none" => n.at = m.at)
           /\ req' = [req EXCEPT ![r] = n]
           /\ spaces' = spaces \cup {new}
  BY InsertIs, Zenon
<1>4. req[r].op # "none" /\ Here(r).call = "insert" /\ (scope = "cluster" => req[r].at = 0)
  BY <1>2, AtIs, Zenon
<1>5. Here(r) = FirstCall(req[r].todo)
  BY <1>1, <1>4, ActiveIs, Zenon
<1>6. Turns(r, n)
  BY <1>1, <1>3, TurnsAlone, Zenon
<1>7. Forgets(scope, ns', leaked', n)
  <2>1. FirstCall(req[r].todo).call # "deleteNs"
    BY <1>4, <1>5
  <2>2. Forgets(scope, ns', leaked', m)
    BY <1>3, <2>1, WentForgets, Zenon
  <2> QED BY <1>3, <2>2, Zenon DEF Forgets
<1>8. ASSUME NEW p \in Ids, Astray(ns', spaces', leaked', p)
      PROVE  Astray(ns, spaces, leaked, p) /\ ~ Records(req[r], p)
  <2>1. ns[p] = "live" /\ p \notin leaked /\ p \notin spaces /\ p # new
    BY <1>2, <1>3, <1>8 DEF Astray
  <2>2. req[r].at # p
    <3>1. p # 0
      BY DEF Ids
    <3>2. CASE scope = "cluster"
      BY <1>4, <3>1, <3>2
    <3>3. CASE scope # "cluster"
      BY <1>3, <2>1, <3>3
    <3> QED BY <3>2, <3>3
  <2> QED BY <2>1, <2>2, Zenon DEF Astray, Records
<1>9. Housed(r, n)
  <2>1. \A p : ns'[p] = ns[p] /\ (p \in leaked' <=> p \in leaked)
    BY <1>2
  <2> QED BY <1>2, <1>6, <1>7, <1>8, <2>1, Zenon DEF Housed
<1>10. Numbered'
  <2>1. made' \in Nat
    BY <1>3
  <2> QED BY <1>2, <1>3, <2>1, NumberedStill, Zenon
<1> QED BY <1>9, <1>10, Zenon

LEMMA CreateNsHoused ==
  ASSUME Types, Deleted, Numbered, NEW r \in Requests, CreateNs(r)
  PROVE  (\E n : Housed(r, n)) /\ Numbered'
<1>1. WorldOK /\ ReqOK
  BY Zenon DEF Types
<1>2. /\ At(r, "createNs") /\ scope' = scope /\ killed' = killed /\ leaked' = leaked
      /\ spaces' = spaces
  BY Zenon DEF CreateNs, history
<1>3. /\ scope = "ns" /\ made' = made + 1 /\ made + 1 \in Ids /\ made \in Nat
      /\ ns' = [ns EXCEPT ![made + 1] = "live"]
  BY CreateNsIs, Zenon
<1>4. PICK n \in ReqSet : /\ n.op # "none" /\ n.at = made + 1 /\ FirstCall(n.todo).call = "insert"
                          /\ req' = [req EXCEPT ![r] = n]
  BY CreateNsIs, Zenon
<1>5. req[r].op # "none" /\ Here(r).call = "createNs"
  BY <1>2, Zenon DEF At
<1>6. Here(r) = FirstCall(req[r].todo)
  BY <1>1, <1>5, ActiveIs, Zenon
<1>7. Turns(r, n)
  BY <1>1, <1>4, TurnsAlone, Zenon
<1>8. Forgets(scope, ns', leaked', n)
  <2>1. FirstCall(n.todo).call # "forget"
    BY <1>4
  <2> QED BY <2>1, Zenon DEF Forgets
<1>9. \A p \in Ids : p # made + 1 => ns'[p] = ns[p]
  <2>1. ns \in [Places -> {"none", "live", "terminating"}] /\ Ids \subseteq Places
    BY <1>1, NumbersAre, Zenon DEF WorldOK
  <2> QED BY <1>3, <2>1
<1>10. ASSUME NEW p \in 1..made
       PROVE  ns'[p] = ns[p]
  <2>1. p \in Ids /\ p # made + 1
    BY <1>1, <1>3, NumbersAre
  <2> QED BY <1>9, <2>1, Zenon
<1>11. ASSUME NEW p \in Ids, Astray(ns', spaces', leaked', p)
       PROVE  Records(n, p) \/ (Astray(ns, spaces, leaked, p) /\ ~ Records(req[r], p))
  <2>1. CASE p = made + 1
    BY <1>4, <2>1, Zenon DEF Records
  <2>2. CASE p # made + 1
    <3>1. Astray(ns, spaces, leaked, p)
      BY <1>2, <1>9, <1>11, <2>2, Zenon DEF Astray
    <3>2. FirstCall(req[r].todo).call # "insert"
      BY <1>5, <1>6
    <3> QED BY <3>1, <3>2, Zenon DEF Records
  <2> QED BY <2>1, <2>2
<1>12. Housed(r, n)
  BY <1>2, <1>7, <1>8, <1>10, <1>11, Zenon DEF Housed
<1>13. ASSUME NEW p \in Ids, ns'[p] # "none"
       PROVE  p \in 1..made' /\ scope' = "ns"
  <2>1. CASE p = made + 1
    BY <1>2, <1>3, <2>1
  <2>2. CASE p # made + 1
    <3>1. p \in 1..made
      BY <1>9, <1>13, <2>2, Zenon DEF Numbered
    <3> QED BY <1>2, <1>3, <3>1
  <2> QED BY <2>1, <2>2
<1> QED BY <1>12, <1>13, Zenon DEF Numbered

LEMMA NamespaceHoused ==
  ASSUME Types, Deleted, Numbered, NEW r \in Requests, CreateNamespaceINE(r)
  PROVE  (\E n : Housed(r, n)) /\ Numbered'
<1> DEFINE x == req[r].at
<1>1. WorldOK /\ ReqOK
  BY Zenon DEF Types
<1>2. /\ At(r, "namespace") /\ scope' = scope /\ killed' = killed /\ spaces' = spaces
      /\ made' = made /\ Continue(r)
  BY Zenon DEF CreateNamespaceINE
<1>3. \/ ns' = [ns EXCEPT ![x] = "live"] /\ leaked' = leaked \cup {x}
      \/ ns' = ns /\ leaked' = leaked
  BY Zenon DEF CreateNamespaceINE
<1>4. req[r].op # "none" /\ Here(r).call = "namespace"
  BY <1>2, Zenon DEF At
<1>5. Here(r) = FirstCall(req[r].todo) /\ CallOK(scope, req[r].op, Here(r))
  BY <1>1, <1>4, ActiveIs, Zenon
<1>6. scope = "ns"
  <2>1. scope \in {"ns", "cluster"}
    BY <1>1 DEF WorldOK
  <2>2. scope # "cluster"
    BY <1>4, <1>5 DEF CallOK
  <2> QED BY <2>1, <2>2
<1>7. x \in 1..made
  <2>1. "namespace" # "createNs"
    OBVIOUS
  <2> QED BY <1>2, <1>6, <2>1, AtIs, Zenon
<1>8. PICK n \in ReqSet : req' = [req EXCEPT ![r] = n] /\ Went(scope, req[r], n)
  BY <1>1, <1>2, <1>4, ContinueOK, Zenon
<1>9. Turns(r, n)
  BY <1>1, <1>8, TurnsAlone, Zenon
<1>10. FirstCall(req[r].todo).call # "insert" /\ FirstCall(req[r].todo).call # "deleteNs"
  BY <1>4, <1>5
<1>11. Forgets(scope, ns', leaked', n)
  BY <1>8, <1>10, WentForgets, Zenon
<1>12. ns \in [Places -> {"none", "live", "terminating"}] /\ Ids \subseteq Places /\ 1..made \subseteq Ids
  BY <1>1, NumbersAre, Zenon DEF WorldOK
<1> HIDE DEF x
<1>13. /\ \A p \in Places : p # x => ns'[p] = ns[p] /\ (p \in leaked' <=> p \in leaked)
       /\ (ns' = ns /\ leaked' = leaked) \/ x \in leaked'
  BY <1>3, <1>12
<1>14. ASSUME NEW p \in 1..made, ns[p] # "live" \/ p \in leaked
       PROVE  ns'[p] # "live" \/ p \in leaked'
  BY <1>12, <1>13, <1>14
<1>15. ASSUME NEW p \in Ids, Astray(ns', spaces', leaked', p)
       PROVE  Astray(ns, spaces, leaked, p) /\ ~ Records(req[r], p)
  <2>1. Astray(ns, spaces, leaked, p)
    BY <1>2, <1>12, <1>13, <1>15 DEF Astray
  <2> QED BY <1>10, <2>1, Zenon DEF Records
<1>16. Housed(r, n)
  BY <1>2, <1>9, <1>11, <1>14, <1>15, Zenon DEF Housed
<1>17. ASSUME NEW p \in Ids, ns'[p] # "none"
       PROVE  p \in 1..made' /\ scope' = "ns"
  <2>1. CASE p = x
    BY <1>2, <1>6, <1>7, <2>1
  <2>2. CASE p # x
    <3>1. ns'[p] = ns[p]
      BY <1>12, <1>13, <2>2
    <3> QED BY <1>2, <1>17, <3>1, Zenon DEF Numbered
  <2> QED BY <2>1, <2>2
<1> QED BY <1>16, <1>17, Zenon DEF Numbered

LEMMA DeleteNsHoused ==
  ASSUME Types, Deleted, Numbered, NEW r \in Requests, DeleteNs(r)
  PROVE  (\E n : Housed(r, n)) /\ Numbered'
<1> DEFINE x == req[r].at
<1>1. WorldOK /\ ReqOK
  BY Zenon DEF Types
<1>2. /\ At(r, "deleteNs") /\ scope' = scope /\ killed' = killed /\ spaces' = spaces
      /\ made' = made /\ leaked' = leaked /\ Continue(r)
      /\ ns' = [ns EXCEPT ![x] = IF @ = "live" THEN "terminating" ELSE @]
  BY Zenon DEF DeleteNs, history
<1>3. req[r].op # "none" /\ Here(r).call = "deleteNs"
  BY <1>2, Zenon DEF At
<1>4. Here(r) = FirstCall(req[r].todo) /\ CallOK(scope, req[r].op, Here(r))
  BY <1>1, <1>3, ActiveIs, Zenon
<1>5. scope = "ns"
  <2>1. scope \in {"ns", "cluster"}
    BY <1>1 DEF WorldOK
  <2>2. scope # "cluster"
    BY <1>3, <1>4 DEF CallOK
  <2> QED BY <2>1, <2>2
<1>6. x = req[r].id /\ req[r].id \in 1..made
  <2>1. "deleteNs" \in {"add", "list", "deleteNs"} /\ scope # "cluster"
    BY <1>5
  <2>2. x = PlaceIn(scope, req[r].id) /\ req[r].id \in 1..made
    BY <1>2, <2>1, AtIs, Zenon
  <2> QED BY <2>1, <2>2 DEF PlaceIn
<1>7. PICK n \in ReqSet : req' = [req EXCEPT ![r] = n] /\ Went(scope, req[r], n)
  BY <1>1, <1>2, <1>3, ContinueOK, Zenon
<1>8. Turns(r, n)
  BY <1>1, <1>7, TurnsAlone, Zenon
<1>9. ns \in [Places -> {"none", "live", "terminating"}] /\ Ids \subseteq Places /\ 1..made \subseteq Ids
  BY <1>1, NumbersAre, Zenon DEF WorldOK
<1> HIDE DEF x
<1>10. x \in Places
  BY <1>6, <1>9
<1>11. /\ ns'[x] # "live" /\ \A p \in Places : ns'[p] # "none" => ns[p] # "none"
       /\ \A p \in Places : ns'[p] = "live" => ns[p] = "live"
  BY <1>2, <1>9, <1>10
<1>12. Forgets(scope, ns', leaked', n)
  <2>1. n.op = "none" \/ n.id = req[r].id
    BY <1>7, Zenon DEF Went
  <2> QED BY <1>6, <1>11, <2>1, Zenon DEF Forgets
<1>13. ASSUME NEW p \in 1..made, ns[p] # "live" \/ p \in leaked
       PROVE  ns'[p] # "live" \/ p \in leaked'
  BY <1>2, <1>9, <1>11, <1>13
<1>14. ASSUME NEW p \in Ids, Astray(ns', spaces', leaked', p)
       PROVE  Astray(ns, spaces, leaked, p) /\ ~ Records(req[r], p)
  <2>1. Astray(ns, spaces, leaked, p)
    BY <1>2, <1>9, <1>11, <1>14 DEF Astray
  <2>2. FirstCall(req[r].todo).call # "insert"
    BY <1>3, <1>4
  <2> QED BY <2>1, <2>2, Zenon DEF Records
<1>15. Housed(r, n)
  BY <1>2, <1>8, <1>12, <1>13, <1>14, Zenon DEF Housed
<1>16. ASSUME NEW p \in Ids, ns'[p] # "none"
       PROVE  p \in 1..made' /\ scope' = "ns"
  <2>1. ns[p] # "none"
    BY <1>9, <1>11, <1>16
  <2> QED BY <1>2, <2>1, Zenon DEF Numbered
<1> QED BY <1>15, <1>16, Zenon DEF Numbered

LEMMA FailsHoused ==
  ASSUME Types, Deleted, Numbered, NEW r \in Requests, Fails(r)
  PROVE  (\E n : Housed(r, n)) /\ Numbered'
<1> DEFINE x == req[r].at
<1>1. WorldOK /\ ReqOK
  BY Zenon DEF Types
<1>2. /\ req[r].op # "none" /\ killed' = killed /\ UNCHANGED world
      /\ Continue(r) \/ GiveUp(r)
      /\ leaked' = IF Here(r).call \in {"deleteNs", "insert"}
                   THEN leaked \cup ({x} \ {0}) ELSE leaked
  BY FailsIs, Zenon
<1>3. scope' = scope /\ ns' = ns /\ spaces' = spaces /\ made' = made
  BY <1>2, Zenon DEF world
<1>4. spaces \subseteq spaces' /\ leaked \subseteq leaked'
  BY <1>2, <1>3
<1>5. Here(r) = FirstCall(req[r].todo) /\ CallOK(scope, req[r].op, Here(r))
  BY <1>1, <1>2, ActiveIs, Zenon
<1>6. Numbered'
  BY <1>3, Zenon DEF Numbered
<1>7. CASE Here(r).call \notin {"insert", "deleteNs"}
  <2>1. At(r, Here(r).call)
    BY <1>2, Zenon DEF At
  <2>2. \E n : Housed(r, n)
    BY <1>2, <1>3, <1>4, <1>7, <2>1, QuietHoused, Zenon
  <2> QED BY <1>6, <2>2
<1>8. CASE Here(r).call = "deleteNs"
  <2>1. scope = "ns"
    <3>1. scope \in {"ns", "cluster"}
      BY <1>1 DEF WorldOK
    <3>2. scope # "cluster"
      BY <1>5, <1>8 DEF CallOK
    <3> QED BY <3>1, <3>2
  <2>2. x = req[r].id /\ req[r].id \in 1..made
    <3>1. "deleteNs" \in {"add", "list", "deleteNs"} /\ scope # "cluster" /\ At(r, "deleteNs")
      BY <1>2, <1>8, <2>1 DEF At
    <3>2. x = PlaceIn(scope, req[r].id) /\ req[r].id \in 1..made
      BY <3>1, AtIs, Zenon
    <3> QED BY <3>1, <3>2 DEF PlaceIn
  <2>3. req[r].id \in leaked'
    <3>1. x # 0
      BY <2>2
    <3> QED BY <1>2, <1>8, <2>2, <3>1
  <2>4. PICK n \in ReqSet : req' = [req EXCEPT ![r] = n] /\ (n.op = "none" \/ n.id = req[r].id)
    <3>1. PICK n \in ReqSet : req' = [req EXCEPT ![r] = n] /\ (Went(scope, req[r], n) \/ Left(req[r], n))
      BY <1>1, <1>2, ContinueOK, GiveUpOK, Zenon
    <3>2. n.op = "none" \/ n.id = req[r].id
      BY <3>1, Zenon DEF Went, Left
    <3> QED BY <3>1, <3>2, Zenon
  <2>5. Turns(r, n)
    BY <1>1, <2>4, TurnsAlone, Zenon
  <2>6. Forgets(scope, ns, leaked', n)
    BY <2>3, <2>4, Zenon DEF Forgets
  <2>7. FirstCall(req[r].todo).call # "insert"
    BY <1>5, <1>8
  <2>8. Housed(r, n)
    BY <1>2, <1>3, <1>4, <2>5, <2>6, <2>7, HousedQuiet, Zenon
  <2> QED BY <1>6, <2>8, Zenon
<1>9. CASE Here(r).call = "insert"
  <2>1. PICK n \in ReqSet : req' = [req EXCEPT ![r] = n] /\ (Went(scope, req[r], n) \/ Left(req[r], n))
    BY <1>1, <1>2, ContinueOK, GiveUpOK, Zenon
  <2>2. Turns(r, n)
    BY <1>1, <2>1, TurnsAlone, Zenon
  <2>3. FirstCall(req[r].todo).call # "deleteNs"
    BY <1>5, <1>9
  <2>4. Forgets(scope, ns', leaked', n)
    BY <2>1, <2>3, WentForgets, LeftForgets, Zenon
  <2>5. ASSUME NEW p \in Ids, Astray(ns', spaces', leaked', p)
        PROVE  Astray(ns, spaces, leaked, p) /\ ~ Records(req[r], p)
    <3>1. ns[p] = "live" /\ p \notin spaces /\ p \notin leaked'
      BY <1>3, <2>5, Zenon DEF Astray
    <3>2. p # 0
      BY DEF Ids
    <3>3. p \notin leaked /\ p # x
      BY <1>2, <1>9, <3>1, <3>2
    <3> QED BY <3>1, <3>3, Zenon DEF Astray, Records
  <2>6. \A p : p \in leaked => p \in leaked'
    BY <1>4, Zenon
  <2>7. \A p : ns'[p] = ns[p]
    BY <1>3, Zenon
  <2>8. Housed(r, n)
    BY <1>2, <1>3, <2>2, <2>4, <2>5, <2>6, <2>7, Zenon DEF Housed
  <2> QED BY <1>6, <2>8, Zenon
<1> QED BY <1>7, <1>8, <1>9

LEMMA LostHoused ==
  ASSUME Types, Deleted, Numbered, NEW r \in Requests, NamespaceLost(r)
  PROVE  (\E n : Housed(r, n)) /\ Numbered'
<1>1. WorldOK /\ ReqOK
  BY Zenon DEF Types
<1>2. /\ req[r].op # "none" /\ Here(r).call \in {"createNs", "namespace"} /\ scope = "ns"
      /\ made \in Nat /\ made' \in 0..MaxSpaces /\ made <= made' /\ 1..made' \subseteq Ids
      /\ GiveUp(r) /\ scope' = scope /\ spaces' = spaces /\ killed' = killed
  BY LostIs, Zenon
<1>3. PICK x \in 1..made' : ns' = [ns EXCEPT ![x] = "live"] /\ leaked' = leaked \cup {x}
  BY LostIs, Zenon
<1>4. Here(r) = FirstCall(req[r].todo)
  BY <1>1, <1>2, ActiveIs, Zenon
<1>5. FirstCall(req[r].todo).call # "insert"
  BY <1>2, <1>4
<1>6. PICK n \in ReqSet : req' = [req EXCEPT ![r] = n] /\ Left(req[r], n)
  BY <1>1, <1>2, GiveUpOK, Zenon
<1>7. Turns(r, n)
  BY <1>1, <1>6, TurnsAlone, Zenon
<1>8. Forgets(scope, ns', leaked', n)
  BY <1>6, LeftForgets, Zenon
<1>9. ns \in [Places -> {"none", "live", "terminating"}] /\ Ids \subseteq Places /\ 1..made \subseteq Ids
  BY <1>1, NumbersAre, Zenon DEF WorldOK
<1>10. /\ \A p \in Places : p # x => ns'[p] = ns[p] /\ (p \in leaked' <=> p \in leaked)
       /\ x \in leaked'
  BY <1>3, <1>9
<1>11. ASSUME NEW p \in 1..made, ns[p] # "live" \/ p \in leaked
       PROVE  ns'[p] # "live" \/ p \in leaked'
  BY <1>9, <1>10, <1>11
<1>12. ASSUME NEW p \in Ids, Astray(ns', spaces', leaked', p)
       PROVE  Astray(ns, spaces, leaked, p) /\ ~ Records(req[r], p)
  <2>1. Astray(ns, spaces, leaked, p)
    BY <1>2, <1>9, <1>10, <1>12 DEF Astray
  <2> QED BY <1>5, <2>1, Zenon DEF Records
<1>13. Housed(r, n)
  BY <1>2, <1>7, <1>8, <1>11, <1>12, Zenon DEF Housed
<1>14. ASSUME NEW p \in Ids, ns'[p] # "none"
       PROVE  p \in 1..made' /\ scope' = "ns"
  <2>1. CASE p = x
    BY <1>2, <1>3, <2>1
  <2>2. CASE p # x
    <3>1. ns'[p] = ns[p]
      BY <1>9, <1>10, <2>2
    <3>2. p \in 1..made
      BY <1>14, <3>1, Zenon DEF Numbered
    <3> QED BY <1>2, <3>2
  <2> QED BY <2>1, <2>2
<1> QED BY <1>13, <1>14, Zenon DEF Numbered

LEMMA RecordedStill ==
  ASSUME Recorded, UNCHANGED <<scope, spaces, made, ns, req, leaked, killed>>
  PROVE  Recorded'
<1>1. /\ scope' = scope /\ spaces' = spaces /\ made' = made /\ ns' = ns /\ req' = req
      /\ leaked' = leaked /\ killed' = killed
  BY Zenon
<1>2. Found /\ Deleted /\ Numbered
  BY Zenon DEF Recorded
<1>3. Found'
  <2>1. \A p : Astray(ns', spaces', leaked', p) => Astray(ns, spaces, leaked, p)
    BY <1>1, Zenon DEF Astray
  <2>2. req' = req /\ (~ killed' => ~ killed)
    BY <1>1
  <2> QED BY <1>2, <2>1, <2>2, Zenon DEF Found
<1>4. Deleted'
  BY <1>1, <1>2, Zenon DEF Deleted
<1>5. Numbered'
  BY <1>1, <1>2, Zenon DEF Numbered
<1> QED BY <1>3, <1>4, <1>5, Zenon DEF Recorded

LEMMA RecordedTerminated ==
  ASSUME Types, Recorded, NEW x \in Ids, Terminated(x)
  PROVE  Recorded'
<1>1. WorldOK
  BY Zenon DEF Types
<1>2. /\ scope' = scope /\ spaces' = spaces /\ made' = made /\ req' = req /\ leaked' = leaked
      /\ killed' = killed /\ ns' = [ns EXCEPT ![x] = "none"]
  BY Zenon DEF Terminated, history
<1>3. \A p : /\ ns'[p] = "live" => ns[p] = "live"
             /\ p \in Ids /\ ns'[p] # "none" => ns[p] # "none"
  <2>1. ns \in [Places -> {"none", "live", "terminating"}] /\ Ids \subseteq Places
    BY <1>1, NumbersAre, Zenon DEF WorldOK
  <2>2. x \in Places
    BY <2>1
  <2>3. DOMAIN ns = Places /\ DOMAIN ns' = Places
    BY <1>2, <2>1
  <2> QED BY <1>2, <2>1, <2>2, <2>3
<1>4. Found /\ Deleted /\ Numbered
  BY Zenon DEF Recorded
<1>5. Found'
  <2>1. \A p : Astray(ns', spaces', leaked', p) => Astray(ns, spaces, leaked, p)
    BY <1>2, <1>3, Zenon DEF Astray
  <2> QED BY <1>2, <1>4, <2>1, Zenon DEF Found
<1>6. Deleted'
  BY <1>2, <1>3, <1>4, Zenon DEF Deleted, Forgets
<1>7. Numbered'
  BY <1>2, <1>3, <1>4, Zenon DEF Numbered
<1> QED BY <1>5, <1>6, <1>7, Zenon DEF Recorded

LEMMA RecordedRestart ==
  ASSUME Types, Recorded, Restart
  PROVE  Recorded'
<1>1. /\ scope' = scope /\ spaces' = spaces /\ made' = made /\ leaked' = leaked /\ Migrate
      /\ killed' = (killed \/ Active # {}) /\ req' = [r \in Requests |-> Idle]
  BY Zenon DEF Restart
<1>2. Found /\ Deleted /\ Numbered
  BY Zenon DEF Recorded
<1>3. \A r \in Requests : req'[r].op = "none"
  BY <1>1, IdleIs, Zenon
<1>4. Deleted'
  BY <1>3, Zenon DEF Deleted, Forgets
<1>5. /\ \A p \in Places : ns'[p] = ns[p] \/ (scope = "ns" /\ p \in spaces)
      /\ Ids \subseteq Places /\ spaces \subseteq 1..made
  <2>1. WorldOK /\ LogOK
    BY Zenon DEF Types
  <2>2. \A p \in Places : ns'[p] = ns[p] \/ (scope = "ns" /\ p \in spaces)
    BY <1>1, <2>1, MigrateIs, Zenon
  <2> QED BY <2>1, <2>2, NumbersAre, Zenon DEF WorldOK
<1>6. ASSUME ~ killed', NEW p \in Ids, Astray(ns', spaces', leaked', p)
      PROVE  FALSE
  <2>1. ~ killed /\ Active = {}
    BY <1>1, <1>6, Zenon
  <2>2. Astray(ns, spaces, leaked, p)
    <3>1. p \in Places
      BY <1>5
    <3>2. p \notin spaces
      BY <1>1, <1>6, Zenon DEF Astray
    <3>3. ns'[p] = ns[p]
      BY <1>5, <3>1, <3>2, Zenon
    <3> QED BY <1>1, <1>6, <3>3, Zenon DEF Astray
  <2>3. PICK r \in Requests : Records(req[r], p)
    BY <1>2, <2>1, <2>2, Zenon DEF Found
  <2>4. r \in Active
    BY <2>3, Zenon DEF Records, Active
  <2> QED BY <2>1, <2>4
<1>7. ASSUME NEW p \in Ids, ns'[p] # "none"
      PROVE  p \in 1..made' /\ scope' = "ns"
  <2>1. CASE ns'[p] = ns[p]
    BY <1>1, <1>2, <1>7, <2>1, Zenon DEF Numbered
  <2>2. CASE ns'[p] # ns[p]
    BY <1>1, <1>5, <2>2, Zenon
  <2> QED BY <2>1, <2>2
<1> QED BY <1>4, <1>6, <1>7, Zenon DEF Recorded, Found, Numbered

LEMMA RecordedInit ==
  ASSUME Init
  PROVE  Recorded
<1>1. PICK first \in {0, 1} :
        /\ made = first /\ spaces = 1..first
        /\ ns = [p \in Places |-> IF scope = "ns" /\ p \in 1..first THEN "live" ELSE "none"]
  BY Zenon DEF Init
<1>2. req = [r \in Requests |-> Idle]
  BY Zenon DEF Init
<1>3. \A r \in Requests : req[r].op = "none"
  BY <1>2, IdleIs, Zenon
<1>4. \A p \in Ids : /\ ns[p] = "live" => p \in spaces
                     /\ ns[p] # "none" => p \in 1..made /\ scope = "ns"
  <2>1. Ids \subseteq Places
    BY DevSpaceAssumption DEF Ids, Places
  <2>2. \A p \in Ids : ns[p] = IF scope = "ns" /\ p \in 1..first THEN "live" ELSE "none"
    BY <1>1, <2>1
  <2> QED BY <1>1, <2>2
<1>5. Found
  BY <1>4, Zenon DEF Found, Astray
<1>6. Deleted
  BY <1>3, Zenon DEF Deleted, Forgets
<1> QED BY <1>4, <1>5, <1>6, Zenon DEF Recorded, Numbered

LEMMA RecordedNext ==
  ASSUME Types, Recorded, [Next]_vars
  PROVE  Recorded'
<1>1. Found /\ Deleted /\ Numbered
  BY Zenon DEF Recorded
<1>2. CASE UNCHANGED vars
  <2>1. UNCHANGED <<scope, spaces, made, ns, req, leaked, killed>>
    BY <1>2 DEF vars, world, history
  <2> QED BY <2>1, RecordedStill, Zenon
<1>3. ASSUME NEW r \in Requests, Asks(r) \/ Works(r) \/ Errs(r)
      PROVE  Recorded'
  <2>1. (\E n : Housed(r, n)) /\ Numbered'
    <3>1. CASE \/ Asks(r) \/ Add(r) \/ Evict(r) \/ Check(r) \/ CheckName(r) \/ ForgetFails(r)
               \/ List(r) \/ RemoveAll(r) \/ Get(r) \/ Put(r) \/ PutLost(r) \/ PutRefused(r)
      <4>1. (\E n : Housed(r, n)) /\ ns' = ns /\ made' = made /\ scope' = scope
        BY <1>1, <3>1, StepHoused1, Zenon
      <4>2. Numbered'
        BY <1>1, <4>1, Zenon DEF Numbered
      <4> QED BY <4>1, <4>2
    <3>2. CASE \/ Forget(r) \/ Insert(r) \/ CreateNs(r) \/ CreateNamespaceINE(r) \/ DeleteNs(r)
               \/ Fails(r) \/ NamespaceLost(r)
      BY <1>1, <3>2, ForgetHoused, InsertHoused, CreateNsHoused, NamespaceHoused, DeleteNsHoused,
         FailsHoused, LostHoused, Zenon
    <3> QED BY <1>3, <3>1, <3>2, Zenon DEF Works, Errs
  <2> QED BY <1>1, <2>1, HousedKeeps, Zenon DEF Recorded
<1>4. ASSUME NEW p \in Places, NEW b \in Shared, Join(p, b)
      PROVE  Recorded'
  <2>1. UNCHANGED <<scope, spaces, made, ns, req, leaked, killed>>
    BY <1>4, Zenon DEF Join, history
  <2> QED BY <2>1, RecordedStill, Zenon
<1> QED BY <1>2, <1>3, <1>4, RecordedTerminated, RecordedRestart, Zenon DEF Next

(* The server leaves no namespace without a record behind: Create and      *)
(* ReCreate record what they create, and a record is deleted only after    *)
(* its namespace; the migration at the start makes only namespaces of      *)
(* records.  The exceptions are those the property names, the namespaces   *)
(* CreateNamespaceINE brings back and the lost answers among them          *)
(* (NoOrphanNamespace).                                                    *)
THEOREM NamespacesRecorded == Spec => []NoOrphanNamespace
<1>1. Recorded => NoOrphanNamespace
  <2> SUFFICES ASSUME Recorded, Active = {}, ~ killed, NEW p \in Ids, ns[p] = "live",
                      p \notin spaces, p \notin leaked
               PROVE  FALSE
    BY Zenon DEF NoOrphanNamespace
  <2>1. PICK r \in Requests : Records(req[r], p)
    BY Zenon DEF Recorded, Found, Astray
  <2>2. r \in Active
    BY <2>1, Zenon DEF Records, Active
  <2> QED BY <2>2
<1> QED BY <1>1, InitTypes, NextTypes, RecordedInit, RecordedNext, PTL DEF Spec

-----------------------------------------------------------------------------
(* The deletion of a cluster dev space.                                    *)

LEMMA OwesNext ==
  ASSUME NEW s, NEW op, NEW todo \in Programs, ProgramOK(s, op, todo), NEW c, Owes(todo, c)
  PROVE  c = FirstCall(todo) \/ Owes(AfterCall(todo), c)
<1> DEFINE calls == todo[1].calls
           next == AfterCall(todo)
<1>1. /\ todo # << >> /\ calls \in Seq(CallSet) /\ Len(calls) \in Nat /\ Len(calls) > 0
      /\ Len(todo) \in Nat /\ Len(todo) > 0
  BY FirstIs, Zenon
<1>2. /\ Len(calls) > 1 =>
           /\ Len(next) = Len(todo)
           /\ next[1].calls = Tail(calls)
           /\ \A g \in 2..Len(todo) : next[g] = todo[g]
      /\ Len(calls) = 1 =>
           /\ Len(next) = Len(todo) - 1
           /\ \A g \in 1..Len(todo) - 1 : next[g] = todo[g + 1]
  BY <1>1, AfterCallIs, Zenon
<1>3. FirstCall(todo) = calls[1]
  BY Zenon DEF FirstCall
<1>4. PICK g \in 1..Len(todo) : \E i \in 1..Len(todo[g].calls) : todo[g].calls[i] = c
  BY Zenon DEF Owes
<1>5. PICK i \in 1..Len(todo[g].calls) : todo[g].calls[i] = c
  BY <1>4, Zenon
<1> HIDE DEF calls, next
<1>6. (Len(calls) > 1 \/ Len(calls) = 1) /\ (g = 1 \/ g \in 2..Len(todo))
  <2>1. Len(calls) > 1 \/ Len(calls) = 1
    BY <1>1, OneIs, Zenon
  <2>2. g = 1 \/ g \in 2..Len(todo)
    BY <1>1
  <2> QED BY <2>1, <2>2, Zenon
<1>7. CASE Len(calls) > 1 /\ g = 1
  <2>1. i \in 1..Len(calls) /\ calls[i] = c
    BY <1>5, <1>7, Zenon DEF calls
  <2>2. CASE i = 1
    BY <1>3, <2>1, <2>2, Zenon
  <2>3. CASE i # 1
    <3>1. i - 1 \in 1..Len(calls) - 1 /\ (i - 1) + 1 = i
      BY <1>1, <2>1, <2>3
    <3>2. calls # << >>
      BY <1>1
    <3>3. Len(Tail(calls)) = Len(calls) - 1 /\ \A j \in 1..Len(calls) - 1 : Tail(calls)[j] = calls[j + 1]
      BY <1>1, <3>2, TailIs, Zenon
    <3>4. Tail(calls)[i - 1] = c
      BY <2>1, <3>1, <3>3, Zenon
    <3>5. next[1].calls = Tail(calls) /\ Len(next) = Len(todo)
      BY <1>2, <1>7, Zenon
    <3>6. 1 \in 1..Len(next) /\ i - 1 \in 1..Len(next[1].calls)
      <4>1. 1 \in 1..Len(next)
        BY <1>1, <3>5
      <4> QED BY <3>1, <3>3, <3>5, <4>1, Zenon
    <3>7. Owes(next, c)
      BY <3>4, <3>5, <3>6, Zenon DEF Owes
    <3> QED BY <3>7, Zenon DEF next
  <2> QED BY <2>2, <2>3
<1>8. CASE Len(calls) > 1 /\ g \in 2..Len(todo)
  <2>1. next[g] = todo[g] /\ Len(next) = Len(todo)
    BY <1>2, <1>8, Zenon
  <2>2. Owes(next, c)
    BY <1>5, <2>1, Zenon DEF Owes
  <2> QED BY <2>2, Zenon DEF next
<1>9. CASE Len(calls) = 1 /\ g = 1
  <2>1. i \in 1..Len(calls) /\ calls[i] = c
    BY <1>5, <1>9, Zenon DEF calls
  <2>2. i = 1
    BY <1>9, <2>1
  <2> QED BY <1>3, <2>1, <2>2, Zenon
<1>10. CASE Len(calls) = 1 /\ g \in 2..Len(todo)
  <2>1. g - 1 \in 1..Len(todo) - 1 /\ (g - 1) + 1 = g
    BY <1>1, <1>10
  <2>2. next[g - 1] = todo[g] /\ Len(next) = Len(todo) - 1
    BY <1>2, <1>10, <2>1, Zenon
  <2>3. Owes(next, c)
    BY <1>5, <2>1, <2>2, Zenon DEF Owes
  <2> QED BY <2>3, Zenon DEF next
<1> QED BY <1>6, <1>7, <1>8, <1>9, <1>10, Zenon

LEMMA OwesAfterAdd ==
  ASSUME NEW todo \in Programs, NEW c, Owes(todo, c)
  PROVE  Owes(<<AddGroup>> \o todo, c)
<1> DEFINE t == <<AddGroup>> \o todo
<1>1. AddGroup \in GroupSet
  BY AddGroupOK, Zenon
<1>2. todo \in Seq(GroupSet)
  BY DEF Programs, GroupSet, CallSet
<1>3. /\ Len(t) = Len(todo) + 1 /\ Len(todo) \in Nat /\ \A i \in 2..Len(todo) + 1 : t[i] = todo[i - 1]
  BY <1>1, <1>2, ConsIs
<1> HIDE DEF t
<1>4. PICK g \in 1..Len(todo) : \E i \in 1..Len(todo[g].calls) : todo[g].calls[i] = c
  BY Zenon DEF Owes
<1>5. g + 1 \in 2..Len(todo) + 1 /\ g + 1 \in 1..Len(t) /\ (g + 1) - 1 = g
  BY <1>3
<1>6. t[g + 1] = todo[g]
  BY <1>3, <1>5, Zenon
<1>7. Owes(t, c)
  BY <1>4, <1>5, <1>6, Zenon DEF Owes
<1> QED BY <1>7, Zenon DEF t

LEMMA OwesDelete ==
  ASSUME scope = "cluster"
  PROVE  /\ Owes(DeleteProgram, Call("removeAll", "view", Owner))
         /\ Owes(DeleteProgram, Call("removeAll", "coop", Owner))
         /\ Owes(DeleteProgram, Call("unauthorize", "admin", Owner))
<1> DEFINE v == Call("removeAll", "view", Owner)
           k == Call("removeAll", "coop", Owner)
           a == Call("unauthorize", "admin", Owner)
           f == Plain("forget")
           e == Plain("evict")
           y == <<v, k, a, f, e>>
           g == Must(y)
<1>1. DeleteProgram = <<g>>
  BY Zenon DEF DeleteProgram
<1> HIDE DEF v, k, a, f, e
<1>2. Len(y) = 5 /\ y[1] = v /\ y[2] = k /\ y[3] = a
  OBVIOUS
<1> HIDE DEF y
<1>3. g.calls = y
  BY DEF Must
<1> HIDE DEF g
<1>4. Len(<<g>>) = 1 /\ <<g>>[1] = g
  OBVIOUS
<1> DEFINE p == <<g>>
<1> HIDE DEF p
<1>5. Len(p) = 1 /\ p[1].calls = y
  BY <1>3, <1>4, Zenon DEF p
<1>6. 1 \in 1..Len(p) /\ 1 \in 1..Len(y) /\ 2 \in 1..Len(y) /\ 3 \in 1..Len(y)
  BY <1>2, <1>5
<1>7. Owes(p, y[1]) /\ Owes(p, y[2]) /\ Owes(p, y[3])
  BY <1>5, <1>6, Zenon DEF Owes
<1> QED BY <1>1, <1>2, <1>7, Zenon DEF p, v, k, a

(* A delete that has come to its record owes no removal. *)
LEMMA OwesNothing ==
  ASSUME NEW s, NEW todo \in Programs, ProgramOK(s, "delete", todo),
         FirstCall(todo).call = "forget", NEW c, Owes(todo, c)
  PROVE  c.call \notin Removals
<1> DEFINE calls == todo[1].calls
<1>1. /\ GroupOK(s, "delete", todo[1]) /\ calls \in Seq(CallSet) /\ Len(calls) \in Nat
      /\ Len(calls) > 0 /\ Len(todo) \in Nat
  BY FirstIs, Zenon
<1>2. Len(todo) = 1
  <2>1. todo[1] # AddGroup
    <3>1. "forget" # "add"
      OBVIOUS
    <3> QED BY <3>1, AddGroupFirst, Zenon
  <2> QED BY <2>1, Zenon DEF ProgramOK
<1>3. \A g \in 1..Len(todo) : g = 1
  BY <1>2
<1>4. PICK i \in 1..Len(calls) : calls[i] = c
  BY <1>3, Zenon DEF Owes
<1>5. calls[1].call = "forget"
  BY Zenon DEF FirstCall
<1> HIDE DEF calls
<1>6. 1 \in 1..Len(calls) /\ (i = 1 \/ 1 < i)
  BY <1>1
<1>7. CASE i = 1
  BY <1>4, <1>5, <1>7 DEF Removals
<1>8. CASE 1 < i
  <2>1. CallsOK(s, "delete", calls)
    BY <1>1, Zenon DEF GroupOK, calls
  <2> QED BY <1>4, <1>5, <1>6, <1>8, <2>1, Zenon DEF CallsOK
<1> QED BY <1>6, <1>7, <1>8

(* Call c takes subject u from binding b of the cluster. *)
Owed(c, b, u) ==
  \/ b \in Shared /\ (c = Call("removeAll", b, Owner) \/ c = Call("remove", b, u))
  \/ b = "admin" /\ c = Call("unauthorize", "admin", Owner)
Due(todo, b, u) == \E c : Owes(todo, c) /\ Owed(c, b, u)

(* The program takes everybody from every binding of the cluster. *)
Dues(lg, todo) == \A b \in Roles : \A u \in BoundIn(lg, 0, b) : Due(todo, b, u)
Empty(lg) == \A b \in Roles : BoundIn(lg, 0, b) = {}

OwnersOnly == scope = "cluster" => BoundIn(log, 0, "admin") \subseteq {Owner}
Emptied ==
  (scope = "cluster" /\ ~ stayed) =>
    /\ spaces = {} => Empty(log)
    /\ \A r \in Requests : req[r].op = "delete" => Dues(log, req[r].todo)

LEMMA OwedIs ==
  ASSUME NEW c, NEW b \in Roles, NEW u, Owed(c, b, u)
  PROVE  /\ c.call \in Removals /\ c.role = b /\ (c.call = "remove" => c.who = u)
         /\ c.call = "removeAll" => c = Call("removeAll", b, Owner)
         /\ c.call = "unauthorize" => b = "admin" /\ c.who = Owner
BY DEF Owed, Call, Removals

LEMMA WentDues ==
  ASSUME NEW s, NEW q \in ReqSet, NEW n, NEW lg, NEW new,
         q.op = "delete", ProgramOK(s, q.op, q.todo), Dues(lg, q.todo),
         Went(s, q, n), n.op = "delete",
         \A b \in Roles : \A u \in BoundIn(new, 0, b) :
           u \in BoundIn(lg, 0, b) /\ ~ Owed(FirstCall(q.todo), b, u)
  PROVE  Dues(new, n.todo)
<1>1. n.todo = AfterCall(q.todo) /\ q.todo \in Programs
  <2>1. "delete" # "none"
    OBVIOUS
  <2>2. n.todo = AfterCall(q.todo)
    BY <2>1, Zenon DEF Went
  <2> QED BY <2>2 DEF ReqSet
<1>2. ASSUME NEW b \in Roles, NEW u \in BoundIn(new, 0, b)
      PROVE  Due(n.todo, b, u)
  <2>1. PICK c : Owes(q.todo, c) /\ Owed(c, b, u)
    BY <1>2, Zenon DEF Dues, Due
  <2>2. c # FirstCall(q.todo)
    BY <1>2, <2>1, Zenon
  <2>3. Owes(n.todo, c)
    BY <1>1, <2>1, <2>2, OwesNext, Zenon
  <2> QED BY <2>1, <2>3, Zenon DEF Due
<1> QED BY <1>2, Zenon DEF Dues

LEMMA LeftOver ==
  ASSUME NEW q, NEW n, Left(q, n), q.op = "delete"
  PROVE  n.op # "delete"
<1>1. n.op = "none"
  BY Zenon DEF Left
<1> QED BY <1>1

(* A step of request r that writes no binding. *)
LEMMA EmptiedTurn ==
  ASSUME Emptied, OwnersOnly, NEW r \in Requests, NEW n, Turns(r, n), scope' = scope, log' = log,
         stayed => stayed',
         (scope = "cluster" /\ ~ stayed' /\ spaces' = {}) => (spaces = {} \/ Empty(log)),
         (scope = "cluster" /\ ~ stayed' /\ n.op = "delete") => Dues(log, n.todo)
  PROVE  Emptied' /\ OwnersOnly'
<1>1. OwnersOnly'
  BY Zenon DEF OwnersOnly
<1>2. ASSUME scope' = "cluster", ~ stayed'
      PROVE  /\ spaces' = {} => Empty(log')
             /\ \A x \in Requests : req'[x].op = "delete" => Dues(log', req'[x].todo)
  <2>1. /\ scope = "cluster" /\ ~ stayed /\ (spaces = {} => Empty(log))
        /\ \A x \in Requests : req[x].op = "delete" => Dues(log, req[x].todo)
    BY <1>2, Zenon DEF Emptied
  <2>2. spaces' = {} => Empty(log')
    BY <1>2, <2>1, Zenon
  <2>3. ASSUME NEW x \in Requests, req'[x].op = "delete"
        PROVE  Dues(log, req'[x].todo)
    <3>1. CASE x = r
      <4>1. req'[x] = n
        BY <3>1, Zenon DEF Turns
      <4> QED BY <1>2, <2>1, <2>3, <4>1, Zenon
    <3>2. CASE x # r
      <4>1. Aside(req[x], req'[x])
        BY <3>2, Zenon DEF Turns
      <4>2. req'[x].op = req[x].op /\ req'[x].todo = req[x].todo
        BY <4>1, Zenon DEF Aside
      <4> QED BY <2>1, <2>3, <4>2, Zenon
    <3> QED BY <3>1, <3>2
  <2> QED BY <2>2, <2>3, Zenon
<1> QED BY <1>1, <1>2, Zenon DEF Emptied

(* The calls that remove nothing, or find nothing to remove. *)
LEMMA EmptiedMoves ==
  ASSUME Types, Emptied, OwnersOnly, NEW r \in Requests, req[r].op # "none",
         Continue(r) \/ GiveUp(r), scope' = scope, log' = log, spaces \subseteq spaces',
         stayed => stayed',
         \/ GiveUp(r) \/ stayed' \/ Here(r).call \notin Removals
         \/ Here(r).call # "removeAll" /\ BoundIn(log, req[r].at, Here(r).role) = {}
  PROVE  Emptied' /\ OwnersOnly'
<1>1. WorldOK /\ ReqOK
  BY Zenon DEF Types
<1>2. /\ Here(r) = FirstCall(req[r].todo) /\ req[r] \in ReqSet /\ RequestOK(scope, made, req[r])
      /\ ProgramOK(scope, req[r].op, req[r].todo)
  BY <1>1, ActiveIs, Zenon
<1>3. PICK n \in ReqSet : /\ req' = [req EXCEPT ![r] = n]
                          /\ Left(req[r], n) \/ (Went(scope, req[r], n) /\ Continue(r))
                          /\ GiveUp(r) => Left(req[r], n)
  <2>1. CASE GiveUp(r)
    BY <1>1, <2>1, GiveUpOK, Zenon
  <2>2. CASE ~ GiveUp(r)
    BY <1>1, <2>2, ContinueOK, Zenon
  <2> QED BY <2>1, <2>2
<1>4. Turns(r, n)
  BY <1>1, <1>3, TurnsAlone, Zenon
<1>5. (scope = "cluster" /\ ~ stayed' /\ spaces' = {}) => (spaces = {} \/ Empty(log))
  OBVIOUS
<1>6. ASSUME scope = "cluster", ~ stayed', n.op = "delete"
      PROVE  Dues(log, n.todo)
  <2>1. Went(scope, req[r], n) /\ req[r].op = "delete" /\ ~ GiveUp(r)
    <3>1. n.op # "none"
      BY <1>6
    <3>2. req[r].op = "delete"
      BY <1>3, <1>6, <3>1, Zenon DEF Went, Left
    <3>3. ~ Left(req[r], n)
      BY <1>6, <3>2, LeftOver, Zenon
    <3> QED BY <1>3, <3>2, <3>3, Zenon
  <2>2. Dues(log, req[r].todo)
    BY <1>6, <2>1, Zenon DEF Emptied
  <2>3. req[r].at = 0
    BY <1>2, <1>6, Zenon DEF RequestOK
  <2>4. ASSUME NEW b \in Roles, NEW u \in BoundIn(log, 0, b), Owed(FirstCall(req[r].todo), b, u)
        PROVE  FALSE
    <3>1. Here(r).call \in Removals /\ Here(r).role = b
      BY <1>2, <2>4, OwedIs, Zenon
    <3>2. BoundIn(log, 0, b) = {}
      BY <1>6, <2>1, <2>3, <3>1, Zenon
    <3> QED BY <2>4, <3>2
  <2> QED BY <1>2, <1>6, <2>1, <2>2, <2>4, WentDues, Zenon
<1> QED BY <1>4, <1>5, <1>6, EmptiedTurn, Zenon

LEMMA AsksEmptied ==
  ASSUME Types, Emptied, OwnersOnly, NEW r \in Requests, Asks(r)
  PROVE  Emptied' /\ OwnersOnly'
<1>1. WorldOK /\ ReqOK
  BY Zenon DEF Types
<1>2. scope' = scope /\ log' = log /\ spaces' = spaces /\ stayed' = stayed
  <2>1. Quiet
    BY <1>1, AsksOK, Zenon
  <2> QED BY <2>1, Zenon DEF Quiet, world, history
<1>3. PICK n : Begins(scope, made, n) /\ req' = [req EXCEPT ![r] = n]
  BY <1>1, AsksOK, Zenon
<1>4. /\ n \in ReqSet
      /\ n.op = "delete" => n.todo = DeleteProgram \/ n.todo = <<AddGroup>> \o DeleteProgram
  BY <1>3, Zenon DEF Begins
<1>5. Turns(r, n)
  BY <1>1, <1>3, <1>4, TurnsAlone, Zenon
<1>6. ASSUME scope = "cluster", n.op = "delete"
      PROVE  Dues(log, n.todo)
  <2>1. ASSUME NEW c, Owes(DeleteProgram, c)
        PROVE  Owes(n.todo, c)
    <3>1. DeleteProgram \in Programs
      <4>1. scope \in {"ns", "cluster"}
        BY <1>6
      <4> QED BY <4>1, DeleteBegun, Zenon DEF Begun
    <3>2. Owes(<<AddGroup>> \o DeleteProgram, c)
      BY <2>1, <3>1, OwesAfterAdd, Zenon
    <3> QED BY <1>4, <1>6, <2>1, <3>2, Zenon
  <2>2. /\ Owes(n.todo, Call("removeAll", "view", Owner))
        /\ Owes(n.todo, Call("removeAll", "coop", Owner))
        /\ Owes(n.todo, Call("unauthorize", "admin", Owner))
    BY <1>6, <2>1, OwesDelete, Zenon
  <2>3. ASSUME NEW b \in Roles, NEW u
        PROVE  Due(n.todo, b, u)
    <3>1. b = "admin" \/ b = "coop" \/ b = "view"
      BY DEF Roles
    <3>2. "coop" \in Shared /\ "view" \in Shared
      BY SharedIs
    <3>3. CASE b = "admin"
      BY <2>2, <3>3, Zenon DEF Due, Owed
    <3>4. CASE b = "coop"
      BY <2>2, <3>2, <3>4, Zenon DEF Due, Owed
    <3>5. CASE b = "view"
      BY <2>2, <3>2, <3>5, Zenon DEF Due, Owed
    <3> QED BY <3>1, <3>3, <3>4, <3>5
  <2> QED BY <2>3, Zenon DEF Dues
<1>7. (stayed => stayed') /\ (spaces' = {} => spaces = {})
  BY <1>2
<1> QED BY <1>2, <1>5, <1>6, <1>7, EmptiedTurn, Zenon

LEMMA PlainEmptied ==
  ASSUME Types, Emptied, OwnersOnly, NEW r \in Requests,
         \/ Add(r) \/ Evict(r) \/ Check(r) \/ CheckName(r) \/ ForgetFails(r)
         \/ CreateNamespaceINE(r) \/ DeleteNs(r)
  PROVE  Emptied' /\ OwnersOnly'
<1>1. /\ scope' = scope /\ log' = log /\ spaces' = spaces /\ stayed' = stayed
      /\ Continue(r) \/ GiveUp(r)
  BY Zenon DEF Add, Evict, Check, CheckName, ForgetFails, CreateNamespaceINE, DeleteNs,
               history, world
<1>2. \/ At(r, "add") \/ At(r, "evict") \/ At(r, "check") \/ At(r, "checkName") \/ At(r, "forget")
      \/ At(r, "namespace") \/ At(r, "deleteNs")
  BY Zenon DEF Add, Evict, Check, CheckName, ForgetFails, CreateNamespaceINE, DeleteNs
<1>3. req[r].op # "none" /\ Here(r).call \notin Removals
  BY <1>2 DEF At, Removals
<1>4. spaces \subseteq spaces' /\ (stayed => stayed')
  BY <1>1
<1> QED BY <1>1, <1>3, <1>4, EmptiedMoves, Zenon

LEMMA ForgetEmptied ==
  ASSUME Types, Emptied, OwnersOnly, NEW r \in Requests, Forget(r)
  PROVE  Emptied' /\ OwnersOnly'
<1>1. WorldOK /\ ReqOK
  BY Zenon DEF Types
<1>2. /\ scope' = scope /\ log' = log /\ stayed' = stayed /\ At(r, "forget") /\ Continue(r)
  BY Zenon DEF Forget, history
<1>3. req[r].op # "none" /\ Here(r).call = "forget"
  BY <1>2, Zenon DEF At
<1>4. /\ Here(r) = FirstCall(req[r].todo) /\ req[r] \in ReqSet /\ RequestOK(scope, made, req[r])
      /\ ProgramOK(scope, req[r].op, req[r].todo) /\ CallOK(scope, req[r].op, Here(r))
      /\ req[r].todo \in Programs
  BY <1>1, <1>3, ActiveIs, Zenon
<1>5. PICK n \in ReqSet : req' = [req EXCEPT ![r] = n] /\ Went(scope, req[r], n)
  BY <1>1, <1>2, <1>3, ContinueOK, Zenon
<1>6. Turns(r, n)
  BY <1>1, <1>5, TurnsAlone, Zenon
<1>7. ASSUME scope = "cluster", ~ stayed'
      PROVE  Empty(log) /\ (n.op = "delete" => Dues(log, n.todo))
  <2>1. req[r].op = "delete"
    <3>1. scope # "ns"
      BY <1>7
    <3>2. req[r].op # "recreate"
      BY <1>3, <1>4, <3>1, Zenon DEF RequestOK
    <3>3. req[r].op \in {"delete", "recreate"}
      BY <1>3, <1>4, Zenon DEF CallOK
    <3> QED BY <3>2, <3>3
  <2>2. ~ stayed
    BY <1>2, <1>7
  <2>3. Dues(log, req[r].todo)
    BY <1>7, <2>1, <2>2, Zenon DEF Emptied
  <2>4. ASSUME NEW b \in Roles, NEW u \in BoundIn(log, 0, b)
        PROVE  FALSE
    <3>1. PICK c : Owes(req[r].todo, c) /\ Owed(c, b, u)
      BY <2>3, <2>4, Zenon DEF Dues, Due
    <3>2. c.call \in Removals
      BY <3>1, OwedIs, Zenon
    <3>3. ProgramOK(scope, "delete", req[r].todo) /\ FirstCall(req[r].todo).call = "forget"
      BY <1>3, <1>4, <2>1, Zenon
    <3> QED BY <1>4, <3>1, <3>2, <3>3, OwesNothing, Zenon
  <2>5. Empty(log)
    BY <2>4 DEF Empty
  <2>6. Dues(log, n.todo)
    BY <2>4, Zenon DEF Dues
  <2> QED BY <2>5, <2>6
<1>8. stayed => stayed'
  BY <1>2
<1> QED BY <1>2, <1>6, <1>7, <1>8, EmptiedTurn, Zenon

LEMMA InsertEmptied ==
  ASSUME Types, Emptied, OwnersOnly, NEW r \in Requests, Insert(r)
  PROVE  Emptied' /\ OwnersOnly'
<1>1. WorldOK /\ ReqOK
  BY Zenon DEF Types
<1>2. scope' = scope /\ log' = log /\ stayed' = stayed /\ At(r, "insert")
  BY Zenon DEF Insert, history
<1>3. req[r].op # "none" /\ Here(r).call = "insert"
  BY <1>2, Zenon DEF At
<1>4. /\ Here(r) = FirstCall(req[r].todo) /\ req[r] \in ReqSet
      /\ ProgramOK(scope, req[r].op, req[r].todo)
  BY <1>1, <1>3, ActiveIs, Zenon
<1>5. PICK new \in 1..made', m \in ReqSet, n \in ReqSet :
           /\ new = (IF scope = "cluster" THEN made + 1 ELSE req[r].at)
           /\ new \in Ids /\ made' \in 0..MaxSpaces /\ made <= made' /\ (scope = "ns" => made' = made)
           /\ Went(scope, req[r], m) /\ RequestOK(scope, made, m)
           /\ n.op = m.op /\ n.id = m.id /\ n.todo = m.todo /\ n.got = NoRead
           /\ n.crossed = m.crossed /\ (m.op # "none" => n.at = m.at)
           /\ req' = [req EXCEPT ![r] = n]
           /\ spaces' = spaces \cup {new}
  BY InsertIs, Zenon
<1>6. Turns(r, n)
  BY <1>1, <1>5, TurnsAlone, Zenon
<1>7. spaces' # {} /\ (stayed => stayed')
  BY <1>2, <1>5
<1>8. ASSUME scope = "cluster", ~ stayed', n.op = "delete"
      PROVE  Dues(log, n.todo)
  <2>1. m.op = "delete" /\ m.op # "none"
    BY <1>5, <1>8
  <2>2. req[r].op = "delete"
    BY <1>5, <2>1, Zenon DEF Went
  <2>3. Dues(log, req[r].todo)
    BY <1>7, <1>8, <2>2, Zenon DEF Emptied
  <2>4. ASSUME NEW b \in Roles, NEW u \in BoundIn(log, 0, b)
        PROVE  ~ Owed(FirstCall(req[r].todo), b, u)
    <3>1. FirstCall(req[r].todo).call \notin Removals
      BY <1>3, <1>4 DEF Removals
    <3> QED BY <3>1, OwedIs, Zenon
  <2>5. Dues(log, m.todo)
    BY <1>4, <1>5, <2>1, <2>2, <2>3, <2>4, WentDues, Zenon
  <2> QED BY <1>5, <2>5, Zenon
<1> QED BY <1>2, <1>6, <1>7, <1>8, EmptiedTurn, Zenon

LEMMA NsEmptied ==
  ASSUME Types, Emptied, OwnersOnly, NEW r \in Requests,
         CreateNs(r) \/ List(r) \/ NamespaceLost(r)
  PROVE  Emptied' /\ OwnersOnly'
<1>1. scope = "ns"
  BY CreateNsIs, ListIs, LostIs, Zenon
<1>2. scope' = scope
  BY Zenon DEF CreateNs, List, NamespaceLost, world
<1>3. scope' # "cluster"
  BY <1>1, <1>2
<1> QED BY <1>3, Zenon DEF Emptied, OwnersOnly

LEMMA GetEmptied ==
  ASSUME Types, Emptied, OwnersOnly, NEW r \in Requests, Get(r) \/ PutRefused(r)
  PROVE  Emptied' /\ OwnersOnly'
<1>1. WorldOK /\ ReqOK
  BY Zenon DEF Types
<1>2. scope' = scope /\ log' = log /\ spaces' = spaces /\ stayed' = stayed /\ Reads(r)
  BY GetIs, Zenon DEF PutRefused, world, history
<1>3. spaces \subseteq spaces' /\ (stayed => stayed') /\ (spaces' = {} => spaces = {})
  BY <1>2
<1>4. req[r].op # "none" /\ Here(r).call \in {"append", "remove", "unauthorize"}
  BY <1>2, ReadsIs, Zenon
<1>5. CASE GiveUp(r)
  BY <1>2, <1>3, <1>4, <1>5, EmptiedMoves, Zenon
<1>6. CASE Continue(r) /\ Here(r).call = "append"
  <2>1. Here(r).call \notin Removals
    BY <1>6 DEF Removals
  <2> QED BY <1>2, <1>3, <1>4, <1>6, <2>1, EmptiedMoves, Zenon
<1>7. CASE Continue(r) /\ Now(req[r].at, Here(r).role) \in {{}, Gone}
  <2>1. BoundIn(log, req[r].at, Here(r).role) = {}
    BY <1>7, BoundIs DEF Bound
  <2>2. Here(r).call # "removeAll"
    BY <1>4
  <2> QED BY <1>2, <1>3, <1>4, <1>7, <2>1, <2>2, EmptiedMoves, Zenon
<1>8. CASE req' = [req EXCEPT ![r].got = [version |-> Len(log[req[r].at][Here(r).role]),
                                          who |-> Now(req[r].at, Here(r).role)]]
  <2>1. PICK n \in ReqSet : req' = [req EXCEPT ![r] = n] /\ Same(req[r], n)
    BY <1>4, <1>8, ReadingIs, Zenon
  <2>2. Turns(r, n)
    BY <1>1, <2>1, TurnsAlone, Zenon
  <2>3. (scope = "cluster" /\ ~ stayed' /\ n.op = "delete") => Dues(log, n.todo)
    BY <1>3, <2>1, Zenon DEF Same, Emptied
  <2> QED BY <1>2, <1>3, <2>2, <2>3, EmptiedTurn, Zenon
<1> QED BY <1>5, <1>6, <1>7, <1>8, GetIs, Zenon DEF PutRefused

LEMMA RemoveAllEmptied ==
  ASSUME Types, Emptied, OwnersOnly, NEW r \in Requests, RemoveAll(r)
  PROVE  Emptied' /\ OwnersOnly'
<1> DEFINE b0 == Here(r).role
<1>1. WorldOK /\ ReqOK
  BY Zenon DEF Types
<1>2. /\ scope' = scope /\ log' = log /\ spaces' = spaces /\ req[r].op # "none"
      /\ stayed' = (stayed \/ ~(Bound(req[r].at, b0) \subseteq Cached(req[r].at, b0)))
  BY Zenon DEF RemoveAll, world, At
<1>3. req[r].op = "delete" /\ Here(r).call = "removeAll" /\ b0 \in Shared
  BY RemoveAllIs, Zenon
<1>4. PICK n \in ReqSet : /\ req' = [req EXCEPT ![r] = n]
                          /\ \A u \in Cached(req[r].at, b0) : Owes(n.todo, Call("remove", b0, u))
                          /\ \A c : Owes(req[r].todo, c) /\ c # Here(r) => Owes(n.todo, c)
  BY RemoveAllIs, Zenon
<1>5. Turns(r, n)
  BY <1>1, <1>4, TurnsAlone, Zenon
<1>6. (stayed => stayed') /\ (spaces' = {} => spaces = {})
  BY <1>2, Zenon
<1>7. ASSUME scope = "cluster", ~ stayed'
      PROVE  Dues(log, n.todo)
  <2>1. ~ stayed /\ Bound(req[r].at, b0) \subseteq Cached(req[r].at, b0)
    BY <1>2, <1>7, Zenon
  <2>2. Dues(log, req[r].todo)
    BY <1>3, <1>7, <2>1, Zenon DEF Emptied
  <2>3. req[r].at = 0
    <3>1. RequestOK(scope, made, req[r])
      BY <1>1, <1>2, ActiveIs, Zenon
    <3> QED BY <1>2, <1>7, <3>1, Zenon DEF RequestOK
  <2>4. ASSUME NEW b \in Roles, NEW u \in BoundIn(log, 0, b)
        PROVE  Due(n.todo, b, u)
    <3>1. PICK c : Owes(req[r].todo, c) /\ Owed(c, b, u)
      BY <2>2, <2>4, Zenon DEF Dues, Due
    <3>2. CASE c # Here(r)
      BY <1>4, <3>1, <3>2, Zenon DEF Due
    <3>3. CASE c = Here(r)
      <4>1. b = b0
        BY <3>1, <3>3, OwedIs, Zenon
      <4>2. u \in Bound(0, b0)
        BY <2>4, <4>1, BoundIs, Zenon
      <4>3. u \in Cached(req[r].at, b0)
        BY <2>1, <2>3, <4>2
      <4>4. Owes(n.todo, Call("remove", b0, u))
        BY <1>4, <4>3, Zenon
      <4> QED BY <1>3, <4>1, <4>4, Zenon DEF Due, Owed
    <3> QED BY <3>2, <3>3
  <2> QED BY <2>4, Zenon DEF Dues
<1> QED BY <1>2, <1>5, <1>6, <1>7, EmptiedTurn, Zenon

LEMMA FailsEmptied ==
  ASSUME Types, Emptied, OwnersOnly, NEW r \in Requests, Fails(r)
  PROVE  Emptied' /\ OwnersOnly'
<1>1. /\ req[r].op # "none" /\ UNCHANGED world
      /\ Here(r).call \notin {"add", "list", "forget", "evict", "removeAll"}
      /\ \/ Continue(r) /\ Ignored(r)
         \/ GiveUp(r) /\ ~ Ignored(r)
      /\ stayed' = (stayed \/ (Ignored(r) /\ Here(r).call \in {"remove", "unauthorize"}))
  BY FailsIs, Zenon
<1>2. scope' = scope /\ log' = log /\ spaces' = spaces
  BY <1>1, Zenon DEF world
<1>3. spaces \subseteq spaces'
  BY <1>2
<1>4. stayed => stayed'
  BY <1>1, Zenon
<1>5. CASE GiveUp(r)
  BY <1>1, <1>2, <1>3, <1>4, <1>5, EmptiedMoves, Zenon
<1>6. CASE Continue(r) /\ Ignored(r)
  <2>1. CASE Here(r).call \in {"remove", "unauthorize"}
    <3>1. stayed'
      BY <1>1, <1>6, <2>1, Zenon
    <3> QED BY <1>1, <1>2, <1>3, <1>4, <1>6, <3>1, EmptiedMoves, Zenon
  <2>2. CASE Here(r).call \notin {"remove", "unauthorize"}
    <3>1. Here(r).call \notin Removals
      BY <1>1, <2>2 DEF Removals
    <3> QED BY <1>1, <1>2, <1>3, <1>4, <1>6, <3>1, EmptiedMoves, Zenon
  <2> QED BY <2>1, <2>2
<1> QED BY <1>1, <1>5, <1>6, Zenon

LEMMA PutOwners ==
  ASSUME Types, OwnersOnly, NEW r \in Requests, Put(r) \/ PutLost(r)
  PROVE  OwnersOnly'
<1>1. WorldOK /\ ReqOK /\ LogOK
  BY Zenon DEF Types
<1>2. Reads(r) /\ Wrote(r) /\ scope' = scope
  BY PutIs, Zenon
<1>3. req[r].op # "none"
  BY <1>2, ReadsIs, Zenon
<1>4. CallOK(scope, req[r].op, Here(r))
  BY <1>1, <1>3, ActiveIs, Zenon
<1> SUFFICES ASSUME scope = "cluster", NEW u \in BoundIn(log', 0, "admin")
             PROVE  u = Owner
  BY <1>2 DEF OwnersOnly
<1>5. 0 \in Places /\ "admin" \in Roles
  BY <1>1, NumbersAre, SharedIs
<1>6. BoundIn(log, 0, "admin") \subseteq {Owner}
  BY Zenon DEF OwnersOnly
<1>7. CASE u # Here(r).who
  BY <1>2, <1>5, <1>6, <1>7, WroteOthers
<1>8. CASE u = Here(r).who
  <2>1. CASE u \in BoundIn(log, 0, "admin")
    BY <1>6, <2>1
  <2>2. CASE u \notin BoundIn(log, 0, "admin")
    <3>1. req[r].at = 0 /\ Here(r).role = "admin"
      BY <1>2, <1>5, <2>2, WroteElsewhere, Zenon
    <3>2. Here(r).call = "append"
      <4>1. ASSUME Here(r).call # "append" PROVE FALSE
        <5>1. BoundIn(log', 0, "admin") = Bound(0, "admin") \ {Here(r).who}
          BY <1>2, <3>1, <4>1, Zenon DEF Wrote
        <5> QED BY <1>8, <5>1
      <4> QED BY <4>1
    <3> QED BY <1>4, <1>8, <3>1, <3>2, Zenon DEF CallOK
  <2> QED BY <2>1, <2>2
<1> QED BY <1>7, <1>8

LEMMA PutEmptied ==
  ASSUME Types, Emptied, OwnersOnly, NEW r \in Requests, Put(r) \/ PutLost(r)
  PROVE  Emptied' /\ OwnersOnly'
<1>1. WorldOK /\ ReqOK /\ LogOK
  BY Zenon DEF Types
<1>2. OwnersOnly'
  BY PutOwners, Zenon
<1>3. Reads(r) /\ Wrote(r) /\ scope' = scope /\ spaces' = spaces /\ Write(r)
  BY PutIs, Zenon
<1>4. stayed' = (stayed \/ (/\ Here(r).call = "append"
                            /\ (spaces = {} \/ \E q \in Active : req[q].op = "delete")))
  BY <1>3, Zenon DEF Write
<1>5. PICK n \in ReqSet : /\ Turns(r, n)
                          /\ Put(r) => Went(scope, req[r], n)
                          /\ PutLost(r) => Left(req[r], n)
  BY PutIs, Zenon
<1>6. req[r].op # "none" /\ Here(r).call \in {"append", "remove", "unauthorize"}
  BY <1>3, ReadsIs, Zenon
<1>7. /\ Here(r) = FirstCall(req[r].todo) /\ req[r] \in ReqSet /\ RequestOK(scope, made, req[r])
      /\ ProgramOK(scope, req[r].op, req[r].todo)
  BY <1>1, <1>6, ActiveIs, Zenon
<1> SUFFICES ASSUME scope = "cluster", ~ stayed'
             PROVE  /\ spaces = {} => Empty(log')
                    /\ \A x \in Requests : req'[x].op = "delete" => Dues(log', req'[x].todo)
  BY <1>2, <1>3, Zenon DEF Emptied
<1>8. /\ ~ stayed /\ (spaces = {} => Empty(log))
      /\ \A x \in Requests : req[x].op = "delete" => Dues(log, req[x].todo)
  BY <1>4, Zenon DEF Emptied
<1>9. ASSUME NEW x \in Requests, req'[x].op = "delete"
      PROVE  req[x].op = "delete" /\ x \in Active
  <2>1. req'[x].op # "none" /\ "delete" # "none"
    BY <1>9
  <2>2. req[x].op = "delete"
    <3>1. CASE x = r
      <4>1. req'[x] = n
        BY <1>5, <3>1, Zenon DEF Turns
      <4>2. n.op = req[r].op
        BY <1>5, <2>1, <4>1, Zenon DEF Went, Left
      <4> QED BY <1>9, <3>1, <4>1, <4>2, Zenon
    <3>2. CASE x # r
      <4>1. Aside(req[x], req'[x])
        BY <1>5, <3>2, Zenon DEF Turns
      <4> QED BY <1>9, <4>1, Zenon DEF Aside
    <3> QED BY <3>1, <3>2
  <2> QED BY <2>1, <2>2, Zenon DEF Active
<1>10. CASE Here(r).call = "append"
  <2>1. spaces # {} /\ \A q \in Active : req[q].op # "delete"
    BY <1>4, <1>10, Zenon
  <2> QED BY <1>9, <2>1, Zenon
<1>11. CASE Here(r).call # "append"
  <2>1. req[r].at = 0
    BY <1>6, <1>7, Zenon DEF RequestOK
  <2>2. 0 \in Places
    BY <1>1, NumbersAre
  <2>3. ASSUME NEW b \in Roles, NEW u \in BoundIn(log', 0, b)
        PROVE  /\ u \in BoundIn(log, 0, b)
               /\ b # Here(r).role \/ u # Here(r).who
    <3>1. CASE b = Here(r).role
      <4>1. BoundIn(log', 0, b) = Bound(0, b) \ {Here(r).who}
        BY <1>3, <1>11, <2>1, <3>1, Zenon DEF Wrote
      <4>2. Bound(0, b) = BoundIn(log, 0, b)
        BY BoundIs
      <4> QED BY <2>3, <4>1, <4>2
    <3>2. CASE b # Here(r).role
      <4>1. BoundIn(log', 0, b) = BoundIn(log, 0, b)
        BY <1>3, <2>2, <3>2, WroteElsewhere, Zenon
      <4> QED BY <2>3, <3>2, <4>1, Zenon
    <3> QED BY <3>1, <3>2
  <2>4. spaces = {} => Empty(log')
    BY <1>8, <2>3 DEF Empty
  <2>5. ASSUME NEW b \in Roles, NEW u \in BoundIn(log', 0, b), Owed(FirstCall(req[r].todo), b, u)
        PROVE  FALSE
    <3>1. /\ Here(r).role = b /\ (Here(r).call = "remove" => Here(r).who = u)
          /\ Here(r).call = "unauthorize" => b = "admin" /\ Here(r).who = Owner
      BY <1>7, <2>5, OwedIs, Zenon
    <3>2. u # Here(r).who
      BY <2>3, <2>5, <3>1, Zenon
    <3>3. Here(r).call = "unauthorize"
      BY <1>6, <1>11, <3>1, <3>2
    <3>4. u \in BoundIn(log, 0, "admin") /\ Here(r).who = Owner
      BY <2>3, <2>5, <3>1, <3>3, Zenon
    <3>5. BoundIn(log, 0, "admin") \subseteq {Owner}
      BY Zenon DEF OwnersOnly
    <3> QED BY <3>2, <3>4, <3>5
  <2>6. ASSUME NEW x \in Requests, req'[x].op = "delete"
        PROVE  Dues(log', req'[x].todo)
    <3>1. req[x].op = "delete" /\ Dues(log, req[x].todo)
      BY <1>8, <1>9, <2>6, Zenon
    <3>2. CASE x # r
      <4>1. Aside(req[x], req'[x])
        BY <1>5, <3>2, Zenon DEF Turns
      <4>2. req'[x].todo = req[x].todo
        BY <4>1, Zenon DEF Aside
      <4>3. Dues(log', req[x].todo)
        BY <2>3, <3>1, Zenon DEF Dues
      <4> QED BY <4>2, <4>3, Zenon
    <3>3. CASE x = r
      <4>1. req'[x] = n /\ n.op = "delete"
        BY <1>5, <2>6, <3>3, Zenon DEF Turns
      <4>2. ~ Left(req[r], n)
        BY <3>1, <3>3, <4>1, LeftOver, Zenon
      <4>3. Went(scope, req[r], n)
        BY <1>5, <4>2, Zenon
      <4>4. Dues(log', n.todo)
        BY <1>7, <2>3, <2>5, <3>1, <3>3, <4>1, <4>3, WentDues, Zenon
      <4> QED BY <4>1, <4>4, Zenon
    <3> QED BY <3>2, <3>3
  <2> QED BY <2>4, <2>6, Zenon
<1> QED BY <1>10, <1>11

LEMMA EmptiedStill ==
  ASSUME Emptied, OwnersOnly, scope' = scope, spaces' = spaces, stayed' = stayed,
         log'[0] = log[0], \A r \in Requests : req'[r] = req[r] \/ req'[r] = Idle
  PROVE  Emptied' /\ OwnersOnly'
<1>1. \A b : BoundIn(log', 0, b) = BoundIn(log, 0, b)
  BY Zenon DEF BoundIn
<1>2. OwnersOnly'
  BY <1>1, Zenon DEF OwnersOnly
<1>3. ASSUME scope' = "cluster", ~ stayed'
      PROVE  /\ spaces' = {} => Empty(log')
             /\ \A r \in Requests : req'[r].op = "delete" => Dues(log', req'[r].todo)
  <2>1. /\ spaces = {} => Empty(log)
        /\ \A r \in Requests : req[r].op = "delete" => Dues(log, req[r].todo)
    BY <1>3 DEF Emptied
  <2>2. spaces' = {} => Empty(log')
    BY <1>1, <2>1, Zenon DEF Empty
  <2>3. ASSUME NEW r \in Requests, req'[r].op = "delete"
        PROVE  Dues(log', req'[r].todo)
    <3>1. Idle.op # "delete"
      BY IdleIs
    <3>2. req'[r] = req[r]
      BY <2>3, <3>1, Zenon
    <3>3. Dues(log, req'[r].todo)
      BY <2>1, <2>3, <3>2, Zenon
    <3> QED BY <1>1, <3>3, Zenon DEF Dues
  <2> QED BY <2>2, <2>3, Zenon
<1> QED BY <1>2, <1>3, Zenon DEF Emptied

LEMMA EmptiedInit ==
  ASSUME Init
  PROVE  Emptied /\ OwnersOnly
<1>1. PICK first \in {0, 1} :
        /\ spaces = 1..first
        /\ log = [p \in Places |-> [b \in Roles |->
            IF first = 1 /\ p = Place(1) /\ b = "admin"
            THEN <<{Owner} \cup (IF scope = "ns" THEN {Default} ELSE {})>>
            ELSE <<Gone>>]]
  BY Zenon DEF Init
<1>2. \A r \in Requests : req[r].op # "delete"
  <2>1. req = [r \in Requests |-> Idle]
    BY Zenon DEF Init
  <2>2. Idle.op # "delete"
    BY IdleIs
  <2> QED BY <2>1, <2>2, Zenon
<1>3. 0 \in Places
  BY DevSpaceAssumption DEF Places
<1>4. \A w : Len(<<w>>) = 1 /\ <<w>>[1] = w
  OBVIOUS
<1>5. ASSUME NEW b \in Roles
      PROVE  BoundIn(log, 0, b) = {} \/ (first = 1 /\ b = "admin")
  <2>1. CASE first = 1 /\ b = "admin"
    BY <2>1
  <2>2. CASE ~ (first = 1 /\ b = "admin")
    <3>1. log[0][b] = <<Gone>>
      BY <1>1, <1>3, <2>2
    <3> QED BY <1>4, <3>1 DEF BoundIn
  <2> QED BY <2>1, <2>2
<1>6. spaces = {} => Empty(log)
  <2>1. spaces = {} => first # 1
    BY <1>1
  <2> QED BY <1>5, <2>1, Zenon DEF Empty
<1>7. OwnersOnly
  <2> SUFFICES ASSUME scope = "cluster" PROVE BoundIn(log, 0, "admin") \subseteq {Owner}
    BY DEF OwnersOnly
  <2>1. "admin" \in Roles /\ scope # "ns"
    BY SharedIs
  <2>2. log[0]["admin"] = <<{Owner}>> \/ log[0]["admin"] = <<Gone>>
    <3>1. {Owner} \cup (IF scope = "ns" THEN {Default} ELSE {}) = {Owner}
      BY <2>1
    <3>2. log[0]["admin"] = IF first = 1 /\ 0 = Place(1) /\ "admin" = "admin"
            THEN <<{Owner} \cup (IF scope = "ns" THEN {Default} ELSE {})>> ELSE <<Gone>>
      BY <1>1, <1>3, <2>1, Zenon
    <3> QED BY <3>1, <3>2, Zenon
  <2> QED BY <1>4, <2>2 DEF BoundIn
<1> QED BY <1>2, <1>6, <1>7, Zenon DEF Emptied

LEMMA EmptiedNext ==
  ASSUME Types, Emptied, OwnersOnly, [Next]_vars
  PROVE  Emptied' /\ OwnersOnly'
<1>1. CASE UNCHANGED vars
  <2>1. scope' = scope /\ spaces' = spaces /\ stayed' = stayed /\ log' = log /\ req' = req
    BY <1>1 DEF vars, world, history
  <2>2. log'[0] = log[0] /\ \A r \in Requests : req'[r] = req[r]
    BY <2>1, Zenon
  <2> QED BY <2>1, <2>2, EmptiedStill, Zenon
<1>2. ASSUME NEW r \in Requests, Asks(r) \/ Works(r) \/ Errs(r)
      PROVE  Emptied' /\ OwnersOnly'
  <2>1. CASE Works(r)
    BY <2>1, PlainEmptied, ForgetEmptied, InsertEmptied, NsEmptied, GetEmptied, PutEmptied,
       RemoveAllEmptied, Zenon DEF Works
  <2>2. CASE ~ Works(r)
    BY <1>2, <2>2, AsksEmptied, FailsEmptied, NsEmptied, PlainEmptied, PutEmptied, Zenon DEF Errs
  <2> QED BY <2>1, <2>2
<1>3. ASSUME NEW x \in Ids, Terminated(x)
      PROVE  Emptied' /\ OwnersOnly'
  <2>1. scope' = scope /\ spaces' = spaces /\ stayed' = stayed /\ req' = req
    BY <1>3, Zenon DEF Terminated, history
  <2>2. WorldOK /\ LogOK
    BY Zenon DEF Types
  <2>3. 0 \in Places \ {x}
    BY <2>2, NumbersAre DEF Ids
  <2>4. log'[0] = log[0]
    BY <1>3, <2>2, <2>3, TerminatedLog, Zenon
  <2> QED BY <2>1, <2>4, EmptiedStill, Zenon
<1>4. ASSUME NEW p \in Places, NEW b \in Shared, Join(p, b)
      PROVE  Emptied' /\ OwnersOnly'
  <2>1. scope' = scope /\ spaces' = spaces /\ stayed' = stayed /\ req' = req /\ log' = log
    BY <1>4, Zenon DEF Join, history
  <2> QED BY <2>1, EmptiedStill, Zenon
<1>5. CASE Restart
  <2>1. /\ scope' = scope /\ spaces' = spaces /\ stayed' = stayed /\ Migrate
        /\ req' = [r \in Requests |-> Idle]
    BY <1>5, Zenon DEF Restart
  <2>2. \A r \in Requests : req'[r] = Idle
    BY <2>1, Zenon
  <2>3. log'[0] = log[0]
    <3>1. WorldOK /\ LogOK
      BY Zenon DEF Types
    <3>2. 0 \in Places /\ 0 \notin spaces
      BY <3>1, NumbersAre DEF WorldOK
    <3> QED BY <2>1, <3>1, <3>2, MigrateIs, Zenon
  <2> QED BY <2>1, <2>2, <2>3, EmptiedStill, Zenon
<1> QED BY <1>1, <1>2, <1>3, <1>4, <1>5, Zenon DEF Next

(* DevSpace.Delete removes the record of a cluster space only when every   *)
(* right in the cluster has been taken back: whoever is still bound, a     *)
(* request that deletes the space has a removal of him ahead of it, or the *)
(* listing of whom to remove.  So nobody keeps rights without a record,    *)
(* but for the three causes the property names (DeletedIsUnshared).        *)
THEOREM RightsTakenBack == Spec => []DeletedIsUnshared
<1>1. Emptied => DeletedIsUnshared
  BY BoundIs, Zenon DEF Emptied, Empty, DeletedIsUnshared
<1>2. Init => Types /\ Emptied /\ OwnersOnly
  BY InitTypes, EmptiedInit, Zenon
<1>3. Types /\ Emptied /\ OwnersOnly /\ [Next]_vars => Types' /\ Emptied' /\ OwnersOnly'
  BY NextTypes, EmptiedNext, Zenon
<1> QED BY <1>1, <1>2, <1>3, PTL DEF Spec
=============================================================================
