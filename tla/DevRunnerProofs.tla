-------------------------- MODULE DevRunnerProofs --------------------------
(***************************************************************************)
(* Theorems about DevRunner, for any exit codes and any number of signals. *)
(***************************************************************************)
EXTENDS DevRunner, TLAPS

LEMMA EndTypes ==
    /\ Running \in End
    /\ \A c \in Codes : Exited(c) \in End
    /\ \A s \in Signals : KilledBy(s) \in End
  BY CodesAssumption DEF Running, Exited, KilledBy, End

NodePcs == {"check", "spawn", "listen", "loop", "drain", "ended"}
Node == [pc : NodePcs, handlers : SUBSET Handled, pending : SUBSET Handled, killed : BOOLEAN,
         end : End, by : {"nobody", "itself", "others"}]
Child == [program : {"none", "infisical", "command"},
          st : {"none", "running", "failed", "dead"}, got : SUBSET Signals,
          relayed : SUBSET Handled, end : End]

\* What Finish makes of a well-typed wrapper.
LEMMA FinishType ==
    ASSUME node \in Node, NEW end \in End, Finish(end)
    PROVE  /\ node' \in Node
           /\ node'.pc = "ended" /\ node'.end = end /\ node'.by = "itself"
  BY DEF Finish, Node, NodePcs

LEMMA TypeInit == Init => TypeOK
  BY EndTypes, CodesAssumption DEF Init, TypeOK

LEMMA TypeStep == TypeOK /\ [Next]_vars => TypeOK'
<1> SUFFICES ASSUME TypeOK, [Next]_vars PROVE TypeOK'
  OBVIOUS
<1>1. /\ node \in Node /\ child \in Child /\ tools \in Tools /\ sent \in 0 .. MaxSignals
      /\ child.program = "infisical" => tools = [cli |-> TRUE, login |-> TRUE, config |-> "valid"]
  BY DEF TypeOK, Node, NodePcs, Child
<1>2. SUFFICES /\ node' \in Node /\ child' \in Child /\ tools' = tools
               /\ sent' \in 0 .. MaxSignals
               /\ child'.program = "infisical"
                    => tools = [cli |-> TRUE, login |-> TRUE, config |-> "valid"]
  BY <1>1 DEF TypeOK, Node, NodePcs, Child
<1>3. CASE Check
  <2>1. CanUseInfisical => tools = [cli |-> TRUE, login |-> TRUE, config |-> "valid"]
    BY <1>1 DEF CanUseInfisical, Tools
  <2>2. QED
    BY <1>1, <1>3, <2>1 DEF Check, Node, NodePcs, Child
<1>4. CASE Spawn
  BY <1>1, <1>4 DEF Spawn, Node, NodePcs, Child
<1>5. CASE Listen
  BY <1>1, <1>5 DEF Listen, Node, NodePcs, Handled
<1>6. CASE OnExit
  <2>1. CASE child.end.signal = Null
    <3>1. Finish(child.end) /\ child.end \in End
      BY <1>1, <1>6, <2>1, CodesAssumption DEF OnExit, Child, Handled, Ignored, Survived, Signals
    <3>2. QED
      BY <1>1, <1>6, <3>1, FinishType DEF OnExit
  <2>2. CASE child.end.signal \in Survived
    BY <1>1, <1>6, <2>2, CodesAssumption DEF OnExit, Node, NodePcs, Handled, Ignored, Survived, Signals
  <2>3. CASE child.end.signal \notin Survived \cup {Null}
    <3>1. Finish(KilledBy(child.end.signal))
      BY <1>6, <2>3 DEF OnExit
    <3>2. child.end.signal \in Signals
      BY <1>1, <2>3 DEF Child, End
    <3>3. QED
      BY <1>1, <1>6, <3>1, <3>2, FinishType, EndTypes DEF OnExit
  <2>4. QED
    BY <2>1, <2>2, <2>3
<1>7. CASE Drain
  BY <1>1, <1>7, FinishType, EndTypes, CodesAssumption DEF Drain
<1>8. CASE OnError
  BY <1>1, <1>8, FinishType, EndTypes, CodesAssumption DEF OnError
<1>9. ASSUME NEW s \in Handled, Forward(s)
      PROVE  node' \in Node /\ child' \in Child /\ child'.program = child.program
             /\ tools' = tools /\ sent' = sent
  <2>1. s \in Signals
    BY DEF Signals, Survived
  <2>2. QED
    BY <1>1, <1>9, <2>1 DEF Forward, Node, NodePcs, Child
<1>10. CASE ChildEnds
  <2>1. PICK e \in {Exited(c) : c \in Codes} \cup {KilledBy(s) : s \in child.got \cup {Crash} \cup Ignored} :
           child' = [child EXCEPT !.st = "dead", !.end = e]
    BY <1>10 DEF ChildEnds
  <2>2. child.got \cup {Crash} \cup Ignored \subseteq Signals
    BY <1>1 DEF Child, Signals, Survived
  <2>3. e \in End
    BY <2>2, EndTypes
  <2>4. QED
    BY <1>1, <1>10, <2>1, <2>3 DEF ChildEnds, Child
<1>11. ASSUME NEW s \in Handled \cup Fatal, NEW both \in BOOLEAN, Signal(s, both)
       PROVE  node' \in Node /\ child' \in Child /\ child'.program = child.program
              /\ tools' = tools /\ sent' \in 0 .. MaxSignals
  <2>1. s \in Signals /\ KilledBy(s) \in End
    BY EndTypes DEF Signals, Survived
  <2>2. node' \in Node
    BY <1>1, <1>11, <2>1 DEF Signal, Node, NodePcs, Handled
  <2>3. child' \in Child /\ child'.program = child.program
    BY <1>1, <1>11, <2>1 DEF Signal, Child
  <2>4. sent' \in 0 .. MaxSignals
    BY <1>1, <1>11, CodesAssumption DEF Signal
  <2>5. QED
    BY <1>11, <2>2, <2>3, <2>4 DEF Signal
<1>12. CASE UNCHANGED vars
  BY <1>1, <1>12 DEF vars
<1>13. {"SIGINT", "SIGHUP"} \subseteq Handled \cup Fatal
  BY DEF Handled, Fatal
<1>14. QED
  BY <1>1, <1>3, <1>4, <1>5, <1>6, <1>7, <1>8, <1>9, <1>10, <1>11, <1>12, <1>13
     DEF Next, Wrapper, Script

(***************************************************************************)
(* The wrapper and the command stay well-typed, and Infisical is used only *)
(* where it is installed, logged in and has a workspace.                   *)
(***************************************************************************)
THEOREM RunnerTypeCorrect == Spec => []TypeOK
  BY TypeInit, TypeStep, PTL DEF Spec

-----------------------------------------------------------------------------
(***************************************************************************)
(* The inductive invariant of the ends: how the command can have ended,    *)
(* what drains the loop, and who may have ended the wrapper.               *)
(***************************************************************************)
ChildEnd ==
    child.st = "dead" =>
        \/ \E c \in Codes : child.end = Exited(c)
        \/ \E s \in Signals : child.end = KilledBy(s)

DrainsAfter == At("drain") => child.st = "dead" /\ child.end.signal \in Survived

EndedBy ==
    /\ node.by = "nobody" <=> ~At("ended")
    /\ node.by = "others" => node.end.signal \in Fatal \/ node.handlers # Handled

EndInv == TypeOK /\ ChildEnd /\ DrainsAfter /\ EndedBy /\ EndsAsChild

LEMMA EndInvImplies == EndInv => NoOrphan
<1> SUFFICES ASSUME EndInv, At("ended"), child.st = "running"
             PROVE  node.end.signal \in Fatal \/ node.handlers # Handled
  BY DEF NoOrphan
<1>1. node.by # "itself"
  BY DEF EndInv, EndsAsChild
<1>2. node.by # "nobody" /\ node.by \in {"nobody", "itself", "others"}
  BY DEF EndInv, EndedBy, TypeOK
<1>3. QED
  BY <1>1, <1>2 DEF EndInv, EndedBy

LEMMA EndInit == Init => EndInv
<1> SUFFICES ASSUME Init PROVE EndInv
  OBVIOUS
<1>1. child.st = "none" /\ node.pc = "check" /\ node.by = "nobody"
  BY DEF Init
<1>2. QED
  BY <1>1, TypeInit DEF EndInv, ChildEnd, DrainsAfter, EndedBy, EndsAsChild, At

LEMMA EndStep == EndInv /\ [Next]_vars => EndInv'
<1> SUFFICES ASSUME EndInv, [Next]_vars PROVE EndInv'
  OBVIOUS
<1>1. TypeOK'
  BY TypeStep DEF EndInv
<1>2. /\ node \in Node /\ child \in Child /\ child.end \in End
      /\ ChildEnd /\ DrainsAfter /\ EndedBy /\ EndsAsChild
  BY DEF EndInv, TypeOK, Node, NodePcs, Child
<1> USE DEF At
<1>3. CASE Check
  BY <1>1, <1>2, <1>3 DEF Check, EndInv, ChildEnd, DrainsAfter, EndedBy, EndsAsChild, Node, Child
<1>4. CASE Spawn
  BY <1>1, <1>2, <1>4 DEF Spawn, EndInv, ChildEnd, DrainsAfter, EndedBy, EndsAsChild, Node, Child
<1>5. CASE Listen
  BY <1>1, <1>2, <1>5 DEF Listen, EndInv, ChildEnd, DrainsAfter, EndedBy, EndsAsChild, Node
<1>6. ASSUME NEW end \in End, Finish(end), child' = child, EndsAsChild' PROVE EndInv'
  <2>1. node'.pc = "ended" /\ node'.by = "itself"
    BY <1>2, <1>6, FinishType
  <2>2. QED
    BY <1>1, <1>2, <1>6, <2>1 DEF EndInv, ChildEnd, DrainsAfter, EndedBy
<1>7. CASE OnExit
  <2>1. child' = child /\ child.st = "dead"
    BY <1>7 DEF OnExit
  <2>2. CASE child.end.signal \in Survived
    <3>1. node' = [node EXCEPT !.pc = "drain"]
      BY <1>7, <2>2, CodesAssumption DEF OnExit, Handled, Ignored, Survived, Signals
    <3>2. QED
      BY <1>1, <1>2, <1>7, <2>1, <2>2, <3>1
         DEF OnExit, EndInv, ChildEnd, DrainsAfter, EndedBy, EndsAsChild, Node
  <2>3. CASE child.end.signal \notin Survived
    <3>1. Finish(child.end)
      <4>1. CASE child.end.signal = Null
        BY <1>7, <2>3, <4>1 DEF OnExit
      <4>2. CASE child.end.signal # Null
        <5>1. PICK s \in Signals : child.end = KilledBy(s)
          <6>1. \A c \in Codes : Exited(c).signal = Null
            BY DEF Exited
          <6>2. QED
            BY <1>2, <2>1, <4>2, <6>1 DEF ChildEnd
        <5>2. Finish(KilledBy(child.end.signal))
          BY <1>7, <2>3, <4>2 DEF OnExit
        <5>3. QED
          BY <5>1, <5>2 DEF KilledBy
      <4>3. QED
        BY <4>1, <4>2
    <3>2. node'.end = child.end /\ node'.by = "itself"
      BY <1>2, <3>1, FinishType
    <3>3. EndsAsChild'
      BY <2>1, <2>3, <3>2 DEF EndsAsChild
    <3>4. QED
      BY <1>2, <1>6, <2>1, <3>1, <3>3
  <2>4. QED
    BY <2>2, <2>3
<1>8. CASE Drain
  <2>1. Finish(Exited(Zero)) /\ child' = child /\ Exited(Zero) \in End
    BY <1>8, EndTypes, CodesAssumption DEF Drain
  <2>2. child.st = "dead" /\ child.end.signal \in Survived
    BY <1>2, <1>8 DEF Drain, DrainsAfter
  <2>3. node'.end = Exited(Zero)
    BY <1>2, <2>1, FinishType
  <2>4. EndsAsChild'
    BY <2>1, <2>2, <2>3 DEF EndsAsChild
  <2>5. QED
    BY <1>6, <2>1, <2>4
<1>9. CASE OnError
  <2>1. Finish(Exited(One)) /\ child' = child /\ child.st = "failed" /\ Exited(One) \in End
    BY <1>9, EndTypes, CodesAssumption DEF OnError
  <2>2. node'.end = Exited(One)
    BY <1>2, <2>1, FinishType
  <2>3. EndsAsChild'
    BY <2>1, <2>2 DEF EndsAsChild
  <2>4. QED
    BY <1>6, <2>1, <2>3
<1>10. ASSUME NEW s \in Handled, Forward(s) PROVE EndInv'
  BY <1>1, <1>2, <1>10
     DEF Forward, EndInv, ChildEnd, DrainsAfter, EndedBy, EndsAsChild, Node, Child
<1>11. CASE ChildEnds
  <2>1. PICK e \in {Exited(c) : c \in Codes} \cup {KilledBy(s) : s \in child.got \cup {Crash} \cup Ignored} :
           child' = [child EXCEPT !.st = "dead", !.end = e]
    BY <1>11 DEF ChildEnds
  <2>2. child.got \cup {Crash} \cup Ignored \subseteq Signals
    BY <1>2 DEF Child, Signals, Survived
  <2>3. child'.st = "dead" /\ child'.end = e /\ child.st = "running" /\ node' = node
    BY <1>2, <1>11, <2>1 DEF ChildEnds, Child
  <2>4. ChildEnd'
    BY <2>1, <2>2, <2>3 DEF ChildEnd
  <2>5. node.pc # "drain" /\ node.by # "itself"
    BY <1>2, <2>3 DEF DrainsAfter, EndsAsChild
  <2>6. QED
    BY <1>1, <1>2, <2>3, <2>4, <2>5 DEF EndInv, DrainsAfter, EndedBy, EndsAsChild
<1>12. ASSUME NEW s \in Handled \cup Fatal, NEW both \in BOOLEAN, Signal(s, both) PROVE EndInv'
  <2>1. child'.st = child.st /\ child'.end = child.end
    BY <1>2, <1>12 DEF Signal, Child
  <2>2. CASE s \in node.handlers
    BY <1>1, <1>2, <1>12, <2>1, <2>2
       DEF Signal, EndInv, ChildEnd, DrainsAfter, EndedBy, EndsAsChild, Node
  <2>3. CASE s \notin node.handlers
    <3>1. /\ node'.pc = "ended" /\ node'.end = KilledBy(s) /\ node'.by = "others"
          /\ node'.handlers = node.handlers
      BY <1>2, <1>12, <2>3 DEF Signal, Node
    <3>2. node'.end.signal \in Fatal \/ node'.handlers # Handled
      BY <2>3, <3>1 DEF KilledBy
    <3>3. QED
      BY <1>1, <1>2, <2>1, <3>1, <3>2 DEF EndInv, ChildEnd, DrainsAfter, EndedBy, EndsAsChild
  <2>4. QED
    BY <2>2, <2>3
<1>13. CASE UNCHANGED vars
  BY <1>1, <1>2, <1>13 DEF vars, EndInv, ChildEnd, DrainsAfter, EndedBy, EndsAsChild
<1>14. {"SIGINT", "SIGHUP"} \subseteq Handled \cup Fatal
  BY DEF Handled, Fatal
<1>15. QED
  BY <1>3, <1>4, <1>5, <1>7, <1>8, <1>9, <1>10, <1>11, <1>12, <1>13, <1>14
     DEF Next, Wrapper, Script

(***************************************************************************)
(* Whatever signals arrive, at whatever moment, a wrapper that ends by     *)
(* itself ends as the command did, but for the signals that its own        *)
(* handlers take or that Node ignores.                                     *)
(***************************************************************************)
THEOREM EndsLikeItsChild == Spec => []EndsAsChild
  BY EndInit, EndStep, PTL DEF Spec, EndInv

(***************************************************************************)
(* A command that is left behind was left by a signal that the wrapper     *)
(* does not forward, or before it listened to both.                        *)
(***************************************************************************)
THEOREM LeavesNoOrphan == Spec => []NoOrphan
  BY EndInit, EndStep, EndInvImplies, PTL DEF Spec

=============================================================================
