---------------------------- MODULE Traps_proofs ----------------------------
(***************************************************************************)
(* Proofs about Traps, for every set of conditions and any number of       *)
(* signals.                                                                *)
(***************************************************************************)
EXTENDS Traps, WellFoundedInduction, TLAPS

\* There is at most one call of run_pending_traps, and in_trap is set during it.
OneCall ==
    /\ stack = <<>> \/ \E f \in Frame : stack = <<f>>
    /\ stack # <<>> => in_trap /\ pc \in {"after", "eval", "exiting"}

\* While a trap runs its signal is still counted as pending, and a signal that arrives
\* between the two halves of pending_sigs[i]-- only adds to what was read.
CallInv ==
    stack # <<>> =>
        /\ stack[1].at \in {"trap", "ended", "store"} => pending_sigs[stack[1].i] >= 1
        /\ stack[1].at = "store" =>
              stack[1].load >= 1 /\ stack[1].load <= pending_sigs[stack[1].i]

\* The condition whose trap has been counted as run and not yet taken off its counter.
InFlight(s) == stack # <<>> /\ stack[1].i = s /\ stack[1].at \in {"trap", "ended", "store"}

\* What was run and what is pending was delivered.  After an early return no trap ever
\* runs again, so that the counter of the trap that returned no longer matters.
Balance ==
    \/ in_trap /\ stack = <<>>
    \/ \A s \in Conditions :
          /\ InFlight(s) => runs[s] + pending_sigs[s] <= delivered[s] + 1
          /\ ~InFlight(s) => runs[s] + pending_sigs[s] <= delivered[s]

\* What the running call owes is still pending, still caught and still ahead of the loop.
Owed(s) ==
    /\ s >= stack[1].i
    /\ traps[s].set /\ traps[s].action = "CATCH"
    /\ pending_sigs[s] >= 1
    /\ s = stack[1].i =>
          /\ stack[1].at # "clear"
          /\ stack[1].at \in {"trap", "ended"} => pending_sigs[s] >= 2
          /\ stack[1].at = "store" => stack[1].load >= 2

OwedInv ==
    /\ ~in_trap => owed = {}
    /\ stack # <<>> => \A s \in owed : Owed(s)

Inv == TypeOK /\ OneCall /\ CallInv /\ Balance /\ OwedInv /\ RunsAreDelivered

-----------------------------------------------------------------------------
(* Stacks of one frame *)

LEMMA OneFrameStack ==
    ASSUME NEW f \in Frame, NEW g \in Frame, stack = <<f>>
    PROVE  /\ stack # <<>> /\ Len(stack) = 1 /\ stack[1] = f /\ Top = f
           /\ WithTop(g) = <<g>> /\ WithTop(g) \in Seq(Frame) /\ Pop = <<>>
           /\ <<g>>[1] = g /\ <<g>> # <<>>
  BY DEF Top, WithTop, Pop

LEMMA EmptyStack ==
    ASSUME NEW f \in Frame
    PROVE  /\ Append(<<>>, f) = <<f>> /\ <<f>> # <<>> /\ <<f>>[1] = f
           /\ <<f>> \in Seq(Frame) /\ <<>> \in Seq(Frame)
  OBVIOUS

\* The frame of the running call.
LEMMA TheFrame ==
    ASSUME Inv, stack # <<>>
    PROVE  \E f \in Frame : stack = <<f>>
  BY DEF Inv, OneCall

-----------------------------------------------------------------------------
(* Steps that touch neither the calls nor the counters *)

CallVars == <<stack, pending_sigs, in_trap, delivered, runs>>

LEMMA QuietInv ==
    ASSUME Inv, UNCHANGED CallVars, TypeOK',
           owed' \subseteq owed, \A s \in owed' : traps'[s] = traps[s],
           stack # <<>> => pc' = pc
    PROVE  Inv'
<1>1. OneCall' /\ CallInv' /\ RunsAreDelivered'
  BY DEF Inv, OneCall, CallInv, RunsAreDelivered, CallVars
<1>2. Balance'
  BY DEF Inv, Balance, InFlight, CallVars
<1>3. OwedInv'
  BY DEF Inv, OwedInv, Owed, CallVars
<1> QED
  BY <1>1, <1>2, <1>3 DEF Inv

LEMMA ActionTypes ==
    /\ \A a \in Actions : Handler(a) \in {"SIG_DFL", "SIG_IGN", "handle_signal"}
    /\ \A s, jc : \A a \in Actions : Effective(s, a, jc) \in Actions
    /\ "DEFAULT" \in Actions
    /\ NoTrap \in [set : BOOLEAN, action : Actions]
  BY DEF Actions, Handler, Effective, NoTrap

LEMMA HandlersType ==
    ASSUME TypeOK, NEW b \in BOOLEAN
    PROVE  /\ JobControlHandlers(b) \in [Conditions -> {"SIG_DFL", "SIG_IGN", "handle_signal"}]
           /\ JobControlTraps \in [Conditions -> [set : BOOLEAN, action : Actions]]
  BY ActionTypes DEF TypeOK, JobControlHandlers, JobControlTraps

LEMMA ResetType ==
    ASSUME NEW t \in [Conditions -> [set : BOOLEAN, action : Actions]],
           NEW d \in [Conditions -> {"SIG_DFL", "SIG_IGN", "handle_signal"}], NEW jc \in BOOLEAN
    PROVE  /\ ResetTraps(t, jc) \in [Conditions -> [set : BOOLEAN, action : Actions]]
           /\ ResetHandlers(t, d, jc) \in [Conditions -> {"SIG_DFL", "SIG_IGN", "handle_signal"}]
  BY ActionTypes DEF ResetTraps, ResetHandlers, Caught

LEMMA QuietSteps ==
    ASSUME Inv, EvalReturns \/ ProgramReturns \/ ChildStarts \/ ExitTrapReturns \/ ReadLine
                \/ RunCommand \/ UNCHANGED vars
    PROVE  Inv'
<1>1. /\ UNCHANGED <<CallVars, owed, traps, disp, exit, job_control, kind>>
      /\ last_status' \in Statuses
      /\ pc' \in {"read", "run", "after", "eval", "leaving", "exiting", "entered", "done"}
  BY DEF EvalReturns, ProgramReturns, ChildStarts, ExitTrapReturns, ReadLine, RunCommand, vars,
         CallVars, Inv, TypeOK
<1>2. TypeOK'
  BY <1>1 DEF Inv, TypeOK, CallVars
<1>3. stack # <<>> => pc' = pc
  BY DEF EvalReturns, ProgramReturns, ChildStarts, ExitTrapReturns, ReadLine, RunCommand, vars,
         Inv, OneCall
<1> QED
  BY <1>1, <1>2, <1>3, QuietInv

LEMMA BuiltinTrapInv ==
    ASSUME Inv, NEW s \in Conditions, NEW a \in Actions, builtin_trap(s, a) PROVE Inv'
<1>1. /\ UNCHANGED <<CallVars, last_status, exit, job_control, kind, pc>>
      /\ owed' = owed \ {s} /\ set_trap(s, a)
  BY DEF builtin_trap, CallVars
<1>2. /\ traps' \in [Conditions -> [set : BOOLEAN, action : Actions]]
      /\ disp' \in [Conditions -> {"SIG_DFL", "SIG_IGN", "handle_signal"}]
      /\ \A k \in owed' : traps'[k] = traps[k]
  <2> DEFINE e == Effective(s, a, job_control)
  <2>1. e \in Actions /\ Handler(e) \in {"SIG_DFL", "SIG_IGN", "handle_signal"}
    BY ActionTypes
  <2>2. /\ traps' = [traps EXCEPT ![s] = [set |-> TRUE, action |-> e]]
        /\ disp' = IF s = 0 THEN disp ELSE [disp EXCEPT ![s] = Handler(e)]
    BY <1>1 DEF set_trap
  <2> HIDE DEF e
  <2>3. /\ traps \in [Conditions -> [set : BOOLEAN, action : Actions]]
        /\ disp \in [Conditions -> {"SIG_DFL", "SIG_IGN", "handle_signal"}]
        /\ owed \subseteq Conditions
    BY DEF Inv, TypeOK
  <2> QED BY <1>1, <2>1, <2>2, <2>3
<1>3. TypeOK'
  BY <1>1, <1>2 DEF Inv, TypeOK, CallVars
<1> QED
  BY <1>1, <1>2, <1>3, QuietInv

LEMMA BuiltinSetInv == ASSUME Inv, NEW b \in BOOLEAN, builtin_set(b) PROVE Inv'
<1>1. /\ UNCHANGED <<CallVars, last_status, exit, kind, pc>>
      /\ job_control' = b /\ traps' = JobControlTraps /\ disp' = JobControlHandlers(b)
      /\ owed' = {s \in owed : s >= Len(ignored_job_control_sigs)}
  BY DEF builtin_set, CallVars
<1>2. /\ JobControlHandlers(b) \in [Conditions -> {"SIG_DFL", "SIG_IGN", "handle_signal"}]
      /\ JobControlTraps \in [Conditions -> [set : BOOLEAN, action : Actions]]
  BY HandlersType DEF Inv
<1>3. TypeOK'
  BY <1>1, <1>2 DEF Inv, TypeOK, CallVars
<1>4. \A s \in owed' : traps'[s] = traps[s]
  <2>1. owed \subseteq Conditions /\ Conditions \subseteq 0 .. 63
    BY ConditionsAssumption DEF Inv, TypeOK
  <2>2. Len(ignored_job_control_sigs) = 5
    BY DEF ignored_job_control_sigs
  <2>3. \A s \in owed' : s \in Conditions /\ ~(s < 5)
    BY <1>1, <2>1, <2>2
  <2> QED BY <1>1, <2>2, <2>3 DEF JobControlTraps
<1> QED
  BY <1>1, <1>3, <1>4, QuietInv

-----------------------------------------------------------------------------
(* A new call *)

\* run_pending_traps begins, with every counter raised by what was delivered.
LEMMA BeginCall ==
    ASSUME Inv, stack = <<>>, NEW ps \in [Conditions -> Nat],
           run_pending_traps(stack, ps), pending_sigs' = ps, UNCHANGED <<traps, runs>>,
           delivered' \in [Conditions -> Nat],
           \A s \in Conditions : /\ delivered[s] <= delivered'[s]
                                 /\ ps[s] - pending_sigs[s] = delivered'[s] - delivered[s],
           pc' \in {"after", "eval", "exiting"}
    PROVE  /\ stack' \in Seq(Frame) /\ in_trap' \in BOOLEAN /\ owed' \subseteq Conditions
           /\ OneCall' /\ CallInv' /\ Balance' /\ OwedInv' /\ RunsAreDelivered'
<1>1. /\ \A s \in Conditions : /\ pending_sigs[s] \in Nat /\ delivered[s] \in Nat
                               /\ runs[s] \in Nat
      /\ last_status \in Statuses /\ owed \subseteq Conditions /\ in_trap \in BOOLEAN
  BY DEF Inv, TypeOK
<1>2. RunsAreDelivered'
  BY <1>1 DEF Inv, RunsAreDelivered
<1>3. CASE in_trap
  <2>1. stack' = <<>> /\ in_trap' = TRUE /\ owed' = owed
    BY <1>3, <1>1 DEF run_pending_traps
  <2> QED BY <1>1, <1>2, <2>1, EmptyStack DEF OneCall, CallInv, Balance, OwedInv
<1>4. CASE ~in_trap
  <2> DEFINE f == [at |-> "test", i |-> 0, saved |-> last_status, load |-> 0, negative |-> FALSE]
  <2>1. f \in Frame /\ f.i = 0 /\ f.at = "test"
    BY <1>1, ConditionsAssumption DEF Frame
  <2>2. /\ in_trap' = TRUE /\ stack' = Append(<<>>, f)
        /\ owed' = {s \in Conditions : ps[s] > 0 /\ traps[s].set /\ traps[s].action = "CATCH"}
    BY <1>4 DEF run_pending_traps
  <2> HIDE DEF f
  <2>3. stack' = <<f>> /\ stack' # <<>> /\ stack'[1] = f /\ stack' \in Seq(Frame)
    BY <2>1, <2>2, EmptyStack
  <2>4. OneCall' /\ CallInv'
    BY <2>1, <2>2, <2>3 DEF OneCall, CallInv
  <2>5. Balance'
    <3>1. \A s \in Conditions : runs[s] + pending_sigs[s] <= delivered[s]
      BY <1>4, <1>1 DEF Inv, Balance, InFlight
    <3>2. \A s \in Conditions : runs'[s] + pending_sigs'[s] <= delivered'[s]
      <4> SUFFICES ASSUME NEW s \in Conditions
                   PROVE  runs[s] + ps[s] <= delivered'[s]
        OBVIOUS
      <4>1. ps[s] \in Nat /\ delivered'[s] \in Nat
        OBVIOUS
      <4>2. ps[s] - pending_sigs[s] = delivered'[s] - delivered[s]
        OBVIOUS
      <4> QED BY <3>1, <1>1, <4>1, <4>2
    <3>3. \A s \in Conditions : ~InFlight(s)'
      BY <2>1, <2>3 DEF InFlight
    <3> QED BY <3>2, <3>3 DEF Balance
  <2>6. OwedInv'
    <3>1. \A s \in Conditions : s >= 0
      BY ConditionsAssumption
    <3> SUFFICES ASSUME NEW s \in owed' PROVE Owed(s)'
      BY <2>2 DEF OwedInv
    <3>2. s \in Conditions /\ ps[s] \in Nat /\ ps[s] > 0 /\ traps[s].set
          /\ traps[s].action = "CATCH"
      BY <2>2
    <3> QED BY <2>1, <2>3, <3>1, <3>2 DEF Owed
  <2> QED BY <1>2, <2>2, <2>3, <2>4, <2>5, <2>6
<1> QED
  BY <1>3, <1>4, <1>1

LEMMA RunExitTrapInv == ASSUME Inv, run_exit_trap PROVE Inv'
<1> DEFINE ps == [pending_sigs EXCEPT ![0] = @ + 1]
<1>1. /\ pending_sigs' = ps /\ delivered' = [delivered EXCEPT ![0] = @ + 1]
      /\ run_pending_traps(stack, ps) /\ pc' = "exiting"
      /\ UNCHANGED <<traps, disp, last_status, exit, job_control, kind, runs>>
      /\ stack = <<>>
  BY DEF run_exit_trap, Inv, OneCall
<1>2. pending_sigs \in [Conditions -> Nat] /\ delivered \in [Conditions -> Nat] /\ 0 \in Conditions
  BY ConditionsAssumption DEF Inv, TypeOK
<1>3. ps \in [Conditions -> Nat] /\ delivered' \in [Conditions -> Nat]
  BY <1>1, <1>2
<1>4. \A s \in Conditions : /\ delivered[s] <= delivered'[s]
                            /\ ps[s] - pending_sigs[s] = delivered'[s] - delivered[s]
  BY <1>1, <1>2
<1> HIDE DEF ps
<1>5. /\ stack' \in Seq(Frame) /\ in_trap' \in BOOLEAN /\ owed' \subseteq Conditions
      /\ OneCall' /\ CallInv' /\ Balance' /\ OwedInv' /\ RunsAreDelivered'
  BY <1>1, <1>3, <1>4, BeginCall
<1>6. TypeOK'
  BY <1>1, <1>3, <1>5 DEF Inv, TypeOK
<1> QED
  BY <1>5, <1>6 DEF Inv

\* The line or the eval is over: the counters are as they were.
LEMMA CallInvariant ==
    ASSUME Inv, stack = <<>>, run_pending_traps(stack, pending_sigs),
           UNCHANGED <<traps, disp, pending_sigs, last_status, job_control, kind, delivered, runs>>,
           exit' \in BOOLEAN, pc' \in {"eval", "after"}
    PROVE  Inv'
<1>1. pending_sigs \in [Conditions -> Nat] /\ delivered \in [Conditions -> Nat]
  BY DEF Inv, TypeOK
<1>2. \A s \in Conditions : /\ delivered[s] <= delivered'[s]
                            /\ pending_sigs[s] - pending_sigs[s] = delivered'[s] - delivered[s]
  BY <1>1
<1>3. /\ stack' \in Seq(Frame) /\ in_trap' \in BOOLEAN /\ owed' \subseteq Conditions
      /\ OneCall' /\ CallInv' /\ Balance' /\ OwedInv' /\ RunsAreDelivered'
  BY <1>1, <1>2, BeginCall
<1>4. TypeOK'
  BY <1>3 DEF Inv, TypeOK
<1> QED
  BY <1>3, <1>4 DEF Inv

-----------------------------------------------------------------------------
(* The steps of a call *)

\* What the invariant says of a running call, with its frame f.
LEMMA CallFacts ==
    ASSUME Inv, NEW f \in Frame, stack = <<f>>
    PROVE  /\ in_trap = TRUE /\ pc \in {"after", "eval", "exiting"}
           /\ f.i \in Conditions /\ f.load \in Nat /\ f.saved \in Statuses
           /\ f.at \in {"test", "trap", "ended", "store", "clear"} /\ f.negative \in BOOLEAN
           /\ f.at \in {"trap", "ended", "store"} => pending_sigs[f.i] >= 1
           /\ f.at = "store" => f.load >= 1 /\ f.load <= pending_sigs[f.i]
           /\ \A s \in Conditions :
                 /\ pending_sigs[s] \in Nat /\ runs[s] \in Nat /\ delivered[s] \in Nat
                 /\ s \in 0 .. 63
                 /\ runs[s] <= delivered[s]
                 /\ (s = f.i /\ f.at \in {"trap", "ended", "store"}) =>
                        runs[s] + pending_sigs[s] <= delivered[s] + 1
                 /\ ~(s = f.i /\ f.at \in {"trap", "ended", "store"}) =>
                        runs[s] + pending_sigs[s] <= delivered[s]
           /\ owed \subseteq Conditions
           /\ \A s \in owed :
                 /\ s >= f.i /\ traps[s].set /\ traps[s].action = "CATCH" /\ pending_sigs[s] >= 1
                 /\ s = f.i => /\ f.at # "clear"
                               /\ f.at \in {"trap", "ended"} => pending_sigs[s] >= 2
                               /\ f.at = "store" => f.load >= 2
<1>1. stack # <<>> /\ stack[1] = f
  BY OneFrameStack
<1>2. /\ in_trap = TRUE /\ pc \in {"after", "eval", "exiting"}
      /\ owed \subseteq Conditions
  BY <1>1 DEF Inv, OneCall, TypeOK
<1>3. /\ f.i \in Conditions /\ f.load \in Nat /\ f.saved \in Statuses
      /\ f.at \in {"test", "trap", "ended", "store", "clear"} /\ f.negative \in BOOLEAN
  BY DEF Frame
<1>4. /\ f.at \in {"trap", "ended", "store"} => pending_sigs[f.i] >= 1
      /\ f.at = "store" => f.load >= 1 /\ f.load <= pending_sigs[f.i]
  BY <1>1 DEF Inv, CallInv
<1>5. \A s \in Conditions :
         /\ pending_sigs[s] \in Nat /\ runs[s] \in Nat /\ delivered[s] \in Nat
         /\ s \in 0 .. 63 /\ runs[s] <= delivered[s]
  BY ConditionsAssumption DEF Inv, TypeOK, RunsAreDelivered
<1>6. \A s \in Conditions :
         /\ (s = f.i /\ f.at \in {"trap", "ended", "store"}) =>
                runs[s] + pending_sigs[s] <= delivered[s] + 1
         /\ ~(s = f.i /\ f.at \in {"trap", "ended", "store"}) =>
                runs[s] + pending_sigs[s] <= delivered[s]
  <2>1. \A s \in Conditions :
           /\ InFlight(s) => runs[s] + pending_sigs[s] <= delivered[s] + 1
           /\ ~InFlight(s) => runs[s] + pending_sigs[s] <= delivered[s]
    BY <1>1 DEF Inv, Balance
  <2> QED BY <2>1, <1>1 DEF InFlight
<1>7. \A s \in owed : Owed(s)
  BY <1>1 DEF Inv, OwedInv
<1> QED
  BY <1>1, <1>2, <1>3, <1>4, <1>5, <1>6, <1>7 DEF Owed

\* What a step from the frame f to the frame g has to show.
LEMMA NextFrame ==
    ASSUME Inv, NEW f \in Frame, NEW g \in Frame, stack = <<f>>, stack' = <<g>>, TypeOK',
           UNCHANGED <<in_trap, pc, traps>>,
           g.at \in {"trap", "ended", "store"} => pending_sigs'[g.i] >= 1,
           g.at = "store" => g.load >= 1 /\ g.load <= pending_sigs'[g.i],
           \A s \in Conditions :
              /\ runs'[s] <= delivered'[s]
              /\ (s = g.i /\ g.at \in {"trap", "ended", "store"}) =>
                     runs'[s] + pending_sigs'[s] <= delivered'[s] + 1
              /\ ~(s = g.i /\ g.at \in {"trap", "ended", "store"}) =>
                     runs'[s] + pending_sigs'[s] <= delivered'[s],
           \A s \in owed' :
              /\ s >= g.i /\ traps[s].set /\ traps[s].action = "CATCH" /\ pending_sigs'[s] >= 1
              /\ s = g.i => /\ g.at # "clear"
                            /\ g.at \in {"trap", "ended"} => pending_sigs'[s] >= 2
                            /\ g.at = "store" => g.load >= 2
    PROVE  Inv'
<1>1. stack' # <<>> /\ stack'[1] = g
  BY EmptyStack
<1>2. in_trap' = TRUE /\ pc' \in {"after", "eval", "exiting"}
  BY CallFacts
<1>3. OneCall' /\ CallInv'
  BY <1>1, <1>2 DEF OneCall, CallInv
<1>4. RunsAreDelivered'
  BY DEF RunsAreDelivered
<1>5. Balance'
  <2>1. \A s : InFlight(s)' <=> (s = g.i /\ g.at \in {"trap", "ended", "store"})
    BY <1>1 DEF InFlight
  <2> QED BY <2>1 DEF Balance
<1>6. OwedInv'
  BY <1>1, <1>2 DEF OwedInv, Owed
<1> QED
  BY <1>3, <1>4, <1>5, <1>6 DEF Inv

LEMMA TestPendingInv == ASSUME Inv, TestPending PROVE Inv'
<1>1. PICK f \in Frame : stack = <<f>>
  BY TheFrame DEF TestPending, At
<1>2. Top = f /\ f.at = "test"
  BY <1>1, OneFrameStack DEF TestPending, At
<1> DEFINE i == f.i
<1>3. i \in Conditions /\ \A s \in Conditions : runs[s] \in Nat
  BY <1>1, CallFacts
<1>4. UNCHANGED <<traps, disp, pending_sigs, in_trap, last_status, exit, job_control, kind, pc,
                  delivered>>
  BY DEF TestPending
<1>5. CASE pending_sigs[i] > 0 /\ traps[i].set /\ traps[i].action = "CATCH"
  <2> DEFINE g == [f EXCEPT !.at = "trap"]
  <2>1. g \in Frame /\ g.at = "trap" /\ g.i = i
    BY DEF Frame
  <2>2. WithTop(g) = <<g>>
    BY <1>1, <2>1, OneFrameStack
  <2>3. stack' = <<g>> /\ runs' = [runs EXCEPT ![i] = @ + 1] /\ owed' = owed \ {i}
    BY <1>2, <1>5, <2>2 DEF TestPending
  <2> HIDE DEF g
  <2>4. runs' \in [Conditions -> Nat] /\ owed' \subseteq Conditions /\ stack' \in Seq(Frame)
    BY <1>3, <2>1, <2>3, EmptyStack DEF Inv, TypeOK
  <2>5. TypeOK'
    BY <1>4, <2>4 DEF Inv, TypeOK
  <2>6. /\ runs'[i] = runs[i] + 1 /\ \A s \in Conditions : s # i => runs'[s] = runs[s]
    BY <1>3, <2>3 DEF Inv, TypeOK
  <2>7. \A s \in Conditions :
           /\ runs'[s] <= delivered'[s]
           /\ (s = g.i /\ g.at \in {"trap", "ended", "store"}) =>
                  runs'[s] + pending_sigs'[s] <= delivered'[s] + 1
           /\ ~(s = g.i /\ g.at \in {"trap", "ended", "store"}) =>
                  runs'[s] + pending_sigs'[s] <= delivered'[s]
    <3>1. /\ \A s \in Conditions :
                /\ pending_sigs[s] \in Nat /\ runs[s] \in Nat /\ delivered[s] \in Nat
                /\ runs[s] + pending_sigs[s] <= delivered[s]
          /\ pending_sigs[i] > 0
      BY <1>1, <1>2, <1>5, CallFacts
    <3> HIDE DEF i
    <3> SUFFICES ASSUME NEW s \in Conditions
                 PROVE  /\ runs'[s] <= delivered[s]
                        /\ s = i => runs'[s] + pending_sigs[s] <= delivered[s] + 1
                        /\ s # i => runs'[s] + pending_sigs[s] <= delivered[s]
      BY <1>4, <2>1
    <3>2. CASE s = i
      BY <3>1, <3>2, <2>6
    <3>3. CASE s # i
      BY <3>1, <3>3, <2>6
    <3> QED BY <3>2, <3>3
  <2>8. \A s \in owed' :
           /\ s >= g.i /\ traps[s].set /\ traps[s].action = "CATCH" /\ pending_sigs'[s] >= 1
           /\ s # g.i
    BY <1>1, <1>4, <2>1, <2>3, CallFacts
  <2>9. pending_sigs'[i] >= 1
    <3>1. pending_sigs[i] \in Nat
      BY <1>1, CallFacts
    <3> QED BY <1>4, <1>5, <3>1
  <2> QED
    BY <1>1, <1>4, <2>1, <2>3, <2>5, <2>7, <2>8, <2>9, NextFrame
<1>6. CASE ~(pending_sigs[i] > 0 /\ traps[i].set /\ traps[i].action = "CATCH")
  <2> DEFINE g == [f EXCEPT !.at = "clear"]
  <2>1. g \in Frame /\ g.at = "clear" /\ g.i = i
    BY DEF Frame
  <2>2. WithTop(g) = <<g>>
    BY <1>1, <2>1, OneFrameStack
  <2>3. stack' = <<g>> /\ runs' = runs /\ owed' = owed
    BY <1>2, <1>6, <2>2 DEF TestPending
  <2> HIDE DEF g
  <2>4. stack' \in Seq(Frame)
    BY <2>1, <2>3, EmptyStack
  <2>5. TypeOK'
    BY <1>4, <2>3, <2>4 DEF Inv, TypeOK
  <2>6. \A s \in Conditions :
           /\ runs'[s] <= delivered'[s]
           /\ runs'[s] + pending_sigs'[s] <= delivered'[s]
    BY <1>1, <1>2, <1>4, <2>3, CallFacts
  <2>7. \A s \in owed' :
           /\ s >= g.i /\ traps[s].set /\ traps[s].action = "CATCH" /\ pending_sigs'[s] >= 1
           /\ s # g.i
    <3>1. \A s \in owed : /\ s \in Conditions /\ pending_sigs[s] \in Nat /\ pending_sigs[s] >= 1
                           /\ s >= i /\ traps[s].set /\ traps[s].action = "CATCH"
      BY <1>1, CallFacts
    <3>2. i \notin owed
      BY <1>6, <3>1
    <3> QED BY <1>4, <2>1, <2>3, <3>1, <3>2
  <2> QED
    BY <1>1, <1>4, <2>1, <2>3, <2>5, <2>6, <2>7, NextFrame
<1> QED
  BY <1>5, <1>6

\* An early return leaves no call, and in_trap set for good.
LEMMA LeftForGood ==
    ASSUME Inv, stack' = <<>>, in_trap' = TRUE, TypeOK', RunsAreDelivered' PROVE Inv'
  BY DEF Inv, OneCall, CallInv, Balance, OwedInv

LEMMA TrapReturnsInv == ASSUME Inv, TrapReturns PROVE Inv'
<1>1. PICK f \in Frame : stack = <<f>>
  BY TheFrame DEF TrapReturns, At
<1>2. Top = f /\ f.at = "ended" /\ Pop = <<>>
  BY <1>1, OneFrameStack DEF TrapReturns, At
<1>3. UNCHANGED <<traps, disp, pending_sigs, in_trap, last_status, exit, job_control, kind, pc,
                  delivered, runs, owed>>
  BY DEF TrapReturns
<1>4. CASE f.negative
  <2>1. stack' = <<>> /\ in_trap' = TRUE
    BY <1>1, <1>2, <1>3, <1>4, CallFacts DEF TrapReturns
  <2>2. stack' \in Seq(Frame)
    BY <2>1, EmptyStack
  <2>3. TypeOK' /\ RunsAreDelivered'
    BY <1>3, <2>2 DEF Inv, TypeOK, RunsAreDelivered
  <2> QED BY <2>1, <2>3, LeftForGood
<1>5. CASE ~f.negative
  <2> DEFINE g == [f EXCEPT !.at = "store", !.load = pending_sigs[f.i]]
  <2>1. /\ pending_sigs[f.i] \in Nat /\ pending_sigs[f.i] >= 1
        /\ \A s \in Conditions :
              /\ runs[s] <= delivered[s]
              /\ s = f.i => runs[s] + pending_sigs[s] <= delivered[s] + 1
              /\ s # f.i => runs[s] + pending_sigs[s] <= delivered[s]
        /\ \A s \in owed :
              /\ s >= f.i /\ traps[s].set /\ traps[s].action = "CATCH" /\ pending_sigs[s] >= 1
              /\ s = f.i => pending_sigs[s] >= 2
    BY <1>1, <1>2, CallFacts
  <2>2. g \in Frame /\ g.at = "store" /\ g.i = f.i /\ g.load = pending_sigs[f.i]
    BY <2>1 DEF Frame
  <2>3. WithTop(g) = <<g>>
    BY <1>1, <2>2, OneFrameStack
  <2>4. stack' = <<g>>
    BY <1>2, <1>5, <2>3 DEF TrapReturns
  <2> HIDE DEF g
  <2>5. stack' \in Seq(Frame)
    BY <2>2, <2>4, EmptyStack
  <2>6. TypeOK'
    BY <1>3, <2>5 DEF Inv, TypeOK
  <2>7. /\ g.load >= 1 /\ g.load <= pending_sigs'[g.i] /\ pending_sigs'[g.i] >= 1
        /\ \A s \in Conditions :
              /\ runs'[s] <= delivered'[s]
              /\ s = g.i => runs'[s] + pending_sigs'[s] <= delivered'[s] + 1
              /\ s # g.i => runs'[s] + pending_sigs'[s] <= delivered'[s]
        /\ \A s \in owed' :
              /\ s >= g.i /\ traps[s].set /\ traps[s].action = "CATCH" /\ pending_sigs'[s] >= 1
              /\ s = g.i => g.load >= 2
    BY <1>3, <2>1, <2>2
  <2> QED
    BY <1>1, <1>3, <2>2, <2>4, <2>6, <2>7, NextFrame
<1> QED
  BY <1>4, <1>5

\* The signals that arrived since the counter was read are overwritten, so that the
\* balance holds with some to spare.
LEMMA DecrementInv == ASSUME Inv, Decrement PROVE Inv'
<1>1. PICK f \in Frame : stack = <<f>>
  BY TheFrame DEF Decrement, At
<1>2. Top = f /\ f.at = "store"
  BY <1>1, OneFrameStack DEF Decrement, At
<1> DEFINE g == [f EXCEPT !.at = "test"]
<1>3. g \in Frame /\ g.at = "test" /\ g.i = f.i
  BY DEF Frame
<1>4. WithTop(g) = <<g>>
  BY <1>1, <1>3, OneFrameStack
<1>5. /\ UNCHANGED <<traps, disp, in_trap, exit, job_control, kind, pc, delivered, runs, owed>>
      /\ stack' = <<g>> /\ last_status' = f.saved
      /\ pending_sigs' = [pending_sigs EXCEPT ![f.i] = f.load - 1]
  BY <1>2, <1>4 DEF Decrement
<1> HIDE DEF g
<1>6. /\ f.i \in Conditions /\ f.saved \in Statuses
      /\ f.load \in Nat /\ f.load >= 1 /\ f.load <= pending_sigs[f.i]
      /\ \A s \in Conditions :
            /\ pending_sigs[s] \in Nat /\ runs[s] \in Nat /\ delivered[s] \in Nat
            /\ runs[s] <= delivered[s]
            /\ s = f.i => runs[s] + pending_sigs[s] <= delivered[s] + 1
            /\ s # f.i => runs[s] + pending_sigs[s] <= delivered[s]
      /\ owed \subseteq Conditions
      /\ \A s \in owed :
            /\ s >= f.i /\ traps[s].set /\ traps[s].action = "CATCH" /\ pending_sigs[s] >= 1
            /\ s = f.i => f.load >= 2
  BY <1>1, <1>2, CallFacts
<1>7. /\ pending_sigs' \in [Conditions -> Nat] /\ pending_sigs'[f.i] = f.load - 1
      /\ \A s \in Conditions : s # f.i => pending_sigs'[s] = pending_sigs[s]
  <2>1. pending_sigs \in [Conditions -> Nat] /\ f.load - 1 \in Nat
    BY <1>6 DEF Inv, TypeOK
  <2> QED BY <1>5, <1>6, <2>1
<1>8. stack' \in Seq(Frame)
  BY <1>3, <1>5, EmptyStack
<1>9. TypeOK'
  BY <1>5, <1>6, <1>7, <1>8 DEF Inv, TypeOK
<1>10. \A s \in Conditions :
          runs'[s] <= delivered'[s] /\ runs'[s] + pending_sigs'[s] <= delivered'[s]
  <2> SUFFICES ASSUME NEW s \in Conditions
               PROVE  runs[s] <= delivered[s] /\ runs[s] + pending_sigs'[s] <= delivered[s]
    BY <1>5
  <2>1. CASE s = f.i
    BY <1>6, <1>7, <2>1
  <2>2. CASE s # f.i
    BY <1>6, <1>7, <2>2
  <2> QED BY <2>1, <2>2
<1>11. \A s \in owed' :
          s >= g.i /\ traps[s].set /\ traps[s].action = "CATCH" /\ pending_sigs'[s] >= 1
  <2> SUFFICES ASSUME NEW s \in owed
               PROVE  s >= f.i /\ traps[s].set /\ traps[s].action = "CATCH" /\ pending_sigs'[s] >= 1
    BY <1>3, <1>5
  <2>1. CASE s = f.i
    BY <1>6, <1>7, <2>1
  <2>2. CASE s # f.i
    BY <1>6, <1>7, <2>2
  <2> QED BY <2>1, <2>2
<1> QED
  BY <1>1, <1>3, <1>5, <1>9, <1>10, <1>11, NextFrame

\* A non-empty set of conditions has a smallest element: the next round of the loop.
LEMMA SmallestExists ==
    ASSUME NEW S, S # {}, S \subseteq 0 .. 63
    PROVE  \E s \in S : \A k \in S : s <= k
<1> DEFINE R == {p \in Nat \X Nat : p[1] < p[2]}
<1>1. IsWellFoundedOn(R, Nat) /\ S \subseteq Nat
  <2>1. IsWellFoundedOn(R, Nat)
    BY NatLessThanWellFounded, Zenon DEF OpToRel
  <2>2. S \subseteq Nat
    OBVIOUS
  <2> QED BY <2>1, <2>2
<1>2. ASSUME NEW x \in Nat, NEW y \in Nat, x < y PROVE <<x, y>> \in R
  BY <1>2, SMT
<1> HIDE DEF R
<1>3. PICK s \in S : \A k \in S : ~(<<k, s>> \in R)
  BY <1>1, WFMin
<1>4. ASSUME NEW k \in S PROVE s <= k
  <2>1. s \in Nat /\ k \in Nat /\ ~(k < s)
    BY <1>1, <1>2, <1>3
  <2> QED BY <2>1
<1> QED BY <1>3, <1>4

LEMMA ClearInv == ASSUME Inv, Clear PROVE Inv'
<1>1. PICK f \in Frame : stack = <<f>>
  BY TheFrame DEF Clear, At
<1>2. Top = f /\ f.at = "clear" /\ Pop = <<>>
  BY <1>1, OneFrameStack DEF Clear, At
<1> DEFINE more == {s \in Conditions : s > f.i}
<1>3. /\ f.i \in Conditions
      /\ \A s \in Conditions :
            /\ s \in 0 .. 63
            /\ pending_sigs[s] \in Nat /\ runs[s] \in Nat /\ delivered[s] \in Nat
            /\ runs[s] <= delivered[s] /\ runs[s] + pending_sigs[s] <= delivered[s]
      /\ owed \subseteq Conditions
      /\ \A s \in owed :
            /\ s >= f.i /\ traps[s].set /\ traps[s].action = "CATCH" /\ pending_sigs[s] >= 1
            /\ s # f.i
  BY <1>1, <1>2, CallFacts
<1>4. /\ UNCHANGED <<traps, disp, last_status, exit, job_control, kind, pc, delivered, runs, owed>>
      /\ pending_sigs' = [pending_sigs EXCEPT ![f.i] = 0]
  BY <1>2 DEF Clear
<1>5. /\ pending_sigs' \in [Conditions -> Nat] /\ pending_sigs'[f.i] = 0
      /\ \A s \in Conditions : s # f.i => pending_sigs'[s] = pending_sigs[s]
  <2>1. pending_sigs \in [Conditions -> Nat]
    BY DEF Inv, TypeOK
  <2> QED BY <1>3, <1>4, <2>1
<1>6. \A s \in Conditions :
          runs'[s] <= delivered'[s] /\ runs'[s] + pending_sigs'[s] <= delivered'[s]
  <2> SUFFICES ASSUME NEW s \in Conditions
               PROVE  runs[s] <= delivered[s] /\ runs[s] + pending_sigs'[s] <= delivered[s]
    BY <1>4
  <2>1. CASE s = f.i
    BY <1>3, <1>5, <2>1
  <2>2. CASE s # f.i
    BY <1>3, <1>5, <2>2
  <2> QED BY <2>1, <2>2
<1>7. \A s \in owed' :
         s \in more /\ traps[s].set /\ traps[s].action = "CATCH" /\ pending_sigs'[s] >= 1
  <2>1. f.i \in 0 .. 63
    BY <1>3
  <2>2. ASSUME NEW s \in owed PROVE s > f.i
    <3>1. s \in 0 .. 63 /\ s >= f.i /\ s # f.i
      BY <1>3
    <3> QED BY <2>1, <3>1
  <2> QED BY <1>3, <1>4, <1>5, <2>2
<1>8. CASE more # {}
  <2> DEFINE n == CHOOSE s \in more : \A k \in more : s <= k
             g == [f EXCEPT !.at = "test", !.i = n]
  <2>1. n \in more /\ \A k \in more : n <= k
    <3>1. \E s \in more : \A k \in more : s <= k
      BY <1>3, <1>8, SmallestExists
    <3> QED BY <3>1
  <2>2. stack' = WithTop(g) /\ in_trap' = in_trap
    BY <1>2, <1>8 DEF Clear
  <2> HIDE DEF n
  <2>3. g \in Frame /\ g.at = "test" /\ g.i = n
    BY <2>1 DEF Frame
  <2> HIDE DEF g
  <2>4. stack' = <<g>>
    BY <1>1, <2>2, <2>3, OneFrameStack
  <2>5. stack' \in Seq(Frame)
    BY <2>3, <2>4, EmptyStack
  <2>6. TypeOK'
    BY <1>4, <1>5, <2>2, <2>5 DEF Inv, TypeOK
  <2>7. \A s \in owed' :
           s >= g.i /\ traps[s].set /\ traps[s].action = "CATCH" /\ pending_sigs'[s] >= 1
    <3>1. \A s \in more : s \in 0 .. 63
      BY <1>3
    <3> QED BY <1>7, <2>1, <2>3, <3>1
  <2> QED
    BY <1>1, <1>4, <1>6, <2>2, <2>3, <2>4, <2>6, <2>7, NextFrame
<1>9. CASE more = {}
  <2>1. stack' = <<>> /\ in_trap' = FALSE
    BY <1>2, <1>9 DEF Clear
  <2>2. owed' = {} /\ owed' \subseteq Conditions
    BY <1>7, <1>9
  <2>3. TypeOK'
    <3>1. stack' \in Seq(Frame)
      BY <2>1, EmptyStack
    <3> QED BY <1>4, <1>5, <2>1, <2>2, <3>1 DEF Inv, TypeOK
  <2>4. OneCall' /\ CallInv' /\ OwedInv'
    BY <2>1, <2>2 DEF OneCall, CallInv, OwedInv
  <2>5. Balance' /\ RunsAreDelivered'
    BY <1>6, <2>1 DEF Balance, InFlight, RunsAreDelivered
  <2> QED BY <2>3, <2>4, <2>5 DEF Inv
<1> QED
  BY <1>8, <1>9

-----------------------------------------------------------------------------
(* Programs that end, nest and fork *)

\* A command in a trap finds in_trap set: a program it runs starts no call.
LEMMA NoCallInTrap ==
    ASSUME Inv, stack # <<>>, NEW st, run_pending_traps(st, pending_sigs)
    PROVE  stack' = st /\ in_trap' = in_trap /\ owed' = owed
  BY DEF Inv, OneCall, run_pending_traps

LEMMA BuiltinEvalInv == ASSUME Inv, builtin_eval PROVE Inv'
<1>1. /\ run_pending_traps(stack, pending_sigs)
      /\ UNCHANGED <<traps, disp, pending_sigs, last_status, exit, job_control, kind, delivered,
                     runs>>
  BY DEF builtin_eval
<1>2. exit \in BOOLEAN
  BY DEF Inv, TypeOK
<1>3. CASE stack = <<>>
  <2>1. pc' = "eval"
    BY <1>3 DEF builtin_eval
  <2> QED BY <1>1, <1>2, <1>3, <2>1, CallInvariant
<1>4. CASE stack # <<>>
  <2>1. UNCHANGED <<stack, in_trap, owed, pc>>
    BY <1>1, <1>4, NoCallInTrap DEF builtin_eval
  <2>2. TypeOK'
    BY <1>1, <2>1 DEF Inv, TypeOK
  <2> QED BY <1>1, <2>1, <2>2, QuietInv DEF CallVars
<1> QED
  BY <1>3, <1>4

LEMMA EndProgramInv ==
    ASSUME Inv, NEW n \in BOOLEAN, NEW e \in BOOLEAN, EndProgram(n, e) PROVE Inv'
<1>1. /\ exit' \in BOOLEAN
      /\ UNCHANGED <<traps, disp, pending_sigs, last_status, job_control, kind, delivered, runs>>
  BY DEF EndProgram, Inv, TypeOK
<1>2. CASE /\ At("trap")
           /\ run_pending_traps(WithTop([Top EXCEPT !.at = "ended", !.negative = n]), pending_sigs)
           /\ UNCHANGED pc
  <2>1. PICK f \in Frame : stack = <<f>>
    BY <1>2, TheFrame DEF At
  <2>2. Top = f /\ f.at = "trap" /\ stack # <<>>
    BY <1>2, <2>1, OneFrameStack DEF At
  <2> DEFINE g == [f EXCEPT !.at = "ended", !.negative = n]
  <2>3. g \in Frame /\ g.at = "ended" /\ g.i = f.i
    BY DEF Frame
  <2>4. WithTop(g) = <<g>>
    BY <2>1, <2>3, OneFrameStack
  <2>5. stack' = <<g>> /\ UNCHANGED <<in_trap, owed, pc>>
    BY <1>2, <2>2, <2>4, NoCallInTrap
  <2> HIDE DEF g
  <2>6. stack' \in Seq(Frame)
    BY <2>3, <2>5, EmptyStack
  <2>7. TypeOK'
    BY <1>1, <2>5, <2>6 DEF Inv, TypeOK
  <2>8. /\ pending_sigs'[g.i] >= 1
        /\ \A s \in Conditions :
              /\ runs'[s] <= delivered'[s]
              /\ s = g.i => runs'[s] + pending_sigs'[s] <= delivered'[s] + 1
              /\ s # g.i => runs'[s] + pending_sigs'[s] <= delivered'[s]
        /\ \A s \in owed' :
              /\ s >= g.i /\ traps[s].set /\ traps[s].action = "CATCH" /\ pending_sigs'[s] >= 1
              /\ s = g.i => pending_sigs'[s] >= 2
    <3>1. /\ pending_sigs[f.i] >= 1
          /\ \A s \in Conditions :
                /\ runs[s] <= delivered[s]
                /\ s = f.i => runs[s] + pending_sigs[s] <= delivered[s] + 1
                /\ s # f.i => runs[s] + pending_sigs[s] <= delivered[s]
          /\ \A s \in owed :
                /\ s >= f.i /\ traps[s].set /\ traps[s].action = "CATCH" /\ pending_sigs[s] >= 1
                /\ s = f.i => pending_sigs[s] >= 2
      BY <2>1, <2>2, CallFacts
    <3> QED BY <1>1, <2>3, <2>5, <3>1
  <2> QED
    BY <1>1, <2>1, <2>3, <2>5, <2>7, <2>8, NextFrame
<1>3. CASE stack = <<>> /\ run_pending_traps(stack, pending_sigs) /\ pc' = "after"
  BY <1>1, <1>3, CallInvariant
<1>4. CASE stack = <<>> /\ pc' = "done" /\ UNCHANGED <<stack, in_trap, owed>>
  <2>1. TypeOK'
    BY <1>1, <1>4 DEF Inv, TypeOK
  <2> QED BY <1>1, <1>4, <2>1, QuietInv DEF CallVars
<1> QED
  BY <1>2, <1>3, <1>4 DEF EndProgram

LEMMA ForksInv ==
    ASSUME Inv, NEW k \in Kinds, NEW r \in BOOLEAN, Forks(k, r) PROVE Inv'
<1> DEFINE leaves == k # "subshell" /\ job_control
           t  == IF leaves THEN JobControlTraps ELSE traps
           d  == IF leaves THEN JobControlHandlers(FALSE) ELSE disp
           jc == job_control /\ ~leaves
<1>1. /\ Executing /\ kind' = k /\ pc' = "entered" /\ stack' = <<>> /\ job_control' = jc
      /\ traps' = IF r THEN ResetTraps(t, jc) ELSE t
      /\ disp' = IF r THEN ResetHandlers(t, d, jc) ELSE d
      /\ owed' = {}
      /\ UNCHANGED <<pending_sigs, in_trap, last_status, exit, delivered, runs>>
  BY DEF Forks
<1>2. /\ t \in [Conditions -> [set : BOOLEAN, action : Actions]]
      /\ d \in [Conditions -> {"SIG_DFL", "SIG_IGN", "handle_signal"}]
      /\ jc \in BOOLEAN
  BY HandlersType DEF Inv, TypeOK
<1> HIDE DEF t, d, jc
<1>3. TypeOK'
  <2>1. /\ traps' \in [Conditions -> [set : BOOLEAN, action : Actions]]
        /\ disp' \in [Conditions -> {"SIG_DFL", "SIG_IGN", "handle_signal"}]
    BY <1>1, <1>2, ResetType
  <2>2. stack' \in Seq(Frame)
    BY <1>1, EmptyStack
  <2> QED BY <1>1, <1>2, <2>1, <2>2 DEF Inv, TypeOK
<1>4. RunsAreDelivered'
  BY <1>1 DEF Inv, RunsAreDelivered
<1>5. OneCall' /\ CallInv' /\ OwedInv'
  BY <1>1 DEF OneCall, CallInv, OwedInv
<1>6. Balance'
  <2>1. CASE in_trap
    BY <1>1, <2>1 DEF Balance
  <2>2. CASE ~in_trap
    <3>1. stack = <<>>
      BY <2>2 DEF Inv, OneCall
    <3> QED BY <1>1, <2>2, <3>1 DEF Inv, Balance, InFlight
  <2> QED BY <2>1, <2>2
<1> QED
  BY <1>3, <1>4, <1>5, <1>6 DEF Inv

-----------------------------------------------------------------------------
(* The signal handler *)

LEMMA HandleSignalInv ==
    ASSUME Inv, NEW n \in Conditions, handle_signal(n) PROVE Inv'
<1>1. /\ UNCHANGED <<traps, disp, in_trap, last_status, exit, job_control, kind, pc, stack, runs>>
      /\ pending_sigs' = [pending_sigs EXCEPT ![n] = @ + 1]
      /\ delivered' = [delivered EXCEPT ![n] = @ + 1]
      /\ owed' = IF StillServed(n) THEN owed \cup {n} ELSE owed
  BY DEF handle_signal
<1>2. pending_sigs \in [Conditions -> Nat] /\ delivered \in [Conditions -> Nat]
      /\ runs \in [Conditions -> Nat] /\ owed \subseteq Conditions
  BY DEF Inv, TypeOK
<1>3. /\ pending_sigs' \in [Conditions -> Nat] /\ delivered' \in [Conditions -> Nat]
      /\ pending_sigs'[n] = pending_sigs[n] + 1 /\ delivered'[n] = delivered[n] + 1
      /\ \A s \in Conditions : s # n => /\ pending_sigs'[s] = pending_sigs[s]
                                        /\ delivered'[s] = delivered[s]
  BY <1>1, <1>2
<1>4. TypeOK'
  <2>1. owed' \subseteq Conditions
    BY <1>1, <1>2
  <2> QED BY <1>1, <1>3, <2>1 DEF Inv, TypeOK
<1>5. ASSUME NEW s \in Conditions
      PROVE  /\ runs[s] \in Nat /\ pending_sigs[s] \in Nat /\ delivered[s] \in Nat
             /\ pending_sigs'[s] \in Nat /\ pending_sigs[s] <= pending_sigs'[s]
             /\ runs[s] <= delivered[s] => runs[s] <= delivered'[s]
             /\ runs[s] + pending_sigs[s] <= delivered[s] =>
                   runs[s] + pending_sigs'[s] <= delivered'[s]
             /\ runs[s] + pending_sigs[s] <= delivered[s] + 1 =>
                   runs[s] + pending_sigs'[s] <= delivered'[s] + 1
  <2>1. CASE s = n
    BY <1>2, <1>3, <2>1
  <2>2. CASE s # n
    BY <1>2, <1>3, <2>2
  <2> QED BY <2>1, <2>2
<1>6. RunsAreDelivered'
  BY <1>1, <1>5 DEF Inv, RunsAreDelivered
<1>7. CASE stack = <<>>
  <2>1. owed' = owed
    BY <1>1, <1>7 DEF StillServed
  <2>2. OneCall' /\ CallInv' /\ OwedInv'
    BY <1>1, <1>7, <2>1 DEF Inv, OneCall, CallInv, OwedInv
  <2>3. Balance'
    BY <1>1, <1>5, <1>7 DEF Inv, Balance, InFlight
  <2> QED BY <1>4, <1>6, <2>2, <2>3 DEF Inv
<1>8. CASE stack # <<>>
  <2>1. PICK f \in Frame : stack = <<f>>
    BY <1>8, TheFrame
  <2>2. Top = f
    BY <2>1, OneFrameStack
  <2>3. /\ f.i \in Conditions /\ f.load \in Nat
        /\ f.at \in {"trap", "ended", "store"} => pending_sigs[f.i] >= 1
        /\ f.at = "store" => f.load >= 1 /\ f.load <= pending_sigs[f.i]
        /\ \A s \in Conditions :
              /\ s \in 0 .. 63
              /\ runs[s] <= delivered[s]
              /\ (s = f.i /\ f.at \in {"trap", "ended", "store"}) =>
                     runs[s] + pending_sigs[s] <= delivered[s] + 1
              /\ ~(s = f.i /\ f.at \in {"trap", "ended", "store"}) =>
                     runs[s] + pending_sigs[s] <= delivered[s]
        /\ \A s \in owed :
              /\ s >= f.i /\ traps[s].set /\ traps[s].action = "CATCH" /\ pending_sigs[s] >= 1
              /\ s = f.i => /\ f.at # "clear"
                            /\ f.at \in {"trap", "ended"} => pending_sigs[s] >= 2
                            /\ f.at = "store" => f.load >= 2
    BY <2>1, CallFacts
  <2>4. /\ f.at \in {"trap", "ended", "store"} => pending_sigs'[f.i] >= 1
        /\ f.at = "store" => f.load >= 1 /\ f.load <= pending_sigs'[f.i]
    <3>1. /\ pending_sigs[f.i] \in Nat /\ pending_sigs'[f.i] \in Nat
          /\ pending_sigs[f.i] <= pending_sigs'[f.i]
      BY <1>5, <2>3
    <3> QED BY <2>3, <3>1
  <2>5. \A s \in Conditions :
           /\ runs'[s] <= delivered'[s]
           /\ (s = f.i /\ f.at \in {"trap", "ended", "store"}) =>
                  runs'[s] + pending_sigs'[s] <= delivered'[s] + 1
           /\ ~(s = f.i /\ f.at \in {"trap", "ended", "store"}) =>
                  runs'[s] + pending_sigs'[s] <= delivered'[s]
    BY <1>1, <1>5, <2>3
  <2>6. ASSUME NEW s \in owed'
        PROVE  /\ s >= f.i /\ traps[s].set /\ traps[s].action = "CATCH" /\ pending_sigs'[s] >= 1
               /\ s = f.i => /\ f.at # "clear"
                             /\ f.at \in {"trap", "ended"} => pending_sigs'[s] >= 2
                             /\ f.at = "store" => f.load >= 2
    <3>1. CASE s \in owed
      <4>1. /\ pending_sigs[s] \in Nat /\ pending_sigs'[s] \in Nat
            /\ pending_sigs[s] <= pending_sigs'[s]
        BY <1>2, <1>5, <3>1
      <4>2. pending_sigs[s] >= 1 => pending_sigs'[s] >= 1
        BY <4>1
      <4>3. pending_sigs[s] >= 2 => pending_sigs'[s] >= 2
        BY <4>1
      <4> QED BY <2>3, <3>1, <4>2, <4>3
    <3>2. CASE s \notin owed
      <4>1. s = n /\ StillServed(n)
        BY <1>1, <3>2
      <4>2. /\ traps[n].set /\ traps[n].action = "CATCH"
            /\ n > f.i \/ (n = f.i /\ f.at \in {"test", "trap", "ended"})
        BY <2>2, <4>1 DEF StillServed
      <4>3. n \in 0 .. 63 /\ f.i \in 0 .. 63
        BY <2>3
      <4>4. n >= f.i /\ (n = f.i => f.at \in {"test", "trap", "ended"})
        BY <4>2, <4>3
      <4>5. pending_sigs'[n] >= 1
        BY <1>3, <1>5
      <4>6. n = f.i /\ f.at \in {"trap", "ended"} => pending_sigs'[n] >= 2
        <5> SUFFICES ASSUME n = f.i, f.at \in {"trap", "ended"} PROVE pending_sigs'[n] >= 2
          OBVIOUS
        <5>1. pending_sigs[n] \in Nat /\ pending_sigs[n] >= 1
          BY <1>5, <2>3
        <5> QED BY <1>3, <5>1
      <4> QED BY <4>1, <4>2, <4>4, <4>5, <4>6
    <3> QED BY <3>1, <3>2
  <2> QED
    BY <1>1, <1>4, <2>1, <2>4, <2>5, <2>6, NextFrame
<1> QED
  BY <1>7, <1>8

-----------------------------------------------------------------------------
(* The theorems *)

LEMMA InitInv == Init => Inv
<1> SUFFICES ASSUME Init PROVE Inv
  OBVIOUS
<1>1. /\ NoTrap \in [set : BOOLEAN, action : Actions]
      /\ 0 \in Statuses /\ Interactive \in BOOLEAN /\ <<>> \in Seq(Frame)
  BY ActionTypes, ConditionsAssumption
<1>2. TypeOK
  BY <1>1 DEF Init, TypeOK, Kinds
<1>3. \A s \in Conditions : runs[s] = 0 /\ pending_sigs[s] = 0 /\ delivered[s] = 0
  BY DEF Init
<1>4. RunsAreDelivered /\ Balance
  BY <1>3 DEF Init, RunsAreDelivered, Balance, InFlight
<1>5. OneCall /\ CallInv /\ OwedInv
  BY DEF Init, OneCall, CallInv, OwedInv
<1> QED
  BY <1>2, <1>4, <1>5 DEF Inv

LEMMA NextInv == Inv /\ [Next]_vars => Inv'
<1> SUFFICES ASSUME Inv, [Next]_vars PROVE Inv'
  OBVIOUS
<1>1. CASE TestPending BY <1>1, TestPendingInv
<1>2. CASE TrapReturns BY <1>2, TrapReturnsInv
<1>3. CASE Decrement BY <1>3, DecrementInv
<1>4. CASE Clear BY <1>4, ClearInv
<1>5. CASE EvalReturns \/ ProgramReturns \/ ChildStarts \/ ExitTrapReturns \/ ReadLine
           \/ RunCommand \/ UNCHANGED vars
  BY <1>5, QuietSteps
<1>6. CASE run_exit_trap BY <1>6, RunExitTrapInv
<1>7. CASE \E s \in Conditions, a \in Actions : builtin_trap(s, a) BY <1>7, BuiltinTrapInv
<1>8. CASE \E b \in BOOLEAN : builtin_set(b) BY <1>8, BuiltinSetInv
<1>9. CASE builtin_eval BY <1>9, BuiltinEvalInv
<1>10. CASE \E b, e \in BOOLEAN : EndProgram(b, e) BY <1>10, EndProgramInv
<1>11. CASE \E k \in Kinds, b \in BOOLEAN : Forks(k, b) BY <1>11, ForksInv
<1>12. CASE \E s \in Conditions : handle_signal(s) BY <1>12, HandleSignalInv
<1> QED
  BY <1>1, <1>2, <1>3, <1>4, <1>5, <1>6, <1>7, <1>8, <1>9, <1>10, <1>11, <1>12
     DEF Next, PendingStep, ReturnStep, CommandStep, Done

LEMMA InvHolds == Spec => []Inv
  BY InitInv, NextInv, PTL DEF Spec

\* Every variable keeps its type; no counter of pending signals becomes negative, although
\* the handler may raise it between the two halves of pending_sigs[i]--.
THEOREM TypeCorrect == Spec => []TypeOK
<1>1. Inv => TypeOK
  BY DEF Inv
<1> QED
  BY <1>1, InvHolds, PTL

\* in_trap keeps run_pending_traps from running a trap inside a trap.
THEOREM NoNesting == Spec => []TrapsDoNotNest
<1>1. Inv => TrapsDoNotNest
  <2> SUFFICES ASSUME Inv PROVE Len(stack) <= 1
    BY DEF TrapsDoNotNest
  <2>1. CASE stack = <<>>
    BY <2>1
  <2>2. CASE stack # <<>>
    <3>1. PICK f \in Frame : stack = <<f>>
      BY <2>2, TheFrame
    <3> QED BY <3>1
  <2> QED BY <2>1, <2>2
<1> QED
  BY <1>1, InvHolds, PTL

\* A trap runs at most once for each delivered signal, for any number of signals.
THEOREM NoSpuriousRun == Spec => []RunsAreDelivered
<1>1. Inv => RunsAreDelivered
  BY DEF Inv
<1> QED
  BY <1>1, InvHolds, PTL

\* When run_pending_traps gets through its loop, every signal it had to serve was served.
THEOREM NoPendingLeft == Spec => []PendingIsServed
<1>1. Inv => PendingIsServed
  BY DEF Inv, OwedInv, PendingIsServed
<1> QED
  BY <1>1, InvHolds, PTL
-----------------------------------------------------------------------------
(* $? after a call *)

\* Between the trap programs of a call $? is what it was when the call began: only a
\* program that runs changes it, and what ends the program's turn puts it back.
SavedInv == stack # <<>> /\ stack[1].at \in {"test", "clear"} => last_status = stack[1].saved

LEMMA InitSaved == Init => SavedInv
  BY DEF Init, SavedInv

\* The steps of run_pending_traps.
LEMMA PendingSaved ==
    ASSUME Inv, SavedInv, PendingStep PROVE SavedInv'
<1>1. stack # <<>>
  BY DEF PendingStep, TestPending, TrapReturns, Decrement, Clear, At
<1>2. PICK f \in Frame : stack = <<f>>
  BY <1>1, TheFrame
<1>3. Top = f /\ stack[1] = f /\ Pop = <<>>
  BY <1>2, OneFrameStack
<1>4. f.at \in {"test", "clear"} => last_status = f.saved
  BY <1>1, <1>3 DEF SavedInv
<1>5. CASE TestPending
  <2> DEFINE place == IF pending_sigs[f.i] > 0 /\ traps[f.i].set /\ traps[f.i].action = "CATCH"
                      THEN "trap" ELSE "clear"
             g == [f EXCEPT !.at = place]
  <2>1. stack' = WithTop(g) /\ last_status' = last_status /\ f.at = "test"
    BY <1>3, <1>5 DEF TestPending, At
  <2> HIDE DEF place
  <2>2. place \in {"trap", "clear"}
    BY DEF place
  <2>3. g \in Frame /\ g.saved = f.saved
    BY <2>2 DEF Frame
  <2> HIDE DEF g
  <2>4. stack' = <<g>> /\ stack'[1] = g
    BY <1>2, <2>1, <2>3, OneFrameStack
  <2> QED BY <1>4, <2>1, <2>3, <2>4 DEF SavedInv
<1>6. CASE TrapReturns
  <2>1. CASE f.negative
    BY <1>3, <1>6, <2>1 DEF TrapReturns, SavedInv
  <2>2. CASE ~f.negative
    <3> DEFINE g == [f EXCEPT !.at = "store", !.load = pending_sigs[f.i]]
    <3>1. stack' = WithTop(g)
      BY <1>3, <1>6, <2>2 DEF TrapReturns
    <3>2. g \in Frame /\ g.at = "store"
      BY DEF Frame, Inv, TypeOK
    <3> HIDE DEF g
    <3>3. stack'[1] = g
      BY <1>2, <3>1, <3>2, OneFrameStack
    <3> QED BY <3>2, <3>3 DEF SavedInv
  <2> QED BY <2>1, <2>2
<1>7. CASE Decrement
  <2> DEFINE g == [f EXCEPT !.at = "test"]
  <2>1. stack' = WithTop(g) /\ last_status' = f.saved
    BY <1>3, <1>7 DEF Decrement
  <2>2. g \in Frame /\ g.saved = f.saved
    BY DEF Frame
  <2> HIDE DEF g
  <2>3. stack'[1] = g
    BY <1>2, <2>1, <2>2, OneFrameStack
  <2> QED BY <2>1, <2>2, <2>3 DEF SavedInv
<1>8. CASE Clear
  <2> DEFINE more == {s \in Conditions : s > f.i}
             n == CHOOSE s \in more : \A k \in more : s <= k
             g == [f EXCEPT !.at = "test", !.i = n]
  <2>1. last_status' = last_status /\ f.at = "clear"
        /\ \/ more # {} /\ stack' = WithTop(g)
           \/ stack' = Pop
    BY <1>3, <1>8 DEF Clear, At
  <2>2. CASE stack' = Pop
    BY <1>3, <2>2 DEF SavedInv
  <2>3. CASE more # {} /\ stack' = WithTop(g)
    <3>1. \E s \in more : \A k \in more : s <= k
      <4>1. more \subseteq 0 .. 63
        BY ConditionsAssumption
      <4> QED BY <2>3, <4>1, SmallestExists
    <3>2. n \in Conditions
      BY <3>1
    <3> HIDE DEF n
    <3>3. g \in Frame /\ g.saved = f.saved
      BY <3>2 DEF Frame
    <3> HIDE DEF g
    <3>4. stack'[1] = g
      BY <1>2, <2>3, <3>3, OneFrameStack
    <3> QED BY <1>4, <2>1, <3>3, <3>4 DEF SavedInv
  <2> QED BY <2>1, <2>2, <2>3
<1> QED
  BY <1>5, <1>6, <1>7, <1>8 DEF PendingStep

\* A call begins with the status it saves; a program of a trap finds the call begun.
LEMMA BeginSaved ==
    ASSUME Inv, SavedInv, run_pending_traps(stack, pending_sigs) \/ run_exit_trap,
           last_status' = last_status
    PROVE  SavedInv'
<1> DEFINE f == [at |-> "test", i |-> 0, saved |-> last_status, load |-> 0, negative |-> FALSE]
<1>1. CASE in_trap
  <2>1. stack' = stack
    BY <1>1 DEF run_pending_traps, run_exit_trap
  <2> QED BY <2>1 DEF SavedInv
<1>2. CASE ~in_trap
  <2>1. stack = <<>>
    BY <1>2 DEF Inv, OneCall
  <2>2. stack' = Append(<<>>, f)
    BY <1>2, <2>1 DEF run_pending_traps, run_exit_trap
  <2>3. f \in Frame /\ f.saved = last_status
    BY ConditionsAssumption DEF Frame, Inv, TypeOK
  <2> HIDE DEF f
  <2>4. stack'[1] = f
    BY <2>2, <2>3, EmptyStack
  <2> QED BY <2>3, <2>4 DEF SavedInv
<1> QED
  BY <1>1, <1>2

\* The commands of a program: those of a trap run with the loop of the call between
\* its test and its decrement.
LEMMA CommandSaved ==
    ASSUME Inv, SavedInv, CommandStep PROVE SavedInv'
<1>1. ASSUME stack' = stack, Executing PROVE SavedInv'
  <2>1. CASE stack = <<>>
    BY <1>1, <2>1 DEF SavedInv
  <2>2. CASE At("trap")
    <3>1. PICK f \in Frame : stack = <<f>>
      BY <2>2, TheFrame DEF At
    <3>2. stack[1].at = "trap"
      BY <2>2, <3>1, OneFrameStack DEF At
    <3> QED BY <1>1, <3>2 DEF SavedInv
  <2> QED BY <1>1, <2>1, <2>2 DEF Executing
<1>2. CASE RunCommand \/ (\E s \in Conditions, a \in Actions : builtin_trap(s, a))
           \/ (\E b \in BOOLEAN : builtin_set(b))
  BY <1>1, <1>2 DEF RunCommand, builtin_trap, builtin_set
<1>3. CASE builtin_eval
  BY <1>3, BeginSaved DEF builtin_eval
<1>4. CASE \E k \in Kinds, b \in BOOLEAN : Forks(k, b)
  BY <1>4 DEF Forks, SavedInv
<1>5. ASSUME NEW n \in BOOLEAN, NEW e \in BOOLEAN, EndProgram(n, e) PROVE SavedInv'
  <2>1. last_status' = last_status
    BY <1>5 DEF EndProgram
  <2>2. CASE At("trap")
             /\ run_pending_traps(WithTop([Top EXCEPT !.at = "ended", !.negative = n]),
                                  pending_sigs)
    <3>1. PICK f \in Frame : stack = <<f>>
      BY <2>2, TheFrame DEF At
    <3> DEFINE g == [f EXCEPT !.at = "ended", !.negative = n]
    <3>2. stack' = WithTop(g)
      BY <2>2, <3>1, OneFrameStack, NoCallInTrap DEF At
    <3>3. g \in Frame /\ g.at = "ended"
      BY DEF Frame
    <3> HIDE DEF g
    <3>4. stack'[1] = g
      BY <3>1, <3>2, <3>3, OneFrameStack
    <3> QED BY <3>3, <3>4 DEF SavedInv
  <2>3. CASE run_pending_traps(stack, pending_sigs)
    BY <2>1, <2>3, BeginSaved
  <2>4. CASE stack' = stack /\ stack = <<>>
    BY <2>4 DEF SavedInv
  <2> QED BY <1>5, <2>2, <2>3, <2>4 DEF EndProgram
<1> QED
  BY <1>2, <1>3, <1>4, <1>5 DEF CommandStep

LEMMA NextSaved == Inv /\ SavedInv /\ [Next]_vars => SavedInv'
<1> SUFFICES ASSUME Inv, SavedInv, [Next]_vars PROVE SavedInv'
  OBVIOUS
<1>1. CASE PendingStep BY <1>1, PendingSaved
<1>2. CASE CommandStep BY <1>2, CommandSaved
<1>3. CASE run_exit_trap
  BY <1>3, BeginSaved DEF run_exit_trap
<1>4. CASE EvalReturns \/ ProgramReturns \/ ChildStarts \/ ExitTrapReturns \/ ReadLine
           \/ (\E s \in Conditions : handle_signal(s)) \/ UNCHANGED vars
  <2>1. UNCHANGED <<stack, last_status>>
    BY <1>4 DEF EvalReturns, ProgramReturns, ChildStarts, ExitTrapReturns, ReadLine, handle_signal,
                vars
  <2> QED BY <2>1 DEF SavedInv
<1> QED
  BY <1>1, <1>2, <1>3, <1>4 DEF Next, ReturnStep, Done

LEMMA SavedHolds == Spec => []SavedInv
  BY InitSaved, NextSaved, InvHolds, PTL DEF Spec

\* A call of run_pending_traps that gets through its loop gives $? back the value it had
\* when the call began, however many programs it ran.
THEOREM StatusGivenBack == Spec => StatusRestored
<1>1. ASSUME Inv, SavedInv, [Next]_vars
      PROVE  [in_trap /\ ~in_trap' => last_status' = stack[1].saved]_vars
  <2> SUFFICES ASSUME in_trap, ~in_trap', Next PROVE last_status' = stack[1].saved
    BY <1>1 DEF vars
  <2>1. Clear
    <3>1. ~(ReturnStep \/ CommandStep \/ ReadLine \/ Done
            \/ \E s \in Conditions : handle_signal(s))
      BY DEF ReturnStep, EvalReturns, ProgramReturns, ChildStarts, run_exit_trap,
             ExitTrapReturns, CommandStep, RunCommand, builtin_trap, builtin_set, builtin_eval,
             EndProgram, Forks, ReadLine, Done, vars, handle_signal, run_pending_traps
    <3>2. ~(TestPending \/ TrapReturns \/ Decrement)
      BY DEF TestPending, TrapReturns, Decrement
    <3> QED BY <3>1, <3>2 DEF Next, PendingStep
  <2>2. stack # <<>> /\ Top.at = "clear" /\ last_status' = last_status
    BY <2>1 DEF Clear, At
  <2>3. PICK f \in Frame : stack = <<f>>
    BY <1>1, <2>2, TheFrame
  <2>4. stack[1].at = "clear"
    BY <2>2, <2>3, OneFrameStack
  <2> QED BY <1>1, <2>2, <2>4 DEF SavedInv
<1> QED
  BY <1>1, InvHolds, SavedHolds, PTL DEF Spec, StatusRestored

==============================================================================
