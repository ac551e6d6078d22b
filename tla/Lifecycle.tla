------------------------------ MODULE Lifecycle ------------------------------
(****************************************************************************)
(* The life of one execution: the stages and the termination of ExecState,  *)
(* the stack of frames, Interpreter::step and run, and the external         *)
(* functions exit, atexit and abort.                                        *)
(*                                                                          *)
(* The interpreter runs the static initializer, then the entry function,    *)
(* then the registered exit handlers, each on top of the frames that are    *)
(* never popped (stack_exit_depth).  The analysed program is arbitrary: any *)
(* frame of a defined function may execute any instruction.  The frame of   *)
(* an external function only returns, its effect took place at the call.    *)
(****************************************************************************)
EXTENDS Integers, Sequences, SequencesExt

CONSTANTS
    Funs,       \* defined functions other than main that may be called
    Externs,    \* external functions without registered code
    Handlers,   \* functions whose address the program passes to atexit
    MaxDepth,   \* bound: frames on the stack when a call is made
    MaxReg      \* bound: calls of atexit that register a handler

Init0 == "static_initializer"
Main  == "main"
Exit  == "exit"
Atexit == "atexit"
Abort == "abort"

\* An argument of atexit that is the address of no function.
InvalidAddress == "invalid"

Defined  == {Init0, Main} \cup Funs
External == {Exit, Atexit, Abort} \cup Externs
Functions == Defined \cup External

ASSUMPTION FunAssumption ==
    /\ Handlers \subseteq Funs \cup External
    /\ (Funs \cup Externs) \cap
           {Init0, Main, Exit, Atexit, Abort, InvalidAddress} = {}
    /\ Funs \cap Externs = {}
ASSUMPTION BoundAssumption == MaxDepth \in Nat /\ MaxReg \in Nat

\* enum ExecState::Stage and enum ExecState::Termination
INITIALIZING == 0
EXECUTING    == 1
TERMINATING  == 2
FINISHED     == 3
UNKNOWN == -1
NORMAL  == 0
ERROR   == 1
CRASH   == 2

VARIABLES
    stage,         \* stage_
    termination,   \* termination_
    stack,         \* stack_segment_: frames [fn, root]; root: pushed by step()
    exitDepth,     \* stack_exit_depth_
    atexits,       \* atexit_stack_
    expired,       \* the time budget of run(max_seconds) is exhausted
    registered,    \* history: number of handlers registered
    started,       \* history: number of handlers started
    requests,      \* history: each registration, in order: how many handlers
                   \* were started before it, and when its own was started
    worst          \* history: the gravest verdict announced so far

exec == <<stage, termination, stack, exitDepth, atexits>>
hist == <<registered, started, requests, worst>>
vars == <<stage, termination, stack, exitDepth, atexits, expired,
          registered, started, requests, worst>>

Frame == [fn : Functions, root : BOOLEAN]
Called(f) == [fn |-> f, root |-> FALSE]
Pushed(f) == [fn |-> f, root |-> TRUE]
Larger(a, b) == IF a < b THEN b ELSE a

Init ==
    /\ stage = INITIALIZING /\ termination = UNKNOWN
    /\ stack = <<Pushed(Init0)>>
    /\ exitDepth = 0
    /\ atexits = <<>>
    /\ expired = FALSE
    /\ registered = 0 /\ started = 0 /\ requests = <<>> /\ worst = UNKNOWN

done == stage = FINISHED

----------------------------------------------------------------------------
(* The state of the execution in the middle of a step, as a record.         *)

Now == [stage |-> stage, term |-> termination, stack |-> stack,
        depth |-> exitDepth, atexits |-> atexits,
        registered |-> registered, started |-> started, worst |-> worst]

\* Mutant: the last verdict wins.
OverwriteTermination(x, t) ==
    [x EXCEPT !.term = t, !.worst = Larger(@, t)]

\* set_stage and set_termination only ever raise their value.
SetStage(x, s) == [x EXCEPT !.stage = Larger(@, s)]
SetTermination(x, t) ==
    [x EXCEPT !.term = Larger(@, t), !.worst = Larger(@, t)]
Finish(x, t) == SetTermination(SetStage(x, FINISHED), t)

\* Mutant: exit leaves the stage alone.
StdExitKeepsStage(x) ==
    [SetTermination(x, NORMAL) EXCEPT !.depth = Len(x.stack)]

\* ExternCode::std_exit runs with the frame of exit already on the stack.
StdExit(x) ==
    [SetTermination(SetStage(x, TERMINATING), NORMAL)
        EXCEPT !.depth = Len(x.stack)]

\* Mutant: the address is not looked up.
StdAtexitUnchecked(x, h) ==
    [x EXCEPT !.atexits = Append(@, h), !.registered = @ + 1]

\* ExternCode::std_atexit; an address that is no function is an error that
\* does not stop the execution.
StdAtexit(x, h) ==
    IF h \in Functions
    THEN [x EXCEPT !.atexits = Append(@, h), !.registered = @ + 1]
    ELSE SetTermination(x, ERROR)

StdAbort(x) == Finish(x, ERROR)

\* call_code_of_current_function_if_registered_external
RunExternal(x, f, arg) ==
    CASE f = Exit   -> StdExit(x)
      [] f = Atexit -> StdAtexit(x, arg)
      [] f = Abort  -> StdAbort(x)
      [] OTHER      -> x

\* Mutant: the handler that was registered first is started first.
NextRootFirst(x) ==
    IF x.stage = INITIALIZING
    THEN [SetStage(x, EXECUTING) EXCEPT !.stack = Append(@, Pushed(Main))]
    ELSE IF x.stage # FINISHED /\ x.atexits # <<>>
    THEN RunExternal(
            [SetStage(x, TERMINATING) EXCEPT
                !.stack = Append(@, Pushed(Head(x.atexits))),
                !.atexits = Tail(@), !.started = @ + 1],
            Head(x.atexits), InvalidAddress)
    ELSE Finish(x, NORMAL)

\* The end of step(): when the frames above the exit depth are gone, main
\* follows the static initializer, then the handlers follow, last one first.
\* A handler is started with parameters nobody wrote; atexit as a handler thus
\* sees an invalid address.
NextRoot(x) ==
    IF x.stage = INITIALIZING
    THEN [SetStage(x, EXECUTING) EXCEPT !.stack = Append(@, Pushed(Main))]
    ELSE IF x.stage # FINISHED /\ x.atexits # <<>>
    THEN RunExternal(
            [SetStage(x, TERMINATING) EXCEPT
                !.stack = Append(@, Pushed(Last(x.atexits))),
                !.atexits = Front(@), !.started = @ + 1],
            Last(x.atexits), InvalidAddress)
    ELSE Finish(x, NORMAL)

\* Mutants: the exit depth is passed one frame too late, or too early.
EndOfStepLate(x) ==
    IF x.stage # FINISHED /\ Len(x.stack) < x.depth THEN NextRoot(x) ELSE x
EndOfStepEarly(x) ==
    IF x.stage # FINISHED /\ Len(x.stack) <= x.depth + 1 THEN NextRoot(x) ELSE x

EndOfStep(x) ==
    IF x.stage # FINISHED /\ Len(x.stack) <= x.depth THEN NextRoot(x) ELSE x

\* The history of registrations; a handler that is started answers the last one
\* of its name that waits.
Waiting == {k \in DOMAIN requests : requests[k].turn = 0}
Answer(h, turn) ==
    requests' = [requests EXCEPT ![Max({k \in Waiting : requests[k].fn = h})].turn = turn]
Record(x) ==
    IF x.registered > registered
    THEN requests' = Append(requests, [fn |-> Last(x.atexits), after |-> started, turn |-> 0])
    ELSE IF x.started > started
    THEN Answer(Last(x.stack).fn, x.started)
    ELSE UNCHANGED requests

Become(x) ==
    /\ stage' = x.stage /\ termination' = x.term
    /\ stack' = x.stack /\ exitDepth' = x.depth /\ atexits' = x.atexits
    /\ registered' = x.registered /\ started' = x.started
    /\ worst' = x.worst
    /\ Record(x)
    /\ UNCHANGED expired

----------------------------------------------------------------------------
(* Interpreter::step, by the instruction at hand.  run(terminator) asks the *)
(* clock before each step.                                                  *)

Running    == ~done /\ ~expired
InFunction == Running /\ Last(stack).fn \in Defined

\* Any instruction that neither calls, returns nor stops.
StepOther == InFunction /\ Become(EndOfStep(Now))

\* __INVALID__ returns before the end of step(); HALT, and an ALLOCA, MALLOC,
\* VA_START or CALL that lacks memory, finish the execution on their own.
StepInvalid == InFunction /\ Become(Finish(Now, ERROR))
StepHalt    == InFunction /\ Become(EndOfStep(Finish(Now, ERROR)))

\* An analyzer finds a defect before the instruction executes.
StepDefect == InFunction /\ Become(Finish(Now, CRASH))

\* CALL; arg is what a call of atexit passes.
StepCall(f, arg) ==
    /\ InFunction
    /\ Len(stack) < MaxDepth
    /\ (f = Atexit /\ arg \in Functions) => registered < MaxReg
    /\ Become(EndOfStep(
          RunExternal([Now EXCEPT !.stack = Append(@, Called(f))], f, arg)))

\* RET
StepRet ==
    /\ Running
    /\ Become(EndOfStep([Now EXCEPT !.stack = Front(@)]))

\* Mutant: the time is up, but the stage is not set.
TimeOutKeepsStage ==
    /\ ~done /\ expired
    /\ Become(SetTermination(Now, ERROR))

\* run(terminator): the time is up and the program did not finish.
TimeOut ==
    /\ ~done /\ expired
    /\ Become(Finish(Now, ERROR))

\* The clock of run(max_seconds).
Expire ==
    /\ ~done /\ ~expired
    /\ expired' = TRUE
    /\ UNCHANGED <<exec, hist>>

Step ==
    \/ StepOther \/ StepInvalid \/ StepHalt \/ StepDefect
    \/ \E f \in Functions \ {Init0, Atexit} : StepCall(f, InvalidAddress)
    \/ \E h \in Handlers \cup {InvalidAddress} : StepCall(Atexit, h)
    \/ StepRet
    \/ TimeOut

Next == Step \/ Expire

\* run(max_seconds) keeps stepping, and time passes.
Fairness == WF_vars(Step) /\ WF_vars(Expire)

Spec     == Init /\ [][Next]_vars
FairSpec == Spec /\ Fairness

----------------------------------------------------------------------------
(* Correctness.                                                             *)

TypeOK ==
    /\ stage \in {INITIALIZING, EXECUTING, TERMINATING, FINISHED}
    /\ termination \in {UNKNOWN, NORMAL, ERROR, CRASH}
    /\ stack \in Seq(Frame) /\ exitDepth \in Nat
    /\ atexits \in Seq(Handlers)
    /\ expired \in BOOLEAN
    /\ registered \in Nat /\ started \in Nat
    /\ requests \in Seq([fn : Handlers, after : Nat, turn : Nat])
    /\ worst \in {UNKNOWN, NORMAL, ERROR, CRASH}

\* The frame that stack_top() returns exists until the execution is finished:
\* whatever exit, handlers and returns did to the stack and its exit depth.
StackNeverEmpty == ~done => stack # <<>>

\* A finished execution has a verdict, and the verdict is the gravest one any
\* part of the interpreter announced on the way.
VerdictIsGravest == (done => termination # UNKNOWN) /\ termination = worst

\* An execution that ends normally has started every registered handler once,
\* and whatever handlers register on the way, the last one goes first: when one
\* is started, all that were registered after it have been.
NormalEndDrains ==
    /\ done /\ termination = NORMAL =>
          /\ atexits = <<>> /\ started = registered /\ Len(requests) = registered
          /\ \A i \in DOMAIN requests : requests[i].turn > 0
    /\ \A i, j \in DOMAIN requests :
          i < j /\ requests[i].turn > 0 /\ requests[j].after < requests[i].turn =>
              requests[j].turn \in 1 .. requests[i].turn - 1

\* Above the frames frozen by exit there is exactly one frame that step()
\* pushed itself, and it is the lowest: handlers never nest, and none starts
\* while frames of the program or of another handler are still active.
OneRootAtATime ==
    ~done =>
        /\ Len(stack) > exitDepth
        /\ \A i \in exitDepth + 1 .. Len(stack) :
              stack[i].root <=> i = exitDepth + 1

\* exit() freezes the frames of the functions that were active: none of them
\* executes again, whatever the handlers do.
ExitFreezes ==
    [][ /\ exitDepth <= exitDepth' /\ exitDepth <= Len(stack')
        /\ SubSeq(stack', 1, exitDepth) = SubSeq(stack, 1, exitDepth) ]_vars

\* step() starts main once, when the static initializer returned, and neither
\* after a call of exit nor after a handler.
MainRuns == \E i \in DOMAIN stack : stack[i] = Pushed(Main)
MainStartsOnce ==
    [][ ~MainRuns /\ MainRuns' =>
            stage = INITIALIZING /\ started = 0 /\ exitDepth' = 0 ]_vars

\* run(max_seconds) finishes every program, even one that never returns.
TimedRunFinishes == <>done

==============================================================================
