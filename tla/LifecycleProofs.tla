--------------------------- MODULE LifecycleProofs ---------------------------
(****************************************************************************)
(* Proofs about the life of an execution, for every program, every set of   *)
(* handlers and every depth of calls.                                       *)
(*                                                                          *)
(* A step computes the next state through a chain of operators on the       *)
(* record Now. Each operator gets a lemma; the lemmas compose along the     *)
(* chain of every action.                                                   *)
(****************************************************************************)
EXTENDS Lifecycle, SequenceTheorems, TLAPS

----------------------------------------------------------------------------
(* Stacks.                                                                  *)

\* A stack loses its last element when it is popped.
LEMMA PopFact ==
    ASSUME NEW S, NEW s \in Seq(S), s # <<>>
    PROVE  /\ Len(s) \in Nat \ {0} /\ Last(s) = s[Len(s)] /\ Last(s) \in S
           /\ Front(s) \in Seq(S) /\ Len(Front(s)) = Len(s) - 1
           /\ \A i \in 1 .. Len(s) - 1 : Front(s)[i] = s[i]
<1>1. Len(s) \in Nat \ {0}
  BY EmptySeq
<1>2. \A i \in 1 .. Len(s) : s[i] \in S
  BY ElementOfSeq
<1>3. \A i \in 1 .. Len(s) - 1 : s[i] \in S
  BY <1>1, <1>2
<1>4. /\ SubSeq(s, 1, Len(s) - 1) \in Seq(S)
      /\ Len(SubSeq(s, 1, Len(s) - 1)) =
            IF 1 <= Len(s) - 1 THEN Len(s) - 1 - 1 + 1 ELSE 0
      /\ \A i \in 1 .. Len(s) - 1 - 1 + 1 : SubSeq(s, 1, Len(s) - 1)[i] = s[1 + i - 1]
  BY <1>1, <1>3, SubSeqProperties
<1>5. \A i \in 1 .. Len(s) - 1 : SubSeq(s, 1, Len(s) - 1)[i] = s[i]
  BY <1>1, <1>4
<1>6. Len(SubSeq(s, 1, Len(s) - 1)) = Len(s) - 1
  <2>1. \A n \in Nat : \A k : k = (IF 1 <= n - 1 THEN n - 1 - 1 + 1 ELSE 0) /\ n # 0 => k = n - 1
    OBVIOUS
  <2> QED
    BY ONLY <1>1, <1>4, <2>1, Zenon
<1>7. Last(s) = s[Len(s)] /\ Front(s) = SubSeq(s, 1, Len(s) - 1)
  BY DEF Last, Front
<1>8. s[Len(s)] \in S
  BY <1>1, <1>2
<1> QED
  BY <1>1, <1>4, <1>5, <1>6, <1>7, <1>8

\* An element pushed on a stack joins its elements.
LEMMA PushFact ==
    ASSUME NEW S, NEW s \in Seq(S), NEW e \in S
    PROVE  /\ Append(s, e) \in Seq(S) /\ Len(Append(s, e)) = Len(s) + 1
           /\ DOMAIN Append(s, e) = DOMAIN s \cup {Len(s) + 1}
           /\ \A i \in DOMAIN s : Append(s, e)[i] = s[i]
           /\ Append(s, e)[Len(s) + 1] = e
           /\ Len(s) + 1 \notin DOMAIN s
<1>1. /\ Append(s, e) \in Seq(S) /\ Len(Append(s, e)) = Len(s) + 1
      /\ \A i \in 1 .. Len(s) : Append(s, e)[i] = s[i]
      /\ Append(s, e)[Len(s) + 1] = e
  BY AppendProperties
<1>2. /\ Len(s) \in Nat /\ DOMAIN s = 1 .. Len(s)
      /\ DOMAIN Append(s, e) = 1 .. Len(Append(s, e))
  BY <1>1, LenProperties
<1> QED
  BY ONLY <1>1, <1>2

----------------------------------------------------------------------------
(* The states of a run.                                                     *)

Stages   == {INITIALIZING, EXECUTING, TERMINATING, FINISHED}
Verdicts == {UNKNOWN, NORMAL, ERROR, CRASH}

\* The states an execution may be in within a step.
State == [stage : Stages, term : Verdicts, stack : Seq(Frame), depth : Nat,
          atexits : Seq(Handlers), registered : Nat, started : Nat,
          worst : Verdicts]

\* The larger of two stages is a stage, the larger of two verdicts a verdict.
LEMMA LargerFact ==
    /\ \A a, b \in Stages : Larger(a, b) \in Stages
    /\ \A a, b \in Verdicts : Larger(a, b) \in Verdicts
    /\ \A a \in Stages : Larger(a, FINISHED) = FINISHED
    /\ \A a \in Verdicts, b \in Verdicts \ {UNKNOWN} : Larger(a, b) # UNKNOWN
BY DEF Larger, Stages, Verdicts, INITIALIZING, EXECUTING, TERMINATING, FINISHED,
       UNKNOWN, NORMAL, ERROR, CRASH

\* What step() and CALL push are frames.
LEMMA FrameFact ==
    \A f \in Functions : Called(f) \in Frame /\ Pushed(f) \in Frame
BY DEF Called, Pushed, Frame

----------------------------------------------------------------------------
(* Types along the chain.                                                   *)

LEMMA SetStageType ==
    ASSUME NEW x \in State, NEW s \in Stages
    PROVE  SetStage(x, s) \in State /\ (s = FINISHED => SetStage(x, s).stage = FINISHED)
BY LargerFact DEF SetStage, State

LEMMA SetTerminationType ==
    ASSUME NEW x \in State, NEW t \in Verdicts
    PROVE  SetTermination(x, t) \in State
BY LargerFact DEF SetTermination, State

LEMMA FinishType ==
    ASSUME NEW x \in State, NEW t \in Verdicts
    PROVE  Finish(x, t) \in State /\ Finish(x, t).stage = FINISHED
<1>1. FINISHED \in Stages
  BY DEF Stages
<1>2. SetStage(x, FINISHED) \in State /\ SetStage(x, FINISHED).stage = FINISHED
  BY <1>1, SetStageType
<1> QED
  BY <1>2, SetTerminationType DEF Finish, SetTermination, State

----------------------------------------------------------------------------
(* What makes a record sound: the verdict is the gravest one announced, an  *)
(* execution only finishes with a verdict, and normally only when no        *)
(* handler is left.                                                         *)

Sound(x) ==
    /\ x.term = x.worst
    /\ x.stage = FINISHED => x.term # UNKNOWN /\ (x.term = NORMAL => x.atexits = <<>>)
    /\ x.registered = x.started + Len(x.atexits)

\* Frames above the exit depth: the lowest one is the root, and the only one.
Rooted(x) ==
    x.stage # FINISHED =>
        /\ x.depth <= Len(x.stack)
        /\ \A i \in x.depth + 1 .. Len(x.stack) : x.stack[i].root <=> i = x.depth + 1

\* Raising the verdict keeps a record sound.
LEMMA SetTerminationSound ==
    ASSUME NEW x \in State, Sound(x), x.stage # FINISHED, NEW t \in Verdicts
    PROVE  /\ SetTermination(x, t) \in State /\ Sound(SetTermination(x, t))
           /\ SetTermination(x, t) = [x EXCEPT !.term = Larger(x.term, t),
                                              !.worst = Larger(x.term, t)]
BY SetTerminationType DEF SetTermination, Sound, State

\* Finishing with an error, a crash, or normally when no handler is left.
LEMMA FinishSound ==
    ASSUME NEW x \in State, Sound(x), NEW t \in Verdicts \ {UNKNOWN},
           t = NORMAL => x.atexits = <<>>
    PROVE  /\ Finish(x, t) \in State /\ Sound(Finish(x, t))
           /\ Finish(x, t).stage = FINISHED
           /\ Finish(x, t).stack = x.stack
<1>1. Finish(x, t) \in State /\ Finish(x, t).stage = FINISHED
  BY FinishType
<1>2. /\ Finish(x, t).term = Larger(x.term, t)
      /\ Finish(x, t).worst = Larger(x.worst, t)
      /\ Finish(x, t).atexits = x.atexits /\ Finish(x, t).stack = x.stack
      /\ Finish(x, t).registered = x.registered /\ Finish(x, t).started = x.started
  BY DEF Finish, SetTermination, SetStage, State
<1>3. Larger(x.term, t) # UNKNOWN
  BY LargerFact DEF State
<1>4. Larger(x.term, t) = NORMAL => t = NORMAL
  BY DEF Larger, State, Verdicts, UNKNOWN, NORMAL, ERROR, CRASH
<1> QED
  BY <1>1, <1>2, <1>3, <1>4 DEF Sound

\* The effect of an external function: it leaves the stack alone, only exit
\* moves the exit depth, and it keeps the record sound.
LEMMA RunExternalEffect ==
    ASSUME NEW x \in State, Sound(x), x.stage # FINISHED, NEW f, NEW arg,
           arg \in Functions => arg \in Handlers
    PROVE  LET y == RunExternal(x, f, arg) IN
           /\ y \in State /\ Sound(y) /\ y.stack = x.stack
           /\ y.depth = IF f = Exit THEN Len(x.stack) ELSE x.depth
<1>0. /\ TERMINATING \in Stages /\ FINISHED \in Stages /\ TERMINATING # FINISHED
      /\ NORMAL \in Verdicts /\ ERROR \in Verdicts \ {UNKNOWN} /\ ERROR # NORMAL
  BY DEF Stages, Verdicts, TERMINATING, FINISHED, NORMAL, ERROR, UNKNOWN
<1>1. /\ StdExit(x) \in State /\ Sound(StdExit(x))
      /\ StdExit(x).stack = x.stack /\ StdExit(x).depth = Len(x.stack)
  <2> DEFINE s == SetStage(x, TERMINATING)
  <2>1. s \in State /\ s = [x EXCEPT !.stage = Larger(x.stage, TERMINATING)]
    BY <1>0, SetStageType DEF SetStage
  <2>2. Larger(x.stage, TERMINATING) # FINISHED
    BY <1>0 DEF Larger
  <2>3. Sound(s) /\ s.stage # FINISHED /\ s.stack = x.stack
    BY <2>1, <2>2 DEF Sound, State
  <2> DEFINE t == SetTermination(s, NORMAL)
  <2> HIDE DEF s
  <2>4. t \in State /\ Sound(t) /\ t.stack = x.stack
    <3>1. t \in State /\ Sound(t)
      BY <1>0, <2>1, <2>3, SetTerminationSound
    <3>2. t.stack = s.stack
      BY <2>1 DEF SetTermination, State
    <3> QED
      BY <2>3, <3>1, <3>2
  <2>5. Len(x.stack) \in Nat
    BY LenProperties DEF State
  <2>6. StdExit(x) = [t EXCEPT !.depth = Len(x.stack)]
    BY DEF StdExit, s
  <2> HIDE DEF t
  <2> QED
    BY <2>4, <2>5, <2>6 DEF State, Sound
<1>2. /\ StdAtexit(x, arg) \in State /\ Sound(StdAtexit(x, arg))
      /\ StdAtexit(x, arg).stack = x.stack /\ StdAtexit(x, arg).depth = x.depth
  <2>1. CASE arg \in Functions
    <3>1. /\ Append(x.atexits, arg) \in Seq(Handlers)
          /\ Len(Append(x.atexits, arg)) = Len(x.atexits) + 1
          /\ Len(x.atexits) \in Nat
      BY <2>1, AppendProperties, LenProperties DEF State
    <3>2. StdAtexit(x, arg) =
              [x EXCEPT !.atexits = Append(x.atexits, arg), !.registered = x.registered + 1]
      BY <2>1 DEF StdAtexit, State
    <3>3. x.registered + 1 \in Nat /\ x.registered \in Nat /\ x.started \in Nat
      BY DEF State
    <3> DEFINE y == StdAtexit(x, arg)
    <3>4. y \in State
      BY <3>1, <3>2, <3>3 DEF State
    <3>5. /\ y.stack = x.stack /\ y.depth = x.depth /\ y.stage = x.stage
          /\ y.term = x.term /\ y.worst = x.worst /\ y.started = x.started
          /\ y.atexits = Append(x.atexits, arg) /\ y.registered = x.registered + 1
      BY <3>2 DEF State
    <3> HIDE DEF y
    <3>6. Sound(y)
      BY <3>1, <3>3, <3>5 DEF Sound
    <3> QED
      BY <3>4, <3>5, <3>6 DEF y
  <2>2. CASE arg \notin Functions
    <3>1. SetTermination(x, ERROR).stack = x.stack /\ SetTermination(x, ERROR).depth = x.depth
      BY DEF SetTermination, State
    <3> QED
      BY <1>0, <2>2, <3>1, SetTerminationSound DEF StdAtexit
  <2> QED
    BY <2>1, <2>2
<1>3. /\ StdAbort(x) \in State /\ Sound(StdAbort(x))
      /\ StdAbort(x).stack = x.stack /\ StdAbort(x).depth = x.depth
  <2>1. StdAbort(x).depth = x.depth
    BY DEF StdAbort, Finish, SetTermination, SetStage, State
  <2> QED
    BY <1>0, <2>1, FinishSound DEF StdAbort
<1> QED
  BY <1>1, <1>2, <1>3 DEF RunExternal, Exit, Atexit, Abort

\* What step() leaves behind.
Settled(x) ==
    /\ x \in State /\ Sound(x)
    /\ x.stage # FINISHED => x.stack # <<>>

\* Every stack above its exit depth holds its root.
Standing(x) == Rooted(x) /\ (x.stage # FINISHED => x.depth < Len(x.stack))

\* A root pushed on a stack that is down to its exit depth stands alone.
LEMMA PushRoot ==
    ASSUME NEW x \in State, NEW y \in State, NEW f \in Functions,
           x.stage # FINISHED, Rooted(x), Len(x.stack) <= x.depth,
           y.stack = Append(x.stack, Pushed(f)), y.depth = x.depth
    PROVE  Standing(y)
<1>1. x.stack \in Seq(Frame) /\ Pushed(f) \in Frame /\ x.depth \in Nat
  BY FrameFact DEF State
<1>2. Len(x.stack) = x.depth /\ Len(x.stack) \in Nat
  BY <1>1, LenProperties DEF Rooted
<1>3. /\ Len(y.stack) = x.depth + 1
      /\ y.stack[x.depth + 1] = Pushed(f)
  BY <1>1, <1>2, PushFact
<1>4. Pushed(f).root = TRUE
  BY DEF Pushed
<1> QED
  BY <1>1, <1>2, <1>3, <1>4 DEF Standing, Rooted

\* Starting main, starting the next handler, or ending the execution.
LEMMA NextRootEffect ==
    ASSUME NEW x \in State, Sound(x), x.stage # FINISHED, Len(x.stack) <= x.depth
    PROVE  /\ Settled(NextRoot(x))
           /\ Rooted(x) /\ Exit \notin Handlers => Standing(NextRoot(x))
<1>0. /\ EXECUTING \in Stages /\ TERMINATING \in Stages
      /\ EXECUTING # FINISHED /\ TERMINATING # FINISHED
      /\ NORMAL \in Verdicts \ {UNKNOWN} /\ Main \in Functions
      /\ Handlers \subseteq Functions /\ InvalidAddress \notin Functions
  BY FunAssumption DEF Stages, Verdicts, EXECUTING, TERMINATING, FINISHED, NORMAL,
        UNKNOWN, Functions, Defined, External, Main, Init0, Exit, Atexit, Abort, InvalidAddress
<1>1. CASE x.stage = INITIALIZING
  <2> DEFINE s == SetStage(x, EXECUTING)
             y == [s EXCEPT !.stack = Append(s.stack, Pushed(Main))]
  <2>1. NextRoot(x) = y
    BY <1>1 DEF NextRoot
  <2>2. s \in State /\ s = [x EXCEPT !.stage = Larger(x.stage, EXECUTING)]
    BY <1>0, SetStageType DEF SetStage
  <2>3. Larger(x.stage, EXECUTING) # FINISHED
    BY <1>0 DEF Larger
  <2>4. /\ Append(x.stack, Pushed(Main)) \in Seq(Frame)
        /\ Append(x.stack, Pushed(Main)) # <<>>
    BY <1>0, FrameFact, AppendProperties DEF State
  <2>5. /\ y.stack = Append(x.stack, Pushed(Main)) /\ y.depth = x.depth
        /\ y.term = x.term /\ y.worst = x.worst /\ y.atexits = x.atexits
        /\ y.registered = x.registered /\ y.started = x.started
        /\ y.stage = Larger(x.stage, EXECUTING) /\ y \in State
    BY <2>2, <2>4 DEF State
  <2> HIDE DEF y
  <2>6. Settled(y)
    BY <2>3, <2>4, <2>5 DEF Settled, Sound
  <2>7. Rooted(x) => Standing(y)
    BY <1>0, <2>5, PushRoot
  <2> QED
    BY <2>1, <2>6, <2>7
<1>2. CASE x.stage # INITIALIZING /\ x.atexits # <<>>
  <2> DEFINE h == Last(x.atexits)
             s == SetStage(x, TERMINATING)
             z == [s EXCEPT !.stack = Append(s.stack, Pushed(h)),
                            !.atexits = Front(s.atexits), !.started = s.started + 1]
             y == RunExternal(z, h, InvalidAddress)
  <2>1. NextRoot(x) = y
    BY <1>2 DEF NextRoot
  <2>2. s \in State /\ s = [x EXCEPT !.stage = Larger(x.stage, TERMINATING)]
    BY <1>0, SetStageType DEF SetStage
  <2>3. Larger(x.stage, TERMINATING) # FINISHED
    BY <1>0 DEF Larger
  <2>4. /\ h \in Handlers /\ Front(x.atexits) \in Seq(Handlers)
        /\ Len(Front(x.atexits)) = Len(x.atexits) - 1 /\ Len(x.atexits) \in Nat
    BY <1>2, PopFact DEF State
  <2>5. /\ Append(x.stack, Pushed(h)) \in Seq(Frame)
        /\ Append(x.stack, Pushed(h)) # <<>>
    BY <1>0, <2>4, FrameFact, AppendProperties DEF State
  <2>6. /\ z.stack = Append(x.stack, Pushed(h)) /\ z.depth = x.depth
        /\ z.term = x.term /\ z.worst = x.worst /\ z.atexits = Front(x.atexits)
        /\ z.registered = x.registered /\ z.started = x.started + 1
        /\ z.stage = Larger(x.stage, TERMINATING) /\ z \in State
    <3>1. s.started + 1 \in Nat
      BY <2>2 DEF State
    <3>2. s.stack = x.stack /\ s.atexits = x.atexits /\ s.started = x.started
      BY <2>2 DEF State
    <3>3. z = [s EXCEPT !.stack = Append(x.stack, Pushed(h)),
                        !.atexits = Front(x.atexits), !.started = s.started + 1]
      BY <3>2
    <3> HIDE DEF h, z
    <3>4. /\ z.stack = Append(x.stack, Pushed(h)) /\ z.depth = s.depth
          /\ z.term = s.term /\ z.worst = s.worst /\ z.atexits = Front(x.atexits)
          /\ z.registered = s.registered /\ z.started = s.started + 1
          /\ z.stage = s.stage
      BY <2>2, <3>3 DEF State
    <3>5. z \in State
      BY <2>2, <2>4, <2>5, <3>1, <3>3 DEF State
    <3>6. /\ s.depth = x.depth /\ s.term = x.term /\ s.worst = x.worst
          /\ s.registered = x.registered /\ s.stage = Larger(x.stage, TERMINATING)
      BY <2>2 DEF State
    <3> QED
      BY <3>2, <3>4, <3>5, <3>6
  <2> HIDE DEF h, z
  <2>7. Sound(z) /\ z.stage # FINISHED
    <3>1. x.started \in Nat /\ x.registered \in Nat
      BY DEF State
    <3>2. x.registered = x.started + Len(x.atexits) /\ x.term = x.worst
      BY DEF Sound
    <3>3. z.registered = z.started + Len(z.atexits)
      <4>1. \A r, n, l \in Nat : r = n + l => r = (n + 1) + (l - 1)
        OBVIOUS
      <4>2. Len(z.atexits) = Len(x.atexits) - 1 /\ z.started = x.started + 1
        BY <2>4, <2>6
      <4>3. x.registered = (x.started + 1) + (Len(x.atexits) - 1)
        BY ONLY <2>4, <3>1, <3>2, <4>1
      <4> QED
        BY ONLY <2>6, <4>2, <4>3
    <3> QED
      BY <2>3, <2>6, <3>2, <3>3 DEF Sound
  <2>8. /\ y \in State /\ Sound(y) /\ y.stack = z.stack
        /\ y.depth = IF h = Exit THEN Len(z.stack) ELSE z.depth
    BY <1>0, <2>6, <2>7, RunExternalEffect
  <2> HIDE DEF y
  <2>9. Settled(y)
    BY <2>5, <2>6, <2>8 DEF Settled
  <2>10. Rooted(x) /\ Exit \notin Handlers => Standing(y)
    BY <1>0, <2>4, <2>6, <2>8, PushRoot
  <2> QED
    BY <2>1, <2>9, <2>10
<1>3. CASE x.stage # INITIALIZING /\ x.atexits = <<>>
  <2>1. NextRoot(x) = Finish(x, NORMAL)
    BY <1>3 DEF NextRoot
  <2> QED
    BY <1>0, <1>3, <2>1, FinishSound DEF Settled, Standing, Rooted
<1> QED
  BY <1>1, <1>2, <1>3

\* The end of a step.
LEMMA EndOfStepEffect ==
    ASSUME NEW x \in State, Sound(x)
    PROVE  /\ Settled(EndOfStep(x))
           /\ Rooted(x) /\ Exit \notin Handlers => Standing(EndOfStep(x))
<1>1. CASE x.stage # FINISHED /\ Len(x.stack) <= x.depth
  BY <1>1, NextRootEffect DEF EndOfStep
<1>2. CASE ~(x.stage # FINISHED /\ Len(x.stack) <= x.depth)
  <2>1. EndOfStep(x) = x
    BY <1>2 DEF EndOfStep
  <2>2. x.stage # FINISHED => x.depth < Len(x.stack) /\ x.stack # <<>>
    <3>1. x.depth \in Nat /\ Len(x.stack) \in Nat
      BY LenProperties DEF State
    <3>2. Len(<<>>) = 0
      BY EmptySeq
    <3> QED
      BY <1>2, <3>1, <3>2
  <2> QED
    BY <2>1, <2>2 DEF Settled, Standing
<1> QED
  BY <1>1, <1>2

----------------------------------------------------------------------------
(* From records to states.                                                  *)

NowSettled  == Settled(Now)
NowStanding == Standing(Now)

\* The record of the next state is the one its step computed.
LEMMA BecomeFact ==
    ASSUME NEW x \in State, Become(x)
    PROVE  Now' = x
BY DEF Become, Now, State

\* The variables are the fields of Now.
LEMMA NowFields ==
    /\ Now.stage = stage /\ Now.term = termination /\ Now.stack = stack
    /\ Now.depth = exitDepth /\ Now.atexits = atexits
    /\ Now.registered = registered /\ Now.started = started /\ Now.worst = worst
BY DEF Now

\* Every step of the loop keeps the state settled, and standing when exit is
\* not a handler.
LEMMA StepEffect ==
    ASSUME NowSettled, Step
    PROVE  /\ NowSettled'
           /\ NowStanding /\ Exit \notin Handlers => NowStanding'
<1> DEFINE Goal == /\ NowSettled'
                   /\ NowStanding /\ Exit \notin Handlers => NowStanding'
<1> SUFFICES Goal
  OBVIOUS
<1>0. Now \in State /\ Sound(Now)
  BY DEF NowSettled, Settled
<1>1. ASSUME NEW x \in State, Sound(x), Become(EndOfStep(x)),
             NowStanding => Rooted(x)
      PROVE  Goal
  <2>1. Settled(EndOfStep(x)) /\ EndOfStep(x) \in State
    BY <1>1, EndOfStepEffect DEF Settled
  <2>2. Now' = EndOfStep(x)
    BY <1>1, <2>1, BecomeFact
  <2>3. NowStanding /\ Exit \notin Handlers => Standing(EndOfStep(x))
    BY <1>1, EndOfStepEffect
  <2>4. NowSettled' /\ (Standing(EndOfStep(x)) => NowStanding')
    BY <2>1, <2>2 DEF NowSettled, NowStanding, Settled, Sound, Standing, Rooted
  <2> QED
    BY <2>3, <2>4
<1>2. ASSUME NEW t \in {ERROR, CRASH} PROVE
             /\ Finish(Now, t) \in State /\ Sound(Finish(Now, t))
             /\ Finish(Now, t).stage = FINISHED
  <2>1. t \in Verdicts \ {UNKNOWN} /\ t # NORMAL
    BY <1>2 DEF Verdicts, UNKNOWN, NORMAL, ERROR, CRASH
  <2> QED
    BY <1>0, <2>1, FinishSound
<1>3. ASSUME NEW t \in {ERROR, CRASH}, Become(Finish(Now, t)) PROVE Goal
  <2>1. EndOfStep(Finish(Now, t)) = Finish(Now, t)
    BY <1>2 DEF EndOfStep
  <2>2. NowStanding => Rooted(Finish(Now, t))
    BY <1>2 DEF Rooted
  <2> QED
    BY <1>1, <1>2, <1>3, <2>1, <2>2
<1>4. CASE StepOther
  BY <1>0, <1>1, <1>4 DEF StepOther, NowStanding, Standing
<1>5. CASE StepInvalid \/ StepDefect \/ TimeOut
  BY <1>3, <1>5 DEF StepInvalid, StepDefect, TimeOut
<1>6. CASE StepHalt
  BY <1>1, <1>2, <1>6 DEF StepHalt, Rooted
<1>7. ASSUME NEW f \in Functions, NEW arg, StepCall(f, arg),
             arg \in Functions => arg \in Handlers
      PROVE  Goal
  <2> DEFINE c == [Now EXCEPT !.stack = Append(stack, Called(f))]
             y == RunExternal(c, f, arg)
  <2>1. Become(EndOfStep(y)) /\ stage # FINISHED
    BY <1>7, NowFields DEF StepCall, InFunction, Running, done
  <2>2. stack \in Seq(Frame) /\ Called(f) \in Frame /\ exitDepth \in Nat
    BY <1>0, NowFields, FrameFact DEF State
  <2>3. /\ Append(stack, Called(f)) \in Seq(Frame)
        /\ Len(Append(stack, Called(f))) = Len(stack) + 1 /\ Len(stack) \in Nat
        /\ \A i \in 1 .. Len(stack) : Append(stack, Called(f))[i] = stack[i]
        /\ Append(stack, Called(f))[Len(stack) + 1] = Called(f)
    BY <2>2, PushFact, LenProperties
  <2>4. /\ c \in State /\ c.stack = Append(stack, Called(f)) /\ c.depth = exitDepth
        /\ c.stage = stage /\ Sound(c)
    BY <1>0, <2>3, NowFields DEF State, Sound
  <2> HIDE DEF c
  <2>5. /\ y \in State /\ Sound(y) /\ y.stack = c.stack
        /\ y.depth = IF f = Exit THEN Len(c.stack) ELSE c.depth
    BY <1>7, <2>1, <2>4, RunExternalEffect
  <2>6. NowStanding => Rooted(c)
    <3>1. Called(f).root = FALSE
      BY DEF Called
    <3> QED
      BY <2>1, <2>2, <2>3, <2>4, <3>1, NowFields DEF NowStanding, Standing, Rooted
  <2> HIDE DEF y
  <2>7. NowStanding => Rooted(y)
    <3>1. CASE f = Exit
      <4>1. y.depth = Len(y.stack) /\ Len(y.stack) \in Nat
        BY <2>3, <2>4, <2>5, <3>1
      <4> QED
        BY <4>1 DEF Rooted
    <3>2. CASE f # Exit
      <4>1. y.depth = c.depth /\ y.stack = c.stack /\ c.stage # FINISHED
        BY <2>1, <2>4, <2>5, <3>2
      <4> QED
        BY <2>6, <4>1 DEF Rooted
    <3> QED
      BY <3>1, <3>2
  <2> QED
    BY <1>1, <2>1, <2>5, <2>7
<1>8. CASE StepRet
  <2> DEFINE c == [Now EXCEPT !.stack = Front(stack)]
  <2>1. Become(EndOfStep(c)) /\ stage # FINISHED
    BY <1>8, NowFields DEF StepRet, Running, done
  <2>2. stack # <<>> /\ stack \in Seq(Frame) /\ exitDepth \in Nat
    BY <1>0, <2>1, NowFields DEF NowSettled, Settled, State
  <2>3. /\ Front(stack) \in Seq(Frame) /\ Len(Front(stack)) = Len(stack) - 1
        /\ Len(stack) \in Nat \ {0}
        /\ \A i \in 1 .. Len(stack) - 1 : Front(stack)[i] = stack[i]
    BY <2>2, PopFact
  <2>4. /\ c \in State /\ c.stack = Front(stack) /\ c.depth = exitDepth
        /\ c.stage = stage /\ Sound(c)
    BY <1>0, <2>3, NowFields DEF State, Sound
  <2> HIDE DEF c
  <2>5. NowStanding => Rooted(c)
    BY <2>1, <2>2, <2>3, <2>4, NowFields DEF NowStanding, Standing, Rooted
  <2> QED
    BY <1>1, <2>1, <2>4, <2>5
<1>9. InvalidAddress \notin Functions
  BY FunAssumption DEF Functions, Defined, External, Main, Init0, Exit, Atexit, Abort,
        InvalidAddress
<1> HIDE DEF Goal
<1>10. CASE \E f \in Functions \ {Init0, Atexit} : StepCall(f, InvalidAddress)
  <2>1. PICK f \in Functions : StepCall(f, InvalidAddress)
    BY <1>10
  <2> QED
    BY ONLY <1>7, <1>9, <2>1
<1>11. CASE \E h \in Handlers \cup {InvalidAddress} : StepCall(Atexit, h)
  <2>1. Atexit \in Functions
    BY DEF Functions, External
  <2>2. PICK h \in Handlers \cup {InvalidAddress} : StepCall(Atexit, h)
    BY <1>11
  <2>3. h \in Functions => h \in Handlers
    BY <1>9, <2>2
  <2> QED
    BY ONLY <1>7, <2>1, <2>2, <2>3
<1> QED
  BY <1>4, <1>5, <1>6, <1>8, <1>10, <1>11 DEF Step

----------------------------------------------------------------------------
(* The inductive invariant and the theorems.                                *)

IInv == NowSettled /\ expired \in BOOLEAN

\* The static initializer is the first root.
LEMMA InitFact == Init => IInv /\ NowStanding
<1> SUFFICES ASSUME Init PROVE IInv /\ NowStanding
  OBVIOUS
<1> DEFINE s == <<Pushed(Init0)>>
<1>1. Pushed(Init0) \in Frame /\ Pushed(Init0).root = TRUE
  BY FrameFact DEF Functions, Defined, Pushed
<1>2. s \in Seq(Frame) /\ Len(s) = 1 /\ s[1] = Pushed(Init0) /\ s # <<>>
  BY <1>1
<1>3. /\ Now.stage = INITIALIZING /\ Now.term = UNKNOWN /\ Now.stack = s
      /\ Now.depth = 0 /\ Now.atexits = <<>>
      /\ Now.registered = 0 /\ Now.started = 0 /\ Now.worst = UNKNOWN
  BY NowFields DEF Init
<1>4. <<>> \in Seq(Handlers) /\ Len(<<>>) = 0
  OBVIOUS
<1>5. INITIALIZING # FINISHED /\ INITIALIZING \in Stages /\ UNKNOWN \in Verdicts
  BY DEF INITIALIZING, FINISHED, Stages, UNKNOWN, Verdicts
<1> HIDE DEF s
<1>6. Now \in State
  BY <1>2, <1>4, <1>5 DEF Init, Now, State, s
<1>7. Sound(Now)
  BY <1>3, <1>4, <1>5 DEF Sound
<1>8. NowStanding
  BY <1>1, <1>2, <1>3 DEF NowStanding, Standing, Rooted
<1> QED
  BY <1>2, <1>3, <1>6, <1>7, <1>8 DEF IInv, NowSettled, Settled, Init

\* The clock and stuttering do not touch the execution.
LEMMA NextEffect ==
    ASSUME IInv, [Next]_vars
    PROVE  IInv' /\ (NowStanding /\ Exit \notin Handlers => NowStanding')
<1>1. CASE Step
  <2>1. expired' = expired
    BY <1>1 DEF Step, StepOther, StepInvalid, StepHalt, StepDefect, StepCall, StepRet,
       TimeOut, Become
  <2> QED
    BY <1>1, <2>1, StepEffect DEF IInv
<1>2. CASE Expire \/ UNCHANGED vars
  <2>1. Now' = Now /\ expired' \in BOOLEAN
    BY <1>2 DEF Expire, vars, exec, hist, Now, IInv
  <2>2. NowSettled' /\ (NowStanding => NowStanding')
    BY <2>1 DEF IInv, NowSettled, NowStanding, Settled, Sound, Standing, Rooted
  <2> QED
    BY <2>1, <2>2 DEF IInv
<1> QED
  BY <1>1, <1>2 DEF Next

\* Every state an execution reaches is settled.
THEOREM Invariance == Spec => []IInv
<1>1. Init => IInv
  BY InitFact
<1>2. IInv /\ [Next]_vars => IInv'
  BY NextEffect
<1> QED
  BY <1>1, <1>2, PTL DEF Spec

\* However exit, handlers and returns interleave, the frame that stack_top()
\* returns exists until the execution is finished.
THEOREM TopFrameExists == Spec => []StackNeverEmpty
<1>1. IInv => StackNeverEmpty
  BY NowFields DEF IInv, NowSettled, Settled, StackNeverEmpty, done
<1> QED
  BY <1>1, Invariance, PTL

\* The verdict of a finished execution is the gravest one announced.
THEOREM VerdictCorrect == Spec => []VerdictIsGravest
<1>1. IInv => VerdictIsGravest
  BY NowFields DEF IInv, NowSettled, Settled, Sound, VerdictIsGravest, done
<1> QED
  BY <1>1, Invariance, PTL

\* Handlers never nest, provided the program does not register exit itself.
THEOREM RootsNeverNest == ASSUME Exit \notin Handlers
                          PROVE  Spec => []OneRootAtATime
<1> DEFINE J == IInv /\ NowStanding
<1>1. Init => J
  BY InitFact
<1>2. J /\ [Next]_vars => J'
  BY NextEffect
<1>3. J => OneRootAtATime
  BY NowFields DEF IInv, NowSettled, Settled, State, NowStanding, Standing, Rooted,
     OneRootAtATime, done
<1> QED
  BY <1>1, <1>2, <1>3, PTL DEF Spec

(****************************************************************************)
(* The frames at the two ends of an execution: main is started once, and    *)
(* the frames below a call of exit stay.                                    *)
(*                                                                          *)
(* A step pushes or pops at most one frame on its own; its end may push a   *)
(* root. The lemmas follow the record of a step and keep of it only what    *)
(* happened to the stack, the exit depth and the stage.                     *)
(****************************************************************************)

\* A handler is not main, and the stages are different.
LEMMA NameFact ==
    /\ Main \notin Handlers /\ Handlers \subseteq Functions /\ Main \in Functions
    /\ Exit \in Functions /\ Main # Exit
    /\ \A a \in Stages : Larger(a, TERMINATING) # INITIALIZING
                      /\ Larger(a, EXECUTING) # INITIALIZING
    /\ FINISHED # INITIALIZING
BY FunAssumption
   DEF Functions, Defined, External, Main, Init0, Exit, Atexit, Abort, InvalidAddress,
       Larger, Stages, INITIALIZING, EXECUTING, TERMINATING, FINISHED

\* While the static initializer runs no handler was started and nothing exited.
Fresh(x) == x.stage = INITIALIZING => x.started = 0 /\ x.depth = 0

\* y comes from x without a change of its stack, and if it is still in the
\* stage of the static initializer, without any that Fresh speaks of.
Onward(x, y) ==
    /\ y.stack = x.stack
    /\ y.depth = x.depth \/ y.depth = Len(x.stack)
    /\ y.stage = INITIALIZING =>
          x.stage = INITIALIZING /\ y.depth = x.depth /\ y.started = x.started

\* Finishing does not touch the stack.
LEMMA FinishOnward ==
    ASSUME NEW x \in State, NEW t
    PROVE  Onward(x, Finish(x, t)) /\ Finish(x, t).depth = x.depth
BY NameFact, LargerFact DEF Onward, Finish, SetTermination, SetStage, State

\* Only exit moves the exit depth, and it ends the stage of the initializer.
LEMMA RunExternalOnward ==
    ASSUME NEW x \in State, NEW f, NEW arg
    PROVE  Onward(x, RunExternal(x, f, arg))
<1>1. Onward(x, x)
  BY DEF Onward
<1>2. Onward(x, StdExit(x))
  <2>1. /\ StdExit(x).stack = x.stack /\ StdExit(x).depth = Len(x.stack)
        /\ StdExit(x).stage = Larger(x.stage, TERMINATING)
    BY DEF StdExit, SetTermination, SetStage, State
  <2> QED
    BY <2>1, NameFact DEF Onward, State
<1>3. Onward(x, StdAtexit(x, arg))
  <2>1. /\ StdAtexit(x, arg).stack = x.stack /\ StdAtexit(x, arg).depth = x.depth
        /\ StdAtexit(x, arg).stage = x.stage /\ StdAtexit(x, arg).started = x.started
    BY DEF StdAtexit, SetTermination, State
  <2> QED
    BY <2>1 DEF Onward
<1>4. Onward(x, StdAbort(x))
  BY FinishOnward DEF StdAbort
<1> QED
  BY <1>1, <1>2, <1>3, <1>4 DEF RunExternal

\* An external function keeps the types, whatever it is passed.
LEMMA RunExternalType ==
    ASSUME NEW x \in State, NEW f, NEW arg, arg \in Functions => arg \in Handlers
    PROVE  RunExternal(x, f, arg) \in State
<1>1. {TERMINATING, FINISHED} \subseteq Stages /\ {NORMAL, ERROR} \subseteq Verdicts
  BY DEF Stages, Verdicts
<1>2. StdExit(x) \in State
  <2>1. SetTermination(SetStage(x, TERMINATING), NORMAL) \in State
    BY <1>1, SetStageType, SetTerminationType
  <2>2. Len(x.stack) \in Nat
    BY LenProperties DEF State
  <2> QED
    BY <2>1, <2>2 DEF StdExit, State
<1>3. StdAtexit(x, arg) \in State
  <2>1. CASE arg \in Functions
    <3>1. Append(x.atexits, arg) \in Seq(Handlers) /\ x.registered + 1 \in Nat
      BY <2>1, AppendProperties DEF State
    <3>2. StdAtexit(x, arg) =
             [x EXCEPT !.atexits = Append(x.atexits, arg), !.registered = x.registered + 1]
      BY <2>1 DEF StdAtexit, State
    <3> QED
      BY <3>1, <3>2 DEF State
  <2>2. CASE arg \notin Functions
    BY <1>1, <2>2, SetTerminationType DEF StdAtexit
  <2> QED
    BY <2>1, <2>2
<1>4. StdAbort(x) \in State
  BY <1>1, FinishType DEF StdAbort
<1> QED
  BY <1>2, <1>3, <1>4 DEF RunExternal

\* The end of a step may push a root: main after the static initializer, a
\* handler otherwise.
Ended(x, y) ==
    \/ /\ y.stack = x.stack /\ y.depth = x.depth
       /\ y.stage = x.stage /\ y.started = x.started
    \/ /\ y.stage # INITIALIZING
       /\ \/ y.stack = x.stack /\ y.depth = x.depth
          \/ /\ x.stage = INITIALIZING /\ y.depth = x.depth /\ y.started = x.started
             /\ y.stack = Append(x.stack, Pushed(Main))
          \/ \E h \in Handlers :
                /\ y.stack = Append(x.stack, Pushed(h))
                /\ y.depth = x.depth \/ y.depth = Len(y.stack)

LEMMA EndOfStepShape ==
    ASSUME NEW x \in State
    PROVE  Ended(x, EndOfStep(x))
<1>1. CASE x.stage = INITIALIZING /\ EndOfStep(x) = NextRoot(x)
  <2>1. NextRoot(x) = [SetStage(x, EXECUTING) EXCEPT !.stack = Append(@, Pushed(Main))]
    BY <1>1 DEF NextRoot
  <2>2. /\ NextRoot(x).stack = Append(x.stack, Pushed(Main))
        /\ NextRoot(x).depth = x.depth /\ NextRoot(x).started = x.started
        /\ NextRoot(x).stage = Larger(x.stage, EXECUTING)
    BY <2>1 DEF SetStage, State
  <2>3. Larger(x.stage, EXECUTING) # INITIALIZING
    BY NameFact DEF State
  <2> QED
    BY <1>1, <2>2, <2>3 DEF Ended
<1>2. CASE /\ x.stage # INITIALIZING /\ x.stage # FINISHED /\ x.atexits # <<>>
           /\ EndOfStep(x) = NextRoot(x)
  <2> DEFINE h == Last(x.atexits)
             z == [SetStage(x, TERMINATING) EXCEPT
                      !.stack = Append(@, Pushed(h)),
                      !.atexits = Front(@), !.started = @ + 1]
  <2>1. NextRoot(x) = RunExternal(z, h, InvalidAddress)
    BY <1>2 DEF NextRoot
  <2>2. h \in Handlers /\ h \in Functions /\ Front(x.atexits) \in Seq(Handlers)
    BY <1>2, PopFact, NameFact DEF State
  <2>3. Append(x.stack, Pushed(h)) \in Seq(Frame)
    BY <2>2, FrameFact, AppendProperties DEF State
  <2>4. /\ z.stack = Append(x.stack, Pushed(h)) /\ z.depth = x.depth
        /\ z.stage = Larger(x.stage, TERMINATING)
        /\ z.atexits = Front(x.atexits) /\ z.started = x.started + 1
        /\ z.term = x.term /\ z.worst = x.worst /\ z.registered = x.registered
        /\ z \in [stage : {z.stage}, term : {z.term}, stack : {z.stack},
                  depth : {z.depth}, atexits : {z.atexits},
                  registered : {z.registered}, started : {z.started}, worst : {z.worst}]
    BY DEF SetStage, State
  <2> HIDE DEF z, h
  <2>5. Larger(x.stage, TERMINATING) \in Stages
    BY LargerFact DEF State, Stages
  <2>6. x.started + 1 \in Nat
    BY DEF State
  <2>7. z \in State
    BY <2>2, <2>3, <2>4, <2>5, <2>6 DEF State
  <2>8. Onward(z, NextRoot(x))
    BY <2>1, <2>7, RunExternalOnward
  <2>9. z.stage # INITIALIZING
    BY <2>4, NameFact DEF State
  <2> QED
    BY <1>2, <2>2, <2>4, <2>8, <2>9 DEF Ended, Onward
<1>3. CASE /\ x.stage # INITIALIZING /\ (x.stage = FINISHED \/ x.atexits = <<>>)
           /\ EndOfStep(x) = NextRoot(x)
  <2>1. NextRoot(x) = Finish(x, NORMAL)
    BY <1>3 DEF NextRoot
  <2> QED
    BY <1>3, <2>1, FinishOnward DEF Ended, Onward
<1>4. CASE EndOfStep(x) = x
  BY <1>4 DEF Ended
<1> QED
  BY <1>1, <1>2, <1>3, <1>4 DEF EndOfStep

----------------------------------------------------------------------------
(* A whole step.                                                            *)

\* What a step has at hand before its end: the stack as it was, without its top
\* frame, or with one frame more, and then perhaps frozen by exit.
AtHand(x) ==
    /\ x \in State
    /\ \/ x.stack = stack /\ x.depth = exitDepth
       \/ x.stack = Front(stack) /\ x.depth = exitDepth
       \/ \E f \in Functions :
             /\ x.stack = Append(stack, Called(f))
             /\ x.depth = exitDepth \/ x.depth = Len(x.stack)
    /\ x.stage = INITIALIZING =>
          stage = INITIALIZING /\ x.depth = exitDepth /\ x.started = started

\* The next state is what the end of the step makes of it.
LEMMA BecomeEnded ==
    ASSUME NEW x \in State, Become(EndOfStep(x))
    PROVE  Ended(x, Now')
<1> DEFINE y == EndOfStep(x)
<1>1. Ended(x, y)
  BY EndOfStepShape
<1>2. /\ Now'.stack = y.stack /\ Now'.depth = y.depth
      /\ Now'.stage = y.stage /\ Now'.started = y.started
  BY DEF Become, Now
<1> HIDE DEF y
<1> QED
  BY <1>1, <1>2 DEF Ended

LEMMA StepShape ==
    ASSUME NowSettled, Step
    PROVE  /\ stage # FINISHED /\ stack # <<>>
           /\ \E x : AtHand(x) /\ Ended(x, Now')
<1> DEFINE Goal == \E x : AtHand(x) /\ Ended(x, Now')
<1>1. /\ Now \in State /\ stack \in Seq(Frame) /\ exitDepth \in Nat
      /\ stage # FINISHED /\ stack # <<>>
  BY NowFields DEF NowSettled, Settled, State, Step, StepOther, StepInvalid, StepHalt,
     StepDefect, StepCall, StepRet, TimeOut, InFunction, Running, done
<1> SUFFICES Goal
  BY <1>1
<1>2. ASSUME NEW x \in State, AtHand(x), Become(EndOfStep(x)) PROVE Goal
  BY <1>2, BecomeEnded
<1>3. AtHand(Now)
  BY <1>1, NowFields DEF AtHand
<1>4. ASSUME NEW t \in {ERROR, CRASH}
      PROVE  /\ Finish(Now, t) \in State /\ AtHand(Finish(Now, t))
             /\ EndOfStep(Finish(Now, t)) = Finish(Now, t)
  <2>1. t \in Verdicts
    BY DEF Verdicts
  <2>2. Finish(Now, t) \in State /\ Finish(Now, t).stage = FINISHED
    BY <1>1, <2>1, FinishType
  <2>3. Finish(Now, t).stack = stack /\ Finish(Now, t).depth = exitDepth
    BY <1>1, FinishOnward, NowFields DEF Onward
  <2> QED
    BY <2>2, <2>3, NameFact DEF AtHand, EndOfStep
<1>5. CASE StepOther
  BY <1>1, <1>2, <1>3, <1>5 DEF StepOther
<1>6. CASE StepInvalid \/ StepDefect \/ TimeOut
  <2>1. Become(Finish(Now, ERROR)) \/ Become(Finish(Now, CRASH))
    BY <1>6 DEF StepInvalid, StepDefect, TimeOut
  <2> QED
    BY <1>2, <1>4, <2>1
<1>7. CASE StepHalt
  BY <1>2, <1>4, <1>7 DEF StepHalt
<1>8. ASSUME NEW f \in Functions, NEW arg, StepCall(f, arg),
             arg \in Functions => arg \in Handlers
      PROVE  Goal
  <2> DEFINE c == [Now EXCEPT !.stack = Append(stack, Called(f))]
             y == RunExternal(c, f, arg)
  <2>1. Become(EndOfStep(y))
    BY <1>8, NowFields DEF StepCall
  <2>2. Append(stack, Called(f)) \in Seq(Frame)
    BY <1>1, FrameFact, AppendProperties
  <2>3. /\ c \in State /\ c.stack = Append(stack, Called(f)) /\ c.depth = exitDepth
        /\ c.stage = stage /\ c.started = started
    BY <1>1, <2>2, NowFields DEF State
  <2> HIDE DEF c
  <2>4. Onward(c, y)
    BY <2>3, RunExternalOnward
  <2>5. y \in State
    BY <1>8, <2>3, RunExternalType
  <2> HIDE DEF y
  <2>6. AtHand(y)
    BY <2>3, <2>4, <2>5 DEF AtHand, Onward
  <2> QED
    BY <1>2, <2>1, <2>5, <2>6
<1>9. CASE StepRet
  <2> DEFINE c == [Now EXCEPT !.stack = Front(stack)]
  <2>1. Become(EndOfStep(c))
    BY <1>9, NowFields DEF StepRet
  <2>2. Front(stack) \in Seq(Frame)
    BY <1>1, PopFact
  <2>3. /\ c \in State /\ c.stack = Front(stack) /\ c.depth = exitDepth
        /\ c.stage = stage /\ c.started = started
    BY <1>1, <2>2, NowFields DEF State
  <2> HIDE DEF c
  <2> QED
    BY <1>2, <2>1, <2>3 DEF AtHand
<1>10. Atexit \in Functions
  BY DEF Functions, External
<1>11. InvalidAddress \notin Functions
  BY FunAssumption DEF Functions, Defined, External, Main, Init0, Exit, Atexit, Abort,
        InvalidAddress
<1> HIDE DEF Goal
<1>12. CASE \E f \in Functions \ {Init0, Atexit} : StepCall(f, InvalidAddress)
  <2>1. PICK f \in Functions : StepCall(f, InvalidAddress)
    BY <1>12
  <2> QED
    BY ONLY <1>8, <1>11, <2>1
<1>13. CASE \E h \in Handlers \cup {InvalidAddress} : StepCall(Atexit, h)
  <2>1. PICK h \in Handlers \cup {InvalidAddress} : StepCall(Atexit, h)
    BY <1>13
  <2>2. h \in Functions => h \in Handlers
    BY <1>11, <2>1
  <2> QED
    BY ONLY <1>8, <1>10, <2>1, <2>2
<1> QED
  BY <1>5, <1>6, <1>7, <1>9, <1>12, <1>13 DEF Step

----------------------------------------------------------------------------
(* The theorems.                                                            *)

\* A new main frame needs a step that pushed a root in the first stage.
LEMMA MainPushed ==
    ASSUME NowSettled, Fresh(Now), Step
    PROVE  /\ Fresh(Now)'
           /\ ~MainRuns /\ MainRuns' =>
                 stage = INITIALIZING /\ started = 0 /\ exitDepth' = 0
<1>1. PICK x : AtHand(x) /\ Ended(x, Now')
  BY StepShape
<1>2. /\ stack \in Seq(Frame) /\ stack # <<>> /\ x.stack \in Seq(Frame)
  BY <1>1, StepShape, NowFields DEF NowSettled, Settled, State, AtHand
<1>3. /\ Now'.stack = stack' /\ Now'.depth = exitDepth'
      /\ Now'.stage = stage' /\ Now'.started = started'
  BY DEF Now
<1>4. x.stage = INITIALIZING => stage = INITIALIZING /\ x.started = 0 /\ x.depth = 0 /\ started = 0
  BY <1>1, NowFields DEF AtHand, Fresh
<1>5. Fresh(Now)'
  <2> SUFFICES ASSUME Now'.stage = INITIALIZING
               PROVE  Now'.started = 0 /\ Now'.depth = 0
    BY DEF Fresh
  <2> QED
    BY <1>1, <1>4 DEF Ended
<1>6. ASSUME NEW i \in DOMAIN x.stack, x.stack[i] = Pushed(Main) PROVE MainRuns
  <2>1. DOMAIN x.stack = 1 .. Len(x.stack) /\ DOMAIN stack = 1 .. Len(stack)
        /\ Len(stack) \in Nat
    BY <1>2, LenProperties
  <2>2. CASE x.stack = stack
    BY <1>6, <2>2 DEF MainRuns
  <2>3. CASE x.stack = Front(stack)
    <3>1. i \in 1 .. Len(stack) - 1 /\ stack[i] = x.stack[i]
      BY <1>2, <2>1, <2>3, PopFact
    <3> QED
      BY <1>6, <2>1, <3>1 DEF MainRuns
  <2>4. ASSUME NEW f \in Functions, x.stack = Append(stack, Called(f)) PROVE MainRuns
    <3>1. Called(f) # Pushed(Main) /\ Called(f) \in Frame
      BY FrameFact DEF Called, Pushed
    <3>2. i \in DOMAIN stack /\ x.stack[i] = stack[i]
      BY <1>2, <1>6, <2>4, <3>1, PushFact
    <3> QED
      BY <1>6, <3>2 DEF MainRuns
  <2> QED
    BY <1>1, <2>2, <2>3, <2>4 DEF AtHand
<1>7. ASSUME ~MainRuns, MainRuns'
      PROVE  stage = INITIALIZING /\ started = 0 /\ exitDepth' = 0
  <2>1. PICK j \in DOMAIN stack' : stack'[j] = Pushed(Main)
    BY <1>7 DEF MainRuns
  <2>2. stack' # x.stack
    BY <1>6, <1>7, <2>1
  <2>3. ASSUME NEW h \in Handlers, stack' = Append(x.stack, Pushed(h)) PROVE FALSE
    <3>1. Pushed(h) # Pushed(Main) /\ Pushed(h) \in Frame
      BY NameFact, FrameFact DEF Pushed
    <3>2. j \in DOMAIN x.stack /\ x.stack[j] = stack'[j]
      BY <1>2, <2>1, <2>3, <3>1, PushFact
    <3> QED
      BY <1>6, <1>7, <2>1, <3>2
  <2>4. x.stage = INITIALIZING /\ exitDepth' = x.depth
    BY <1>1, <1>3, <2>2, <2>3 DEF Ended
  <2> QED
    BY <1>4, <2>4
<1> QED
  BY <1>5, <1>7

\* main is started once, by step(), when the static initializer returned; no
\* call of exit and no handler comes before it.
THEOREM MainStarted == Spec => MainStartsOnce
<1> DEFINE J == IInv /\ Fresh(Now)
           A == ~MainRuns /\ MainRuns' =>
                    stage = INITIALIZING /\ started = 0 /\ exitDepth' = 0
<1>1. Init => J
  BY InitFact, NowFields DEF Init, Fresh
<1>2. J /\ [Next]_vars => J' /\ [A]_vars
  <2> SUFFICES ASSUME J, [Next]_vars PROVE J' /\ [A]_vars
    OBVIOUS
  <2>1. IInv'
    BY NextEffect
  <2>2. CASE Step
    BY <2>1, <2>2, MainPushed DEF IInv
  <2>3. CASE Expire \/ UNCHANGED vars
    <3>1. Now' = Now /\ stack' = stack
      BY <2>3 DEF Expire, vars, exec, hist, Now
    <3>2. Fresh(Now)'
      BY <3>1 DEF Fresh
    <3>3. MainRuns' => MainRuns
      BY <3>1 DEF MainRuns
    <3> QED
      BY <2>1, <3>2, <3>3
  <2> QED
    BY <2>2, <2>3 DEF Next
<1> HIDE DEF J
<1>3. [A]_vars = [~MainRuns /\ MainRuns' =>
            stage = INITIALIZING /\ started = 0 /\ exitDepth' = 0]_vars
  OBVIOUS
<1> QED
  BY <1>1, <1>2, PTL DEF Spec, MainStartsOnce

\* Two stacks that agree up to a place have the same frames up to it.
LEMMA SameFrames ==
    ASSUME NEW s \in Seq(Frame), NEW t \in Seq(Frame), NEW n \in Nat,
           n <= Len(s), n <= Len(t), \A i \in 1 .. n : s[i] = t[i]
    PROVE  SubSeq(s, 1, n) = SubSeq(t, 1, n)
OBVIOUS

\* A step leaves the frames below the exit depth alone, and never lowers it.
LEMMA StepFreezes ==
    ASSUME NowSettled, NowStanding, Step, NowSettled'
    PROVE  /\ exitDepth <= exitDepth' /\ exitDepth <= Len(stack')
           /\ SubSeq(stack', 1, exitDepth) = SubSeq(stack, 1, exitDepth)
<1>1. PICK x : AtHand(x) /\ Ended(x, Now')
  BY StepShape
<1>2. /\ stack \in Seq(Frame) /\ stack # <<>> /\ x.stack \in Seq(Frame)
      /\ exitDepth \in Nat /\ stack' \in Seq(Frame)
  <2>1. stack' \in Seq(Frame)
    BY DEF NowSettled, Settled, State, Now
  <2> QED
    BY <1>1, <2>1, StepShape, NowFields DEF NowSettled, Settled, State, AtHand
<1>3. /\ exitDepth < Len(stack) /\ Len(stack) \in Nat /\ Len(x.stack) \in Nat
      /\ DOMAIN x.stack = 1 .. Len(x.stack) /\ DOMAIN stack = 1 .. Len(stack)
  BY <1>2, StepShape, NowFields, LenProperties DEF NowStanding, Standing
<1>4. /\ Now'.stack = stack' /\ Now'.depth = exitDepth'
  BY DEF Now
<1> DEFINE Below(s, d) == /\ exitDepth <= Len(s) /\ exitDepth <= d
                         /\ \A i \in 1 .. exitDepth : s[i] = stack[i]
<1>5. Below(x.stack, x.depth)
  <2>1. CASE x.stack = stack /\ x.depth = exitDepth
    BY <1>2, <1>3, <2>1
  <2>2. CASE x.stack = Front(stack) /\ x.depth = exitDepth
    <3>1. /\ Len(x.stack) = Len(stack) - 1
          /\ \A i \in 1 .. Len(stack) - 1 : x.stack[i] = stack[i]
      BY <1>2, <2>2, PopFact
    <3> QED
      BY <1>2, <1>3, <2>2, <3>1
  <2>3. ASSUME NEW f \in Functions, x.stack = Append(stack, Called(f)),
               x.depth = exitDepth \/ x.depth = Len(x.stack)
        PROVE  Below(x.stack, x.depth)
    <3>1. /\ Len(x.stack) = Len(stack) + 1
          /\ \A i \in 1 .. Len(stack) : x.stack[i] = stack[i]
      BY <1>2, <1>3, <2>3, FrameFact, PushFact
    <3> QED
      BY <1>2, <1>3, <2>3, <3>1
  <2> QED
    BY <1>1, <2>1, <2>2, <2>3 DEF AtHand
<1>6. Below(stack', exitDepth')
  <2>1. CASE stack' = x.stack /\ exitDepth' = x.depth
    BY <1>5, <2>1
  <2>2. ASSUME NEW h \in Functions, stack' = Append(x.stack, Pushed(h)),
               exitDepth' = x.depth \/ exitDepth' = Len(stack')
        PROVE  Below(stack', exitDepth')
    <3>1. /\ Len(stack') = Len(x.stack) + 1
          /\ \A i \in 1 .. Len(x.stack) : stack'[i] = x.stack[i]
      BY <1>2, <1>3, <2>2, FrameFact, PushFact
    <3> QED
      BY <1>2, <1>3, <1>5, <2>2, <3>1
  <2> QED
    BY <1>1, <1>4, <2>1, <2>2, NameFact DEF Ended
<1> QED
  BY <1>2, <1>3, <1>6, SameFrames

\* The frames that were on the stack when exit was called stay, as they were,
\* provided the program does not register exit as a handler.
THEOREM FramesFrozen == ASSUME Exit \notin Handlers
                        PROVE  Spec => ExitFreezes
<1> DEFINE J == IInv /\ NowStanding
           A == /\ exitDepth <= exitDepth' /\ exitDepth <= Len(stack')
                /\ SubSeq(stack', 1, exitDepth) = SubSeq(stack, 1, exitDepth)
<1>1. Init => J
  BY InitFact
<1>2. J /\ [Next]_vars => J' /\ [A]_vars
  <2> SUFFICES ASSUME J, [Next]_vars PROVE J' /\ [A]_vars
    OBVIOUS
  <2>1. J'
    BY NextEffect
  <2>2. CASE Step
    BY <2>1, <2>2, StepFreezes DEF IInv
  <2>3. CASE Expire
    <3>1. stack' = stack /\ exitDepth' = exitDepth
      BY <2>3 DEF Expire, exec
    <3>2. exitDepth <= Len(stack) /\ exitDepth \in Nat
      <4>1. stage # FINISHED
        BY <2>3 DEF Expire, done
      <4>2. stack \in Seq(Frame) /\ exitDepth \in Nat /\ exitDepth < Len(stack)
        BY <4>1, NowFields DEF IInv, NowSettled, Settled, State, NowStanding, Standing
      <4> QED
        BY <4>2, LenProperties
    <3> QED
      BY <2>1, <3>1, <3>2
  <2> QED
    BY <2>1, <2>2, <2>3 DEF Next
<1> HIDE DEF J
<1> QED
  BY <1>1, <1>2, PTL DEF Spec, ExitFreezes

(****************************************************************************)
(* The order of the handlers: the names in atexits are those of the         *)
(* registrations that wait, in their order. No step both registers a        *)
(* handler and starts one, since CALL leaves a frame above the exit depth.  *)
(****************************************************************************)

Request == [fn : Handlers, after : Nat, turn : Nat]

\* Whatever was registered before a handler started waits until it returned.
LastFirst(rq) ==
    \A i, j \in DOMAIN rq :
        i < j /\ rq[i].turn > 0 /\ rq[j].after < rq[i].turn =>
            rq[j].turn \in 1 .. rq[i].turn - 1

\* The registrations that wait are at the places pos, in order.
WaitAt(rq, atx, pos) ==
    /\ pos \in [1 .. Len(atx) -> DOMAIN rq]
    /\ \A i, j \in 1 .. Len(atx) : i < j => pos[i] < pos[j]
    /\ \A i \in 1 .. Len(atx) : rq[pos[i]].fn = atx[i] /\ rq[pos[i]].turn = 0
    /\ \A k \in DOMAIN rq : rq[k].turn = 0 => \E i \in 1 .. Len(atx) : pos[i] = k

Kept(rq, atx, reg, sta) ==
    /\ rq \in Seq(Request) /\ Len(rq) = reg
    /\ \A k \in DOMAIN rq : rq[k].after <= sta /\ rq[k].turn <= sta
    /\ \E pos : WaitAt(rq, atx, pos)
    /\ LastFirst(rq)

Recorded == Kept(requests, atexits, registered, started)

\* What a step may do to the handlers.
Same(x, y) == /\ y.atexits = x.atexits /\ y.registered = x.registered
              /\ y.started = x.started
Registers(x, y) == /\ y.registered = x.registered + 1 /\ y.started = x.started
                   /\ \E h \in Handlers : y.atexits = Append(x.atexits, h)
Starts(x, y) == /\ y.registered = x.registered /\ y.started = x.started + 1
                /\ x.atexits # <<>> /\ y.atexits = Front(x.atexits)
                /\ Last(y.stack).fn = Last(x.atexits)

\* No return goes more than one frame below the exit depth.
Deep(x) == x.stage # FINISHED => x.depth <= Len(x.stack)
NowDeep == Deep(Now)

LEMMA FinishOrder ==
    ASSUME NEW x \in State, NEW t \in Verdicts
    PROVE  /\ Finish(x, t) \in State /\ Same(x, Finish(x, t)) /\ Deep(Finish(x, t))
           /\ Finish(x, t).stage = FINISHED
<1>1. Finish(x, t) \in State /\ Finish(x, t).stage = FINISHED
  BY FinishType
<1>2. Same(x, Finish(x, t))
  BY DEF Same, Finish, SetTermination, SetStage, State
<1> QED
  BY <1>1, <1>2 DEF Deep

\* Of the external functions, only atexit registers a handler.
LEMMA RunExternalOrder ==
    ASSUME NEW x \in State, NEW f, NEW arg, arg \in Functions => arg \in Handlers
    PROVE  LET y == RunExternal(x, f, arg) IN
           /\ y \in State /\ y.stack = x.stack
           /\ y.depth = x.depth \/ y.depth = Len(x.stack)
           /\ \/ Same(x, y)
              \/ Registers(x, y) /\ y.depth = x.depth /\ arg \in Functions
<1>1. RunExternal(x, f, arg) \in State /\ Onward(x, RunExternal(x, f, arg))
  BY RunExternalType, RunExternalOnward
<1>2. Same(x, StdExit(x))
  BY DEF Same, StdExit, SetTermination, SetStage, State
<1>3. \/ Same(x, StdAtexit(x, arg))
      \/ /\ Registers(x, StdAtexit(x, arg)) /\ arg \in Functions
         /\ StdAtexit(x, arg).depth = x.depth
  <2>1. CASE arg \in Functions
    <3>1. StdAtexit(x, arg) =
             [x EXCEPT !.atexits = Append(x.atexits, arg), !.registered = x.registered + 1]
      BY <2>1 DEF StdAtexit, State
    <3>2. /\ StdAtexit(x, arg).atexits = Append(x.atexits, arg)
          /\ StdAtexit(x, arg).registered = x.registered + 1
          /\ StdAtexit(x, arg).started = x.started
          /\ StdAtexit(x, arg).depth = x.depth
      BY <3>1 DEF State
    <3> QED
      BY <2>1, <3>2 DEF Registers
  <2>2. CASE arg \notin Functions
    BY <2>2 DEF StdAtexit, SetTermination, Same, State
  <2> QED
    BY <2>1, <2>2
<1>4. Same(x, StdAbort(x))
  BY DEF Same, StdAbort, Finish, SetTermination, SetStage, State
<1>5. Same(x, x)
  BY DEF Same
<1>6. \/ Same(x, RunExternal(x, f, arg))
      \/ /\ Registers(x, RunExternal(x, f, arg)) /\ arg \in Functions
         /\ RunExternal(x, f, arg).depth = x.depth
  BY <1>2, <1>3, <1>4, <1>5 DEF RunExternal
<1> QED
  BY <1>1, <1>6 DEF Onward

\* The end of a step starts at most one handler, the last of the list.
LEMMA EndOfStepOrder ==
    ASSUME NEW x \in State, x.stage # FINISHED => x.depth <= Len(x.stack) + 1
    PROVE  /\ EndOfStep(x) \in State /\ Deep(EndOfStep(x))
           /\ \/ Same(x, EndOfStep(x))
              \/ Starts(x, EndOfStep(x)) /\ Len(x.stack) <= x.depth
<1>0. /\ Len(x.stack) \in Nat /\ x.depth \in Nat /\ x.stack \in Seq(Frame)
      /\ EXECUTING \in Stages /\ TERMINATING \in Stages /\ NORMAL \in Verdicts
      /\ InvalidAddress \notin Functions
  BY LenProperties, FunAssumption DEF State, Stages, Verdicts, Functions, Defined, External,
     Main, Init0, Exit, Atexit, Abort, InvalidAddress
<1>1. CASE ~(x.stage # FINISHED /\ Len(x.stack) <= x.depth)
  BY <1>0, <1>1 DEF EndOfStep, Deep, Same
<1>2. CASE x.stage # FINISHED /\ Len(x.stack) <= x.depth /\ x.stage = INITIALIZING
  <2> DEFINE s == SetStage(x, EXECUTING)
             y == [s EXCEPT !.stack = Append(s.stack, Pushed(Main))]
  <2>1. EndOfStep(x) = y
    BY <1>2 DEF EndOfStep, NextRoot
  <2>2. s \in State /\ s.stack = x.stack /\ s.depth = x.depth /\ Same(x, s)
    <3>1. s \in State
      BY <1>0, SetStageType
    <3> QED
      BY <3>1 DEF SetStage, Same, State
  <2> HIDE DEF s
  <2>3. Append(x.stack, Pushed(Main)) \in Seq(Frame) /\ Len(Append(x.stack, Pushed(Main))) = Len(x.stack) + 1
    BY <1>0, FrameFact, NameFact, AppendProperties
  <2>4. /\ y \in State /\ y.stack = Append(x.stack, Pushed(Main)) /\ y.depth = x.depth
        /\ y.atexits = s.atexits /\ y.registered = s.registered /\ y.started = s.started
    BY <2>2, <2>3 DEF State
  <2> HIDE DEF y
  <2>5. Deep(y)
    BY <1>0, <1>2, <2>3, <2>4 DEF Deep
  <2> QED
    BY <2>1, <2>2, <2>4, <2>5 DEF Same
<1>3. CASE /\ x.stage # FINISHED /\ Len(x.stack) <= x.depth
           /\ x.stage # INITIALIZING /\ x.atexits # <<>>
  <2> DEFINE h == Last(x.atexits)
             s == SetStage(x, TERMINATING)
             z == [s EXCEPT !.stack = Append(s.stack, Pushed(h)),
                            !.atexits = Front(s.atexits), !.started = s.started + 1]
             y == RunExternal(z, h, InvalidAddress)
  <2>1. EndOfStep(x) = y
    BY <1>3 DEF EndOfStep, NextRoot
  <2>2. s \in State /\ s.stack = x.stack /\ s.depth = x.depth /\ Same(x, s)
    <3>1. s \in State
      BY <1>0, SetStageType
    <3> QED
      BY <3>1 DEF SetStage, Same, State
  <2>3. h \in Handlers /\ h \in Functions /\ Front(x.atexits) \in Seq(Handlers)
    BY <1>3, PopFact, NameFact DEF State
  <2> HIDE DEF s, h
  <2>4. /\ Pushed(h) \in Frame /\ Pushed(h).fn = h
        /\ Append(x.stack, Pushed(h)) \in Seq(Frame)
        /\ Len(Append(x.stack, Pushed(h))) = Len(x.stack) + 1
        /\ Append(x.stack, Pushed(h))[Len(x.stack) + 1] = Pushed(h)
    BY <1>0, <2>3, FrameFact, AppendProperties DEF Pushed
  <2>5. Last(Append(x.stack, Pushed(h))).fn = h
    BY <2>4 DEF Last
  <2>6. s.atexits = x.atexits /\ s.started = x.started /\ s.registered = x.registered
        /\ x.started + 1 \in Nat
    BY <2>2 DEF Same, State
  <2>7. z = [s EXCEPT !.stack = Append(x.stack, Pushed(h)),
                      !.atexits = Front(x.atexits), !.started = x.started + 1]
    BY <2>2, <2>6
  <2> HIDE DEF z
  <2>8. /\ z \in State /\ z.stack = Append(x.stack, Pushed(h)) /\ z.depth = x.depth
        /\ z.atexits = Front(x.atexits) /\ z.started = x.started + 1
        /\ z.registered = x.registered
    <3>1. z \in State
      BY <2>2, <2>3, <2>4, <2>6, <2>7 DEF State
    <3>2. /\ z.stack = Append(x.stack, Pushed(h)) /\ z.depth = s.depth
          /\ z.atexits = Front(x.atexits) /\ z.started = x.started + 1
          /\ z.registered = s.registered
      BY <2>2, <2>7 DEF State
    <3> QED
      BY <2>2, <2>6, <3>1, <3>2
  <2>9. Starts(x, z)
    BY <1>3, <2>5, <2>8 DEF Starts, h
  <2>10. /\ y \in State /\ y.stack = z.stack
         /\ y.depth = z.depth \/ y.depth = Len(z.stack)
         /\ Same(z, y)
    BY <1>0, <2>8, RunExternalOrder
  <2> HIDE DEF y
  <2>11. Deep(y)
    BY <1>0, <1>3, <2>4, <2>8, <2>10 DEF Deep
  <2>12. Starts(x, y)
    BY <2>9, <2>10 DEF Starts, Same
  <2> QED
    BY <1>3, <2>1, <2>10, <2>11, <2>12
<1>4. CASE /\ x.stage # FINISHED /\ Len(x.stack) <= x.depth
           /\ x.stage # INITIALIZING /\ x.atexits = <<>>
  <2>1. EndOfStep(x) = Finish(x, NORMAL)
    BY <1>4 DEF EndOfStep, NextRoot
  <2> QED
    BY <1>0, <2>1, FinishOrder
<1> QED
  BY <1>1, <1>2, <1>3, <1>4

\* A step does one thing to the handlers.
LEMMA StepOrder ==
    ASSUME NowSettled, NowDeep, Step
    PROVE  \E y \in State : /\ Become(y) /\ Deep(y)
                            /\ Same(Now, y) \/ Registers(Now, y) \/ Starts(Now, y)
<1> DEFINE Goal == \E y \in State :
                      /\ Become(y) /\ Deep(y)
                      /\ Same(Now, y) \/ Registers(Now, y) \/ Starts(Now, y)
<1> SUFFICES Goal
  OBVIOUS
<1>1. /\ Now \in State /\ stack \in Seq(Frame) /\ exitDepth \in Nat
      /\ stage # FINISHED /\ stack # <<>>
      /\ Len(stack) \in Nat \ {0} /\ exitDepth <= Len(stack)
  <2>1. Now \in State /\ stage # FINISHED /\ stack # <<>>
    BY StepShape DEF NowSettled, Settled
  <2>2. stack \in Seq(Frame) /\ exitDepth \in Nat
    BY <2>1, NowFields DEF State
  <2> QED
    BY <2>1, <2>2, PopFact, NowFields DEF NowDeep, Deep
<1>2. ASSUME NEW x \in State, x.stage # FINISHED => x.depth <= Len(x.stack) + 1,
             Same(Now, x), Become(EndOfStep(x))
      PROVE  Goal
  <2>1. /\ EndOfStep(x) \in State /\ Deep(EndOfStep(x))
        /\ Same(x, EndOfStep(x)) \/ Starts(x, EndOfStep(x))
    BY <1>2, EndOfStepOrder
  <2>2. Same(Now, EndOfStep(x)) \/ Starts(Now, EndOfStep(x))
    BY <1>2, <2>1 DEF Same, Starts
  <2> QED
    BY <1>2, <2>1, <2>2
<1>3. ASSUME NEW t \in {ERROR, CRASH}
      PROVE  /\ Become(Finish(Now, t)) => Goal
             /\ Become(EndOfStep(Finish(Now, t))) => Goal
  <2>1. t \in Verdicts
    BY DEF Verdicts
  <2>2. /\ Finish(Now, t) \in State /\ Same(Now, Finish(Now, t))
        /\ Deep(Finish(Now, t)) /\ Finish(Now, t).stage = FINISHED
    BY <1>1, <2>1, FinishOrder
  <2> QED
    BY <1>2, <2>2
<1>4. CASE StepOther
  <2>1. Same(Now, Now) /\ Become(EndOfStep(Now)) /\ Now.depth <= Len(Now.stack) + 1
    BY <1>1, <1>4, NowFields DEF StepOther, Same
  <2> QED
    BY <1>1, <1>2, <2>1
<1>5. CASE StepInvalid \/ StepDefect \/ TimeOut
  BY <1>3, <1>5 DEF StepInvalid, StepDefect, TimeOut
<1>6. CASE StepHalt
  BY <1>3, <1>6 DEF StepHalt
<1>7. ASSUME NEW f \in Functions, NEW arg, StepCall(f, arg),
             arg \in Functions => arg \in Handlers
      PROVE  Goal
  <2> DEFINE c == [Now EXCEPT !.stack = Append(stack, Called(f))]
             y == RunExternal(c, f, arg)
  <2>1. Become(EndOfStep(y))
    BY <1>7, NowFields DEF StepCall
  <2>2. /\ Append(stack, Called(f)) \in Seq(Frame)
        /\ Len(Append(stack, Called(f))) = Len(stack) + 1
    BY <1>1, FrameFact, AppendProperties
  <2>3. /\ c \in State /\ c.stack = Append(stack, Called(f)) /\ c.depth = exitDepth
        /\ Same(Now, c)
    BY <1>1, <2>2, NowFields DEF State, Same
  <2> HIDE DEF c
  <2>4. /\ y \in State /\ y.stack = c.stack
        /\ y.depth = c.depth \/ y.depth = Len(c.stack)
        /\ Same(c, y) \/ (Registers(c, y) /\ y.depth = c.depth)
    BY <1>7, <2>3, RunExternalOrder
  <2> HIDE DEF y
  <2>5. y.depth <= Len(y.stack) + 1
    BY <1>1, <2>2, <2>3, <2>4
  <2>6. CASE Same(c, y)
    <3>1. Same(Now, y)
      BY <2>3, <2>6 DEF Same
    <3> QED
      BY <1>2, <2>1, <2>4, <2>5, <3>1
  <2>7. CASE Registers(c, y) /\ y.depth = c.depth
    <3>1. Registers(Now, y)
      BY <2>3, <2>7 DEF Same, Registers
    <3>2. ~(Len(y.stack) <= y.depth)
      BY <1>1, <2>2, <2>3, <2>4, <2>7
    <3>3. /\ EndOfStep(y) \in State /\ Deep(EndOfStep(y)) /\ Same(y, EndOfStep(y))
      BY <2>4, <2>5, <3>2, EndOfStepOrder
    <3>4. Registers(Now, EndOfStep(y))
      BY <3>1, <3>3 DEF Same, Registers
    <3> QED
      BY <2>1, <3>3, <3>4
  <2> QED
    BY <2>4, <2>6, <2>7
<1>8. CASE StepRet
  <2> DEFINE c == [Now EXCEPT !.stack = Front(stack)]
  <2>1. Become(EndOfStep(c))
    BY <1>8, NowFields DEF StepRet
  <2>2. Front(stack) \in Seq(Frame) /\ Len(Front(stack)) = Len(stack) - 1
    BY <1>1, PopFact
  <2>3. /\ c \in State /\ c.stack = Front(stack) /\ c.depth = exitDepth
        /\ Same(Now, c)
    BY <1>1, <2>2, NowFields DEF State, Same
  <2> HIDE DEF c
  <2>4. c.depth <= Len(c.stack) + 1
    BY <1>1, <2>2, <2>3
  <2> QED
    BY <1>2, <2>1, <2>3, <2>4
<1>9. InvalidAddress \notin Functions /\ Atexit \in Functions
  BY FunAssumption DEF Functions, Defined, External, Main, Init0, Exit, Atexit, Abort,
        InvalidAddress
<1> HIDE DEF Goal
<1>10. CASE \E f \in Functions \ {Init0, Atexit} : StepCall(f, InvalidAddress)
  <2>1. PICK f \in Functions : StepCall(f, InvalidAddress)
    BY <1>10
  <2> QED
    BY ONLY <1>7, <1>9, <2>1
<1>11. CASE \E h \in Handlers \cup {InvalidAddress} : StepCall(Atexit, h)
  <2>1. PICK h \in Handlers \cup {InvalidAddress} : StepCall(Atexit, h)
    BY <1>11
  <2>2. h \in Functions => h \in Handlers
    BY <1>9, <2>1
  <2> QED
    BY ONLY <1>7, <1>9, <2>1, <2>2
<1> QED
  BY <1>4, <1>5, <1>6, <1>8, <1>10, <1>11 DEF Step

\* A registration joins at the end of those that wait.
LEMMA KeptRegister ==
    ASSUME NEW rq, NEW atx \in Seq(Handlers), NEW reg \in Nat, NEW sta \in Nat,
           Kept(rq, atx, reg, sta), NEW h \in Handlers
    PROVE  Kept(Append(rq, [fn |-> h, after |-> sta, turn |-> 0]), Append(atx, h), reg + 1, sta)
<1> DEFINE e  == [fn |-> h, after |-> sta, turn |-> 0]
           r2 == Append(rq, e)
           a2 == Append(atx, h)
           n  == Len(atx)
<1>1. /\ e \in Request /\ e.fn = h /\ e.after = sta /\ e.turn = 0
      /\ rq \in Seq(Request) /\ Len(rq) = reg /\ DOMAIN rq = 1 .. reg
  BY LenProperties DEF Kept, Request
<1> HIDE DEF e
<1>2. /\ r2 \in Seq(Request) /\ Len(r2) = reg + 1 /\ DOMAIN r2 = 1 .. reg + 1
      /\ \A k \in 1 .. reg : r2[k] = rq[k]
      /\ r2[reg + 1] = e
  <2>1. r2 \in Seq(Request) /\ Len(r2) = reg + 1
    BY <1>1, AppendProperties
  <2> QED
    BY <1>1, <2>1, AppendProperties, LenProperties
<1>3. /\ n \in Nat /\ Len(a2) = n + 1
      /\ \A i \in 1 .. n : a2[i] = atx[i]
      /\ a2[n + 1] = h
  BY AppendProperties, LenProperties
<1> HIDE DEF r2, a2, n
<1>4. PICK pos : WaitAt(rq, atx, pos)
  BY DEF Kept
<1>5. /\ pos \in [1 .. n -> 1 .. reg]
      /\ \A i, j \in 1 .. n : i < j => pos[i] < pos[j]
      /\ \A i \in 1 .. n : rq[pos[i]].fn = atx[i] /\ rq[pos[i]].turn = 0
      /\ \A k \in 1 .. reg : rq[k].turn = 0 => \E i \in 1 .. n : pos[i] = k
  BY <1>1, <1>4 DEF WaitAt, n
<1> DEFINE p2 == [i \in 1 .. n + 1 |-> IF i = n + 1 THEN reg + 1 ELSE pos[i]]
<1>6. /\ p2 \in [1 .. n + 1 -> 1 .. reg + 1] /\ p2[n + 1] = reg + 1
      /\ \A i \in 1 .. n : p2[i] = pos[i] /\ pos[i] \in 1 .. reg
  BY <1>3, <1>5
<1> HIDE DEF p2
<1>7. WaitAt(r2, a2, p2)
  <2>1. ASSUME NEW i \in 1 .. n + 1, NEW j \in 1 .. n + 1, i < j
        PROVE  p2[i] < p2[j]
    <3>1. i \in 1 .. n /\ p2[i] = pos[i] /\ pos[i] \in 1 .. reg
      BY <1>3, <1>6, <2>1
    <3>2. CASE j = n + 1
      BY <1>6, <3>1, <3>2
    <3>3. CASE j \in 1 .. n
      BY <1>5, <1>6, <2>1, <3>1, <3>3
    <3> QED
      BY <1>3, <3>2, <3>3
  <2>2. ASSUME NEW i \in 1 .. n + 1 PROVE r2[p2[i]].fn = a2[i] /\ r2[p2[i]].turn = 0
    <3>1. CASE i = n + 1
      BY <1>1, <1>2, <1>3, <1>6, <3>1
    <3>2. CASE i \in 1 .. n
      <4>1. p2[i] = pos[i] /\ pos[i] \in 1 .. reg /\ r2[p2[i]] = rq[pos[i]]
        BY <1>2, <1>6, <3>2
      <4> QED
        BY <1>3, <1>5, <3>2, <4>1
    <3> QED
      BY <1>3, <3>1, <3>2
  <2>3. ASSUME NEW k \in 1 .. reg + 1, r2[k].turn = 0
        PROVE  \E i \in 1 .. n + 1 : p2[i] = k
    <3>1. CASE k = reg + 1
      BY <1>3, <1>6, <3>1
    <3>2. CASE k \in 1 .. reg
      <4>1. PICK i \in 1 .. n : pos[i] = k
        BY <1>2, <1>5, <2>3, <3>2
      <4> QED
        BY <1>3, <1>6, <4>1
    <3> QED
      BY <3>1, <3>2
  <2> QED
    BY <1>2, <1>3, <1>6, <2>1, <2>2, <2>3 DEF WaitAt
<1>8. /\ \A k \in 1 .. reg : rq[k].after <= sta /\ rq[k].turn <= sta
      /\ LastFirst(rq)
      /\ \A k \in 1 .. reg : rq[k].after \in Nat /\ rq[k].turn \in Nat
  <2>1. \A k \in 1 .. reg : rq[k] \in Request
    BY <1>1, ElementOfSeq
  <2> QED
    BY <1>1, <2>1 DEF Kept, Request
<1>9. \A k \in 1 .. reg + 1 : r2[k].after <= sta /\ r2[k].turn <= sta
  BY <1>1, <1>2, <1>8
<1>10. LastFirst(r2)
  <2> SUFFICES ASSUME NEW i \in 1 .. reg + 1, NEW j \in 1 .. reg + 1,
                      i < j, r2[i].turn > 0, r2[j].after < r2[i].turn
               PROVE  r2[j].turn \in 1 .. r2[i].turn - 1
    BY <1>2 DEF LastFirst
  <2>1. i \in 1 .. reg
    OBVIOUS
  <2>2. CASE j = reg + 1
    BY <1>1, <1>2, <1>8, <2>1, <2>2
  <2>3. CASE j \in 1 .. reg
    BY <1>1, <1>2, <1>8, <2>1, <2>3 DEF LastFirst
  <2> QED
    BY <2>2, <2>3
<1> QED
  BY <1>2, <1>7, <1>9, <1>10 DEF Kept, r2, a2, e

\* The handler that starts is the one registered last among those that wait.
LEMMA KeptStart ==
    ASSUME NEW rq, NEW atx \in Seq(Handlers), NEW reg \in Nat, NEW sta \in Nat,
           Kept(rq, atx, reg, sta), atx # <<>>
    PROVE  LET m == Max({k \in {k \in DOMAIN rq : rq[k].turn = 0} : rq[k].fn = Last(atx)})
           IN  Kept([rq EXCEPT ![m].turn = sta + 1], Front(atx), reg, sta + 1)
<1> DEFINE n == Len(atx)
           W == {k \in {k \in DOMAIN rq : rq[k].turn = 0} : rq[k].fn = Last(atx)}
<1>1. rq \in Seq(Request) /\ Len(rq) = reg /\ DOMAIN rq = 1 .. reg
  BY LenProperties DEF Kept
<1>2. \A k \in 1 .. reg : rq[k] \in Request /\ rq[k].after \in Nat /\ rq[k].turn \in Nat
  <2>1. \A k \in 1 .. reg : rq[k] \in Request
    BY <1>1, ElementOfSeq
  <2> QED
    BY <2>1 DEF Request
<1>3. /\ n \in Nat \ {0} /\ Last(atx) = atx[n] /\ Len(Front(atx)) = n - 1
      /\ \A i \in 1 .. n - 1 : Front(atx)[i] = atx[i]
  BY PopFact
<1> HIDE DEF n
<1>4. PICK pos : WaitAt(rq, atx, pos)
  BY DEF Kept
<1>5. /\ pos \in [1 .. n -> 1 .. reg]
      /\ \A i, j \in 1 .. n : i < j => pos[i] < pos[j]
      /\ \A i \in 1 .. n : rq[pos[i]].fn = atx[i] /\ rq[pos[i]].turn = 0
      /\ \A k \in 1 .. reg : rq[k].turn = 0 => \E i \in 1 .. n : pos[i] = k
  BY <1>1, <1>4 DEF WaitAt, n
<1>6. n \in 1 .. n /\ pos[n] \in 1 .. reg /\ \A i \in 1 .. n - 1 : i \in 1 .. n /\ i < n
  BY <1>3, <1>5
<1>7. \A k \in 1 .. reg : rq[k].turn = 0 => k <= pos[n]
  <2> SUFFICES ASSUME NEW k \in 1 .. reg, rq[k].turn = 0 PROVE k <= pos[n]
    OBVIOUS
  <2>1. PICK i \in 1 .. n : pos[i] = k
    BY <1>5
  <2>2. i = n \/ i < n
    BY <1>3
  <2> QED
    BY <1>5, <1>6, <2>1, <2>2
<1>8. Max(W) = pos[n]
  <2>1. pos[n] \in W /\ \A y \in W : pos[n] >= y /\ y \in 1 .. reg
    BY <1>1, <1>3, <1>5, <1>6, <1>7
  <2> HIDE DEF W
  <2>2. Max(W) = CHOOSE x \in W : \A y \in W : x >= y
    BY DEF Max
  <2>3. Max(W) \in W /\ \A y \in W : Max(W) >= y
    BY <2>1, <2>2, Zenon
  <2>4. Max(W) >= pos[n] /\ pos[n] >= Max(W) /\ Max(W) \in 1 .. reg
    BY <2>1, <2>3
  <2> QED
    BY <1>6, <2>4
<1> DEFINE q  == pos[n]
           r2 == [rq EXCEPT ![q].turn = sta + 1]
           a2 == Front(atx)
<1> HIDE DEF W
<1>9. /\ q \in 1 .. reg /\ q = pos[n] /\ rq[q].turn = 0
  BY <1>5, <1>6
<1> HIDE DEF q
<1>10. /\ DOMAIN r2 = 1 .. reg
       /\ \A k \in 1 .. reg : k # q => r2[k] = rq[k]
       /\ r2[q] = [rq[q] EXCEPT !.turn = sta + 1]
  BY <1>1, <1>9
<1> HIDE DEF r2
<1>11. r2[q] \in Request /\ r2[q].turn = sta + 1 /\ r2[q].after = rq[q].after /\ r2[q].fn = rq[q].fn
  BY <1>2, <1>9, <1>10 DEF Request
<1>12. r2 \in Seq(Request) /\ Len(r2) = reg
  <2>1. \A k \in 1 .. reg : r2[k] \in Request
    BY <1>2, <1>10, <1>11
  <2>2. r2 = [k \in 1 .. reg |-> r2[k]]
    <3>1. r2 = [rq EXCEPT ![q].turn = sta + 1] /\ rq = [k \in 1 .. reg |-> rq[k]]
      BY <1>1, LenProperties DEF r2
    <3> QED
      BY <1>10, <3>1
  <2>3. r2 \in [1 .. reg -> Request]
    BY <2>1, <2>2
  <2> QED
    BY <1>10, <2>3, SeqDef, LenProperties
<1> DEFINE p2 == [i \in 1 .. n - 1 |-> pos[i]]
<1>13. /\ p2 \in [1 .. n - 1 -> 1 .. reg]
       /\ \A i \in 1 .. n - 1 : p2[i] = pos[i] /\ pos[i] \in 1 .. reg /\ pos[i] # q
  <2>1. ASSUME NEW i \in 1 .. n - 1 PROVE pos[i] \in 1 .. reg /\ pos[i] # q
    <3>1. i \in 1 .. n /\ i < n /\ pos[i] \in 1 .. reg
      BY <1>5, <1>6
    <3>2. pos[i] < pos[n]
      BY <1>5, <1>6, <3>1
    <3> QED
      BY <1>6, <1>9, <3>1, <3>2
  <2> QED
    BY <2>1
<1> HIDE DEF p2
<1>14. WaitAt(r2, a2, p2)
  <2>1. \A i, j \in 1 .. n - 1 : i < j => p2[i] < p2[j]
    BY <1>5, <1>6, <1>13
  <2>2. \A i \in 1 .. n - 1 : r2[p2[i]].fn = a2[i] /\ r2[p2[i]].turn = 0
    BY <1>3, <1>5, <1>6, <1>10, <1>13
  <2>3. ASSUME NEW k \in 1 .. reg, r2[k].turn = 0
        PROVE  \E i \in 1 .. n - 1 : p2[i] = k
    <3>1. k # q
      BY <1>11, <2>3
    <3>2. PICK i \in 1 .. n : pos[i] = k
      BY <1>5, <1>10, <2>3, <3>1
    <3>3. i \in 1 .. n - 1
      BY <1>3, <1>9, <3>1, <3>2
    <3> QED
      BY <1>13, <3>2, <3>3
  <2>4. Len(a2) = n - 1
    BY <1>3
  <2> HIDE DEF a2
  <2> QED
    BY <1>10, <1>13, <2>1, <2>2, <2>3, <2>4 DEF WaitAt
<1>15. /\ \A k \in 1 .. reg : rq[k].after <= sta /\ rq[k].turn <= sta
       /\ LastFirst(rq)
  BY <1>1 DEF Kept
<1>16. \A k \in 1 .. reg : r2[k].after <= sta + 1 /\ r2[k].turn <= sta + 1
  <2> SUFFICES ASSUME NEW k \in 1 .. reg
               PROVE  r2[k].after <= sta + 1 /\ r2[k].turn <= sta + 1
    OBVIOUS
  <2>1. /\ rq[k].after \in Nat /\ rq[k].after <= sta
        /\ rq[k].turn \in Nat /\ rq[k].turn <= sta
    BY <1>2, <1>15
  <2>2. CASE k = q
    BY <1>11, <2>1, <2>2
  <2>3. CASE k # q
    BY <1>10, <2>1, <2>3
  <2> QED
    BY <2>2, <2>3
<1>17. LastFirst(r2)
  <2> SUFFICES ASSUME NEW i \in 1 .. reg, NEW j \in 1 .. reg,
                      i < j, r2[i].turn > 0, r2[j].after < r2[i].turn
               PROVE  r2[j].turn \in 1 .. r2[i].turn - 1
    BY <1>10 DEF LastFirst
  <2>1. CASE i = q
    <3>1. r2[j] = rq[j] /\ rq[j].turn # 0 /\ rq[j].turn \in Nat /\ rq[j].turn <= sta
      BY <1>2, <1>7, <1>9, <1>10, <1>15, <2>1
    <3> QED
      BY <1>11, <2>1, <3>1
  <2>2. CASE i # q /\ j = q
    <3>1. r2[i] = rq[i] /\ rq[q].after < rq[i].turn
      BY <1>10, <1>11, <2>2
    <3>2. rq[q].turn \in 1 .. rq[i].turn - 1
      BY <1>1, <1>9, <1>15, <2>2, <3>1 DEF LastFirst
    <3> QED
      BY <1>9, <3>2
  <2>3. CASE i # q /\ j # q
    BY <1>1, <1>10, <1>15, <2>3 DEF LastFirst
  <2> QED
    BY <2>1, <2>2, <2>3
<1>18. Kept(r2, a2, reg, sta + 1)
  BY <1>10, <1>12, <1>14, <1>16, <1>17 DEF Kept
<1> QED
  BY <1>8, <1>9, <1>18 DEF r2, W

\* A step keeps the record of the registrations.
LEMMA StepRecorded ==
    ASSUME NowSettled, NowDeep, Recorded, Step
    PROVE  NowDeep' /\ Recorded'
<1>1. PICK y \in State : /\ Become(y) /\ Deep(y)
                         /\ Same(Now, y) \/ Registers(Now, y) \/ Starts(Now, y)
  BY StepOrder
<1>2. Now' = y
  BY <1>1, BecomeFact
<1>3. NowDeep'
  BY <1>1, <1>2 DEF NowDeep, Deep
<1>4. atexits \in Seq(Handlers) /\ registered \in Nat /\ started \in Nat
  BY NowFields DEF NowSettled, Settled, State
<1>5. /\ atexits' = y.atexits /\ registered' = y.registered /\ started' = y.started
      /\ Record(y)
  BY <1>1 DEF Become
<1>6. CASE Same(Now, y)
  <2>1. y.atexits = atexits /\ y.registered = registered /\ y.started = started
    BY <1>6, NowFields DEF Same
  <2>2. requests' = requests
    BY <1>4, <1>5, <2>1 DEF Record
  <2> QED
    BY <1>3, <1>5, <2>1, <2>2 DEF Recorded
<1>7. CASE Registers(Now, y)
  <2>1. PICK h \in Handlers : y.atexits = Append(atexits, h)
    BY <1>7, NowFields DEF Registers
  <2>2. y.registered = registered + 1 /\ y.started = started
    BY <1>7, NowFields DEF Registers
  <2>3. Last(y.atexits) = h
    BY <1>4, <2>1, AppendProperties, LenProperties DEF Last
  <2>4. requests' = Append(requests, [fn |-> h, after |-> started, turn |-> 0])
    BY <1>4, <1>5, <2>2, <2>3 DEF Record
  <2> QED
    BY <1>3, <1>4, <1>5, <2>1, <2>2, <2>4, KeptRegister DEF Recorded
<1>8. CASE Starts(Now, y)
  <2>1. /\ atexits # <<>> /\ y.atexits = Front(atexits) /\ Last(y.stack).fn = Last(atexits)
        /\ y.registered = registered /\ y.started = started + 1
    BY <1>8, NowFields DEF Starts
  <2>2. Answer(Last(atexits), started + 1)
    BY <1>4, <1>5, <2>1 DEF Record
  <2>3. requests' = [requests EXCEPT ![
            Max({k \in {k \in DOMAIN requests : requests[k].turn = 0} :
                    requests[k].fn = Last(atexits)})].turn = started + 1]
    BY <2>2 DEF Answer, Waiting
  <2> DEFINE m == Max({k \in {k \in DOMAIN requests : requests[k].turn = 0} :
                          requests[k].fn = Last(atexits)})
             r2 == [requests EXCEPT ![m].turn = started + 1]
  <2>4. Kept(requests, atexits, registered, started) /\ atexits # <<>>
    BY <2>1 DEF Recorded
  <2>5. Kept(r2, Front(atexits), registered, started + 1)
    BY ONLY <1>4, <2>4, KeptStart
  <2>6. requests' = r2
    BY <2>3
  <2> HIDE DEF r2
  <2> QED
    BY <1>3, <1>5, <2>1, <2>5, <2>6 DEF Recorded
<1> QED
  BY <1>1, <1>6, <1>7, <1>8

\* Every state of a run has its registrations in order.
LEMMA RecordInvariant == Spec => [](IInv /\ NowDeep /\ Recorded)
<1> DEFINE J == IInv /\ NowDeep /\ Recorded
<1>1. ASSUME Init PROVE J
  <2>1. IInv /\ NowDeep
    BY <1>1, InitFact, NowFields, LenProperties DEF NowDeep, Deep, Init, IInv, NowSettled,
       Settled, State
  <2>2. WaitAt(<<>>, <<>>, <<>>)
    BY DEF WaitAt
  <2>3. Recorded
    BY <1>1, <2>2 DEF Recorded, Kept, LastFirst, Init
  <2> QED
    BY <2>1, <2>3
<1>2. J /\ [Next]_vars => J'
  <2> SUFFICES ASSUME J, [Next]_vars PROVE J'
    OBVIOUS
  <2>1. IInv'
    BY NextEffect
  <2>2. CASE Step
    BY <2>1, <2>2, StepRecorded DEF IInv
  <2>3. CASE Expire \/ UNCHANGED vars
    <3>1. /\ Now' = Now /\ requests' = requests /\ atexits' = atexits
          /\ registered' = registered /\ started' = started
      BY <2>3 DEF Expire, vars, exec, hist, Now
    <3> QED
      BY <2>1, <3>1 DEF NowDeep, Deep, Recorded
  <2> QED
    BY <2>2, <2>3 DEF Next
<1> QED
  BY <1>1, <1>2, PTL DEF Spec

\* The types of the execution state, for every program.
THEOREM TypeCorrect == Spec => []TypeOK
<1>1. IInv /\ Recorded => TypeOK
  BY NowFields DEF IInv, NowSettled, Settled, State, TypeOK, Stages, Verdicts,
     Recorded, Kept, Request
<1> QED
  BY <1>1, RecordInvariant, PTL

\* An execution that ends normally has started every registered handler, and a
\* handler starts only when all that were registered after it have been started.
THEOREM HandlersDrained == Spec => []NormalEndDrains
<1>1. ASSUME IInv, Recorded PROVE NormalEndDrains
  <2>1. LastFirst(requests)
    BY <1>1 DEF Recorded, Kept
  <2>2. ASSUME done, termination = NORMAL
        PROVE  /\ atexits = <<>> /\ started = registered /\ Len(requests) = registered
               /\ \A i \in DOMAIN requests : requests[i].turn > 0
    <3>1. atexits = <<>> /\ registered = started + Len(atexits) /\ started \in Nat
      BY <1>1, <2>2, NowFields DEF IInv, NowSettled, Settled, State, Sound, done
    <3>2. PICK pos : WaitAt(requests, atexits, pos)
      BY <1>1 DEF Recorded, Kept
    <3>3. \A i \in DOMAIN requests : requests[i].turn # 0
      <4>1. Len(atexits) = 0
        BY <3>1
      <4> QED
        BY <3>2, <4>1 DEF WaitAt
    <3>4. \A i \in DOMAIN requests : requests[i].turn \in Nat
      <4>1. requests \in Seq(Request) /\ DOMAIN requests = 1 .. Len(requests)
        BY <1>1, LenProperties DEF Recorded, Kept
      <4>2. \A i \in DOMAIN requests : requests[i] \in Request
        BY <4>1, ElementOfSeq
      <4> QED
        BY <4>2 DEF Request
    <3> QED
      BY <1>1, <3>1, <3>3, <3>4 DEF Recorded, Kept
  <2> QED
    BY <2>1, <2>2 DEF NormalEndDrains, LastFirst
<1> QED
  BY <1>1, RecordInvariant, PTL

==============================================================================
