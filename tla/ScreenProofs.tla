---------------------------- MODULE ScreenProofs ----------------------------
(***************************************************************************)
(* Proofs about what the classifier says of a screen, whatever stands      *)
(* above the part that claude draws, and about what a turn makes of it.    *)
(***************************************************************************)
EXTENDS TurnProofs, SequenceTheorems

-----------------------------------------------------------------------------
(* Screens *)

\* A line, whatever marks and elapsed times are on it.
Mark == {"rule", "prompt", "idle", "working", "trust", "assistant", "sigil"}

AnyLine == [marks : SUBSET Mark, timers : SUBSET Nat]

\* The lines that the model's screens are made of.
LEMMA Lines ==
    /\ \A marks \in SUBSET Mark :
          Line(marks) \in AnyLine /\ Line(marks).marks = marks
    /\ \A n \in Nat : Spinner(n) \in AnyLine
    /\ Text \in AnyLine /\ Text.marks = {}
  <1>1. ASSUME NEW marks \in SUBSET Mark
        PROVE  Line(marks) \in AnyLine /\ Line(marks).marks = marks
    BY DEF Line, AnyLine
  <1>2. ASSUME NEW n \in Nat
        PROVE  Spinner(n) \in AnyLine
    BY DEF Spinner, AnyLine
  <1>3. Text \in AnyLine /\ Text.marks = {}
    BY <1>1 DEF Text
  <1> QED BY <1>1, <1>2, <1>3

\* Short sequences of lines.
LEMMA ShortScreens ==
    ASSUME NEW a \in AnyLine, NEW b \in AnyLine, NEW c \in AnyLine,
           NEW d \in AnyLine, NEW e \in AnyLine
    PROVE  /\ <<>> \in Seq(AnyLine) /\ Len(<<>>) = 0
           /\ <<a>> \in Seq(AnyLine) /\ Len(<<a>>) = 1 /\ <<a>>[1] = a
           /\ <<a, b, c, d>> \in Seq(AnyLine) /\ Len(<<a, b, c, d>>) = 4
           /\ <<a, b, c, d>>[4] = d
           /\ <<a, b, c, d, e>> \in Seq(AnyLine)
           /\ 2 \in DOMAIN <<a, b, c, d, e>> /\ <<a, b, c, d, e>>[2] = b
  OBVIOUS

\* The lines of a screen are those of its upper and then those of its lower part.
LEMMA Parts ==
    ASSUME NEW above \in Seq(AnyLine), NEW below \in Seq(AnyLine)
    PROVE  /\ above \o below \in Seq(AnyLine)
           /\ Len(above \o below) = Len(above) + Len(below)
           /\ \A i \in 1..Len(above) :
                 /\ i \in DOMAIN (above \o below)
                 /\ (above \o below)[i] = above[i]
           /\ \A i \in 1..Len(below) :
                 /\ Len(above) + i \in DOMAIN (above \o below)
                 /\ (above \o below)[Len(above) + i] = below[i]
  BY ConcatProperties

\* A mark in the lower part of a screen is on the screen.
LEMMA ShownBelow ==
    ASSUME NEW scroll \in Seq(AnyLine), NEW drawn \in Seq(AnyLine), NEW mark,
           Shows(drawn, mark)
    PROVE  Shows(scroll \o drawn, mark)
  <1>1. PICK i \in 1..Len(drawn) : mark \in drawn[i].marks
    BY DEF Shows
  <1>2. /\ Len(scroll) + i \in DOMAIN (scroll \o drawn)
        /\ (scroll \o drawn)[Len(scroll) + i] = drawn[i]
    BY Parts
  <1> QED BY <1>1, <1>2 DEF Shows

\* A composer near the bottom of what claude draws is near the bottom of the
\* screen.
LEMMA ComposerBelow ==
    ASSUME NEW scroll \in Seq(AnyLine), NEW drawn \in Seq(AnyLine),
           ComposerPresent(drawn)
    PROVE  ComposerPresent(scroll \o drawn)
  <1> DEFINE screen == scroll \o drawn
  <1>1. PICK i \in 1..Len(drawn) :
            /\ i > Len(drawn) - ComposerTailLines
            /\ drawn[i].marks \cap {"idle", "prompt"} # {}
    BY DEF ComposerPresent
  <1>2. Len(scroll) \in Nat /\ Len(drawn) \in Nat /\ Len(drawn) > 0
    BY <1>1
  <1>3. /\ Len(screen) = Len(scroll) + Len(drawn)
        /\ screen[Len(screen)] = drawn[Len(drawn)]
        /\ screen # <<>>
    BY <1>2, Parts
  <1>4. /\ Len(scroll) + i \in DOMAIN screen
        /\ Len(scroll) + i > Len(screen) - ComposerTailLines
        /\ screen[Len(scroll) + i].marks \cap {"idle", "prompt"} # {}
    BY <1>1, <1>2, <1>3, Parts DEF ComposerTailLines
  <1> QED BY <1>3, <1>4 DEF ComposerPresent

\* claude's footer, with or without tmux's advisory below it, makes a composer.
LEMMA FooterIsComposer ==
    ASSUME ~SigilBelow,
           NEW top \in Seq(AnyLine), Len(top) > 0, NEW below \in Below,
           NEW footer \in {{"idle"}, {"idle", "working"}},
           top[Len(top)] = Line(footer)
    PROVE  top \o below \in Seq(AnyLine) /\ ComposerPresent(top \o below)
  <1>1. Text \in AnyLine /\ Text.marks = {} /\ Len(top) \in Nat
    BY Lines
  <1>2. below \in Seq(AnyLine) /\ Len(below) \in 0..1
        /\ (Len(below) = 1 => below[1] = Text)
    <2>1. CASE below = <<>>
      BY <2>1
    <2>2. CASE below = <<Text>>
      BY <1>1, <2>2, ShortScreens
    <2> QED BY <2>1, <2>2 DEF Below
  <1>3. /\ top \o below \in Seq(AnyLine)
        /\ Len(top \o below) = Len(top) + Len(below)
        /\ Len(top) \in DOMAIN (top \o below)
        /\ (top \o below)[Len(top)] = Line(footer)
    BY <1>2, Parts
  <1>4. "sigil" \notin (top \o below)[Len(top \o below)].marks
    <2>1. CASE Len(below) = 0
      BY <1>3, <2>1 DEF Line
    <2>2. CASE Len(below) = 1
      BY <1>1, <1>2, <1>3, <2>2, Parts
    <2> QED BY <1>2, <2>1, <2>2
  <1>5. Len(top) > Len(top \o below) - ComposerTailLines
    <2>1. \A m \in Nat, n \in 0..1 : m > (m + n) - ComposerTailLines
      BY DEF ComposerTailLines
    <2> QED BY <1>1, <1>2, <1>3, <2>1
  <1>6. Line(footer).marks \cap {"idle", "prompt"} # {}
    BY DEF Line
  <1>7. top \o below # <<>>
    BY <1>3
  <1> QED BY <1>3, <1>4, <1>5, <1>6, <1>7 DEF ComposerPresent

\* A frame is four lines, the last of which is the footer.
LEMMA FrameLines ==
    ASSUME NEW footer \in {{"idle"}, {"idle", "working"}}
    PROVE  /\ Frame(footer) \in Seq(AnyLine)
           /\ Len(Frame(footer)) = 4
           /\ Frame(footer)[4] = Line(footer)
  <1>1. {"rule"} \in SUBSET Mark /\ {"prompt"} \in SUBSET Mark
        /\ footer \in SUBSET Mark
    BY DEF Mark
  <1>2. /\ Line({"rule"}) \in AnyLine /\ Line({"prompt"}) \in AnyLine
        /\ Line(footer) \in AnyLine
    BY <1>1, Lines
  <1> QED BY <1>2, ShortScreens DEF Frame

\* What claude draws at its composer and at work holds a composer.
LEMMA WorkHasComposer ==
    ASSUME ~SigilBelow,
           NEW claude0 \in {"idle", "working"}, NEW drawn \in Drawn(claude0)
    PROVE  drawn \in Seq(AnyLine) /\ ComposerPresent(drawn)
  <1>1. CASE claude0 = "idle"
    <2> DEFINE top == Frame({"idle"})
    <2>1. Drawn("idle") = {top \o b : b \in Below}
      BY DEF Drawn
    <2>2. PICK b \in Below : drawn = top \o b
      BY <1>1, <2>1
    <2>3. /\ top \in Seq(AnyLine) /\ Len(top) > 0
          /\ top[Len(top)] = Line({"idle"})
      BY FrameLines
    <2> HIDE DEF top
    <2> QED BY <2>2, <2>3, FooterIsComposer
  <1>2. CASE claude0 = "working"
    <2> DEFINE frame == Frame({"idle", "working"})
               spinner == {<<>>, <<Spinner(1)>>, <<Spinner(2)>>}
    <2>0. Drawn("working") = {s \o frame \o b : s \in spinner, b \in Below}
      BY DEF Drawn
    <2> HIDE DEF frame, spinner
    <2>1. PICK s \in spinner, b \in Below : drawn = s \o frame \o b
      BY <1>2, <2>0
    <2> DEFINE top == s \o frame
    <2>2. s \in Seq(AnyLine)
      <3>1. /\ <<Spinner(1)>> \in Seq(AnyLine) /\ <<Spinner(2)>> \in Seq(AnyLine)
            /\ <<>> \in Seq(AnyLine)
        BY Lines, ShortScreens
      <3> QED BY <3>1 DEF spinner
    <2>3. /\ frame \in Seq(AnyLine) /\ Len(frame) = 4
          /\ frame[4] = Line({"idle", "working"})
      BY FrameLines DEF frame
    <2>4. /\ top \in Seq(AnyLine) /\ Len(top) = Len(s) + 4
          /\ top[Len(top)] = Line({"idle", "working"})
      <3>1. top \in Seq(AnyLine) /\ 4 \in 1..Len(frame)
        BY <2>2, <2>3, Parts
      <3>2. Len(top) = Len(s) + Len(frame)
        BY <2>2, <2>3, Parts
      <3>3. top[Len(s) + 4] = frame[4]
        BY <2>2, <2>3, <3>1, Parts
      <3> QED BY <2>3, <3>1, <3>2, <3>3
    <2>5. Len(top) > 0
      BY <2>2, <2>4
    <2> HIDE DEF top
    <2>6. drawn = top \o b
      BY <2>1 DEF top
    <2> QED BY <2>4, <2>5, <2>6, FooterIsComposer
  <1> QED BY <1>1, <1>2

\* What claude draws when it asks for trust holds the question.
LEMMA TrustHasQuestion ==
    ASSUME NEW drawn \in Drawn("trust")
    PROVE  drawn \in Seq(AnyLine) /\ Shows(drawn, "trust")
  <1>0. /\ {"rule"} \in SUBSET Mark /\ {"trust"} \in SUBSET Mark
        /\ {"prompt", "trust"} \in SUBSET Mark
    BY DEF Mark
  <1>1. /\ Line({"rule"}) \in AnyLine /\ Line({"trust"}) \in AnyLine
        /\ Line({"prompt", "trust"}) \in AnyLine /\ Text \in AnyLine
        /\ Line({"trust"}).marks = {"trust"}
    BY <1>0, Lines
  <1>2. drawn = <<Line({"rule"}), Line({"trust"}), Line({"prompt", "trust"}),
                  Text, Text>>
    BY DEF Drawn
  <1>3. drawn \in Seq(AnyLine) /\ 2 \in DOMAIN drawn /\ drawn[2] = Line({"trust"})
    BY <1>1, <1>2, ShortScreens
  <1> QED BY <1>1, <1>3 DEF Shows

-----------------------------------------------------------------------------
(* What the classifier says of them *)

\* A screen on which claude works, or waits at its composer, is never taken for
\* dead, whatever is above: leftovers of another claude, a shell's prompt, text
\* that quotes any of the marks; provided that no line below the frame ends like a
\* shell's prompt (fsm.classify, _composer_present).
THEOREM WorkIsNeverDead ==
    ASSUME ~SigilBelow, NEW scroll \in Seq(AnyLine), NEW claude0 \in {"idle", "working"},
           NEW drawn \in Drawn(claude0), NEW env0, NEW prev
    PROVE  Classify(scroll \o drawn, env0, prev) # "dead"
  <1>1. ComposerPresent(scroll \o drawn)
    BY WorkHasComposer, ComposerBelow
  <1> QED BY <1>1 DEF Classify, WorkingState

\* The trust question is reported whatever is above it, and whatever else on the
\* screen looks like work (fsm.classify).
THEOREM QuestionIsSeen ==
    ASSUME NEW scroll \in Seq(AnyLine), NEW drawn \in Drawn("trust"),
           NEW env0, NEW prev
    PROVE  Classify(scroll \o drawn, env0, prev) = "awaiting_input"
  <1>1. Shows(scroll \o drawn, "trust")
    BY TrustHasQuestion, ShownBelow
  <1> QED BY <1>1 DEF Classify

\* So it is with the screens of the model.
LEMMA VerdictsAreRight ==
    /\ ~SigilBelow => "dead" \notin Verdicts["idle"] \cup Verdicts["working"]
    /\ Verdicts["trust"] \subseteq {"awaiting_input"}
  <1>1. Scroll \subseteq Seq(AnyLine)
    <2>1. ASSUME NEW mark \in Mark
          PROVE  <<Line({mark})>> \in Seq(AnyLine)
      BY Lines, ShortScreens
    <2>2. <<Spinner(1)>> \in Seq(AnyLine) /\ <<Spinner(3)>> \in Seq(AnyLine)
      BY Lines, ShortScreens
    <2>3. <<>> \in Seq(AnyLine)
      OBVIOUS
    <2> QED BY <2>1, <2>2, <2>3 DEF Scroll, Mark
  <1>2. ASSUME NEW c \in ClaudeState, NEW verdict \in Verdicts[c]
        PROVE  \E scroll \in Scroll, drawn \in Drawn(c), env0 \in BOOLEAN,
                  prev \in {{}, {0}, {1}, {2}} :
                     verdict = Classify(scroll \o drawn, env0, prev)
    <2>1. PICK screen \in Screens(c), env0 \in BOOLEAN,
               prev \in {{}, {0}, {1}, {2}} :
                  verdict = Classify(screen, env0, prev)
      BY <1>2 DEF Verdicts
    <2>2. PICK scroll \in Scroll, drawn \in Drawn(c) : screen = scroll \o drawn
      BY DEF Screens
    <2> QED BY <2>1, <2>2
  <1>3. {"idle", "working", "trust"} \subseteq ClaudeState
    BY DEF ClaudeState
  <1>4. ASSUME ~SigilBelow, NEW c \in {"idle", "working"}, "dead" \in Verdicts[c]
        PROVE  FALSE
    <2>1. PICK scroll \in Scroll, drawn \in Drawn(c), env0 \in BOOLEAN,
               prev \in {{}, {0}, {1}, {2}} :
                  "dead" = Classify(scroll \o drawn, env0, prev)
      BY <1>2, <1>3, <1>4
    <2> QED BY <1>1, <1>4, <2>1, WorkIsNeverDead
  <1>5. ASSUME NEW verdict \in Verdicts["trust"]
        PROVE  verdict = "awaiting_input"
    <2>1. PICK scroll \in Scroll, drawn \in Drawn("trust"), env0 \in BOOLEAN,
               prev \in {{}, {0}, {1}, {2}} :
                  verdict = Classify(scroll \o drawn, env0, prev)
      BY <1>2, <1>3
    <2> QED BY <1>1, <2>1, QuestionIsSeen
  <1> QED BY <1>4, <1>5

-----------------------------------------------------------------------------
(* What a turn makes of them *)

\* A turn has an outcome from its last step in the loop to its end, and not
\* before: no read of the screen finds the reason of an earlier turn.
OutcomeComesLast ==
    \A t \in Thread : pc[t] \notin {"clear", "release"} => out[t] = None

\* Every step keeps it.
LEMMA NextOutcome ==
    TypeOK /\ TurnInv /\ OutcomeComesLast /\ [Next]_vars => OutcomeComesLast'
  <1> SUFFICES ASSUME TypeOK, TurnInv, OutcomeComesLast, [Next]_vars
               PROVE  OutcomeComesLast'
    OBVIOUS
  <1> USE DEF TypeOK, OutcomeComesLast, Goto, Outcome, threadVars
  <1>1. ASSUME NEW t \in Thread,
               \/ StartStream(t) \/ Acquire(t) \/ AcquireTimeout(t) \/ Stage(t)
               \/ SetFlag(t) \/ Prompt(t) \/ Expire(t) \/ Poll(t)
        PROVE  OutcomeComesLast'
    BY <1>1 DEF StartStream, Acquire, AcquireTimeout, Stage, SetFlag, Prompt,
                Expire, Poll
  <1>2. ASSUME NEW t \in Thread,
               \/ Observe(t) \/ SliceOver(t) \/ Read(t) \/ Screen(t)
               \/ Clear(t) \/ Release(t)
        PROVE  OutcomeComesLast'
    BY <1>2 DEF Observe, SliceOver, Read, Screen, HandleVerdict, Clear,
                Release
  <1>3. ASSUME NEW t \in Thread,
               StartKey(t) \/ KeyAcquire(t) \/ KeyType(t) \/ KeyRelease(t)
        PROVE  OutcomeComesLast'
    BY <1>3 DEF StartKey, KeyAcquire, KeyType, KeyRelease
  <1>4. CASE ClaudeTurns \/ ClaudeWrites \/ ServerExits \/ TornDown
             \/ BridgeRestarts \/ Rest \/ UNCHANGED vars
    BY <1>4 DEF ClaudeTurns, ClaudeWrites, ServerExits, TornDown,
                BridgeRestarts, Rest, vars
  <1> QED BY <1>1, <1>2, <1>3, <1>4 DEF Next, Step

\* Only its own read of the screen moves a thread that is about to read, and the
\* end of the bridge.
LEMMA OthersWait ==
    ASSUME TypeOK, TurnInv, [Next]_vars, NEW t \in Thread, pc[t] = "screen",
           ~Screen(t), ~BridgeRestarts
    PROVE  pc'[t] = pc[t] /\ out'[t] = out[t]
  <1> USE DEF TypeOK, Goto, Outcome, threadVars
  <1>1. ASSUME NEW s \in Thread,
               \/ StartStream(s) \/ Acquire(s) \/ AcquireTimeout(s) \/ Stage(s)
               \/ SetFlag(s) \/ Prompt(s) \/ Expire(s) \/ Poll(s)
        PROVE  pc'[t] = pc[t] /\ out'[t] = out[t]
    BY <1>1 DEF StartStream, Acquire, AcquireTimeout, Stage, SetFlag, Prompt,
                Expire, Poll
  <1>2. ASSUME NEW s \in Thread,
               \/ Observe(s) \/ SliceOver(s) \/ Read(s) \/ Screen(s)
               \/ Clear(s) \/ Release(s)
        PROVE  pc'[t] = pc[t] /\ out'[t] = out[t]
    BY <1>2 DEF Observe, SliceOver, Read, Screen, HandleVerdict, Clear,
                Release
  <1>3. ASSUME NEW s \in Thread,
               StartKey(s) \/ KeyAcquire(s) \/ KeyType(s) \/ KeyRelease(s)
        PROVE  pc'[t] = pc[t] /\ out'[t] = out[t]
    BY <1>3 DEF StartKey, KeyAcquire, KeyType, KeyRelease
  <1>4. CASE ClaudeTurns \/ ClaudeWrites \/ ServerExits \/ TornDown \/ Rest
             \/ UNCHANGED vars
    BY <1>4 DEF ClaudeTurns, ClaudeWrites, ServerExits, TornDown, Rest, vars
  <1> QED BY <1>1, <1>2, <1>3, <1>4 DEF Next, Step

\* What a step may do to a thread that is about to read the screen.
LEMMA ReadsRightly ==
    ASSUME TypeOK, TurnInv, OutcomeComesLast, [Next]_vars,
           NEW t \in Thread, pc[t] = "screen"
    PROVE  /\ out'[t] = "dead" => claude \in {"exited", "menu"} \/ SigilBelow
           /\ pc'[t] = "poll" => claude # "trust"
  <1> USE DEF TypeOK, Goto, Outcome, threadVars
  <1>1. CASE Screen(t)
    <2>0. out[t] # "dead"
      BY NoneAssumption DEF OutcomeComesLast, Reason
    <2>1. CASE TmuxRaises /\ Outcome(t, "error")
      BY <2>1
    <2>2. ASSUME NEW verdict \in Verdicts[claude], HandleVerdict(t, verdict)
          PROVE  /\ out'[t] = "dead" => verdict = "dead"
                 /\ pc'[t] = "poll" => verdict # "awaiting_input"
      BY <2>2, <2>0 DEF HandleVerdict
    <2> QED BY <1>1, <2>1, <2>2, VerdictsAreRight DEF Screen, ClaudeState
  <1>2. CASE BridgeRestarts
    BY <1>2, NoneAssumption DEF BridgeRestarts, Reason
  <1>3. CASE ~Screen(t) /\ ~BridgeRestarts
    <2>1. pc'[t] = pc[t] /\ out'[t] = out[t]
      BY <1>3, OthersWait
    <2>2. out[t] # "dead"
      BY NoneAssumption DEF OutcomeComesLast, Reason
    <2> QED BY <2>1, <2>2
  <1> QED BY <1>1, <1>2, <1>3

-----------------------------------------------------------------------------
(* The theorems *)

\* What has been said holds of every reachable state.
LEMMA OutcomeInvariant == Spec => [](TypeOK /\ TurnInv /\ OutcomeComesLast)
  <1>1. Init => OutcomeComesLast
    BY DEF Init, OutcomeComesLast
  <1> QED BY <1>1, NextOutcome, TurnInvariant, PTL DEF Spec

\* A turn never reports dead while claude works, waits at its composer or asks
\* for trust, however often tmux fails and whatever stands above claude's frame.
THEOREM NeverDeadAtWork == Spec => DeadIsNotAtWork
  <1>1. TypeOK /\ TurnInv /\ OutcomeComesLast /\ [Next]_vars =>
           [\A t \in Thread : pc[t] = "screen" /\ out'[t] = "dead" =>
               claude \in {"exited", "menu"} \/ SigilBelow]_vars
    BY ReadsRightly
  <1> QED BY <1>1, OutcomeInvariant, PTL DEF Spec, DeadIsNotAtWork

\* A trust question that is on the screen when a turn reads it ends the turn.
THEOREM QuestionEndsTurn == Spec => QuestionIsReported
  <1>1. TypeOK /\ TurnInv /\ OutcomeComesLast /\ [Next]_vars =>
           [\A t \in Thread :
              pc[t] = "screen" /\ pc'[t] = "poll" => claude # "trust"]_vars
    BY ReadsRightly
  <1> QED BY <1>1, OutcomeInvariant, PTL DEF Spec, QuestionIsReported
=============================================================================
