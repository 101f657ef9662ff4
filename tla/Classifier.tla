------------------------------ MODULE Classifier ------------------------------
(***************************************************************************)
(* src/fsm.py: what the bridge makes of a captured screen, and the screens *)
(* that claude's TUI draws, after the captures under src/tests/fixtures.   *)
(* TurnProtocol asks it at every screen read.                              *)
(*                                                                         *)
(* A screen is the sequence of its non-blank lines, stripped of control    *)
(* sequences; a line is the set of the marks that the classifier looks     *)
(* for, and of the elapsed times "(<n>s" on it.                            *)
(***************************************************************************)
LOCAL INSTANCE Naturals
LOCAL INSTANCE Sequences
LOCAL INSTANCE FiniteSetsExt

\* TRUE iff the line below claude's footer may end in a sigil, as "n%" does
CONSTANT SigilBelow

ASSUME SigilBelowAssumption == SigilBelow \in BOOLEAN

\* "rule": a run of box-drawing dashes; "prompt": the composer's arrow; "idle":
\* FOOTER_IDLE; "working": FOOTER_WORKING; "trust": TRUST_PROMPT or
\* TRUST_OPTION_YES; "assistant": MARKER_ASSISTANT; "sigil": a line that ends in
\* one of the sigils of a shell prompt.
Line(marks) == [marks |-> marks, timers |-> {}]

Spinner(n) == [marks |-> {}, timers |-> {n}]

Text == Line({})

Shows(screen, mark) == \E i \in DOMAIN screen : mark \in screen[i].marks

-----------------------------------------------------------------------------
(* The classifier *)

\* footer_of: what follows the last rule, and all of a screen without one.
FooterOf(screen) ==
    LET last == Max({0} \cup {i \in DOMAIN screen : screen[i].marks = {"rule"}})
    IN SubSeq(screen, last + 1, Len(screen))

ComposerTailLines == 6

\* Mutant: the footer is expected on the last line.
ComposerOnLastLine(screen) ==
    screen # <<>> /\ screen[Len(screen)].marks \cap {"idle", "prompt"} # {}

\* _composer_present: an active composer at the bottom of the screen.  One that
\* stands above a shell prompt is what claude left behind.
ComposerPresent(screen) ==
    LET n == Len(screen)
    IN /\ screen # <<>>
       /\ "sigil" \notin screen[n].marks
       /\ \E i \in DOMAIN screen :
             i > n - ComposerTailLines /\ screen[i].marks \cap {"idle", "prompt"} # {}

\* _spinner_timer: the highest elapsed time on the screen, as a set that is empty
\* when there is none.
SpinnerTimer(screen) ==
    LET times == UNION {screen[i].timers : i \in DOMAIN screen}
    IN {t \in times : \A u \in times : u <= t}

\* Does the screen say that claude works, prev being the timer of the last read?
Working(screen, prev) ==
    \/ Shows(FooterOf(screen), "working")
    \/ \E t \in SpinnerTimer(screen), p \in prev : t > p

WorkingState(screen) ==
    IF Shows(screen, "assistant") THEN "streaming" ELSE "thinking"

\* Mutant: the signs of work come before the question.
ClassifyWorkFirst(screen, env, prev) ==
    CASE Working(screen, prev) -> WorkingState(screen)
      [] ~Working(screen, prev) /\ Shows(screen, "trust") -> "awaiting_input"
      [] OTHER -> IF ~ComposerPresent(screen) THEN "dead"
                  ELSE IF env THEN "idle" ELSE "idle_no_envelope"

\* classify, with composer_seen: a session that is READY has seen a composer.
Classify(screen, env, prev) ==
    CASE Shows(screen, "trust") -> "awaiting_input"
      [] ~Shows(screen, "trust") /\ ~ComposerPresent(screen) -> "dead"
      [] OTHER -> IF Working(screen, prev) THEN WorkingState(screen)
                  ELSE IF env THEN "idle" ELSE "idle_no_envelope"

-----------------------------------------------------------------------------
(* The screens *)

\* Above what claude draws now: what it wrote, what was typed, what the shell
\* said before it started.  Any mark may be quoted there.
Scroll == {<<>>} \cup
    {<<l>> : l \in {Line({"assistant"}), Line({"prompt"}), Line({"working"}),
                    Line({"idle"}), Line({"rule"}), Line({"sigil"}),
                    Line({"trust"}), Spinner(1), Spinner(3)}}

Frame(footer) ==
    <<Line({"rule"}), Line({"prompt"}), Line({"rule"}), Line(footer)>>

\* An advisory may stand below claude's footer.
Below == {<<>>, <<Text>>} \cup IF SigilBelow THEN {<<Line({"sigil"})>>} ELSE {}

\* What may be on the pane below the scroll, for each of claude's states.  The
\* selected option of a menu may be far from the bottom; an exited claude leaves
\* its last frame above the shell's prompt, which need not end in a sigil.
Drawn(claude) ==
    CASE claude = "idle" ->
            {Frame({"idle"}) \o b : b \in Below}
      [] claude = "working" ->
            {s \o Frame({"idle", "working"}) \o b :
                s \in {<<>>, <<Spinner(1)>>, <<Spinner(2)>>}, b \in Below}
      [] claude = "trust" ->
            {<<Line({"rule"}), Line({"trust"}), Line({"prompt", "trust"}),
               Text, Text>>}
      [] claude = "menu" ->
            {<<Line({"rule"}), Line({"prompt"})>> \o [i \in 1..n |-> Text] :
                n \in {1, ComposerTailLines}}
      [] claude = "exited" ->
            {Frame(footer) \o <<Text, shell>> :
                footer \in {{"idle"}, {"idle", "working"}},
                shell \in {Line({"sigil"}), Line({"prompt"})}}

Screens(claude) ==
    {s \o d : s \in Scroll, d \in Drawn(claude)}

ClaudeState == {"idle", "working", "trust", "menu", "exited"}

\* What a screen read of a turn may find, whatever timer the last one saw.
Verdicts ==
    [claude \in ClaudeState |->
        {Classify(screen, env, prev) :
            screen \in Screens(claude), env \in BOOLEAN,
            prev \in {{}, {0}, {1}, {2}}}]
=============================================================================
