---------------------------- MODULE EventJournal ----------------------------
(***************************************************************************)
(* The transcript of one invocation (runtime_event_journal.cpp) as nested  *)
(* virtual machines write it.  Evaluated source runs in a VM of its own,   *)
(* which shares the recorder or brings one; it calls functions of the      *)
(* parent VM back, whose text goes through the evaluating VM's output; an  *)
(* evalc keeps what is printed at its capture depth.  An error is stamped  *)
(* once and travels outward until something disposes of it.  Displays and  *)
(* warnings, recorded the same way, and the console are left out.          *)
(***************************************************************************)
EXTENDS Selection, SequencesExt, FiniteSetsExt

CONSTANTS
  ErrorHandlers,  \* scripts give arrayfun and cellfun an 'ErrorHandler'
  MaxFrames,      \* bound on the control stack
  MaxJournalCalls,  \* bound on evaluations, calls and tries entered
  MaxTexts,       \* bound on texts printed
  MaxErrors       \* bound on errors raised

ASSUME JournalAssumption ==
  /\ ErrorHandlers \in BOOLEAN
  /\ MaxFrames \in Nat /\ MaxJournalCalls \in Nat /\ MaxTexts \in Nat /\ MaxErrors \in Nat

VARIABLES
  recording,    \* the invocation records (captureEventJournal)
  journal,      \* the control's eventJournal_: its identity and its events
  identities,   \* how many recorders were made
  frames,       \* running VMs, calls and handlers, innermost last
  printed,      \* history: the capture depth each text was printed at
  raised,       \* how many errors were raised
  journalCalls, \* how many evaluations, calls and tries were entered
  captured,     \* the last string an evalc made
  result        \* errors of the finished invocation

journalVars == <<recording, journal, identities, frames, printed, raised, journalCalls, captured, result>>

NoJournal == [identity |-> 0, events |-> <<>>]
NoStamp == [identity |-> 0, sequence |-> 0]
NoCapture == [texts |-> <<>>, from |-> 1, to |-> 0, depth |-> 0]

Frame(kind) == [kind |-> kind, capture |-> FALSE, recover |-> FALSE, owner |-> FALSE,
                begin |-> 0, from |-> 1, output |-> <<>>, errors |-> <<>>]

Innermost == Last(frames)
CallerOf == Front(frames)
Depth(stack) == Cardinality({i \in DOMAIN stack : stack[i].capture})
Recorder == journal.identity # 0

-----------------------------------------------------------------------------
(* RuntimeEventJournal.                                                     *)

Known(stamp) == stamp.identity = journal.identity /\ stamp.sequence \in DOMAIN journal.events

StampedHere(output) == Known(output.stamp)
AlreadyRecorded(output) == output.replay \/ Known(output.stamp)

Stamp(offset) == [identity |-> journal.identity, sequence |-> Len(journal.events) + offset]

WithTexts(events, outputs, depth) ==
  events \o [i \in DOMAIN outputs |->
              [kind |-> "text", text |-> outputs[i].text, depth |-> depth, disposition |-> "visible"]]

WithErrors(events, count, depth) ==
  events \o [i \in 1 .. count |->
              [kind |-> "error", text |-> 0, depth |-> depth, disposition |-> "raised"]]

Disposed(events, stamps, disposition) ==
  [i \in DOMAIN events |->
     IF \E stamp \in ToSet(stamps) : Known(stamp) /\ stamp.sequence = i /\ events[i].kind = "error"
     THEN [events[i] EXCEPT !.disposition = disposition] ELSE events[i]]

(* runtimeRenderEventJournal of what a VM recorded since it began.          *)
Rendered(begin, depth) ==
  LET events == journal.events
      texts == Picked(events, {i \in DOMAIN events : /\ i > begin
                                                       /\ events[i].kind = "text"
                                                       /\ events[i].depth = depth})
  IN [i \in DOMAIN texts |-> texts[i].text]

-----------------------------------------------------------------------------

JournalInit ==
  /\ recording \in BOOLEAN
  /\ identities = IF recording THEN 1 ELSE 0
  /\ journal = IF recording THEN [identity |-> 1, events |-> <<>>] ELSE NoJournal
  /\ frames = <<[Frame("vm") EXCEPT !.owner = recording]>>
  /\ printed = <<>>
  /\ raised = 0
  /\ journalCalls = 0
  /\ captured = NoCapture
  /\ result = <<>>

Executing == frames # <<>> /\ Innermost.errors = <<>>
Failing == frames # <<>> /\ Innermost.errors # <<>>

(* A text goes to the innermost frame that collects output.                 *)
WithOutput(stack, outputs) ==
  LET sinks == {i \in DOMAIN stack : stack[i].kind \in {"vm", "callback"}}
  IN [stack EXCEPT ![Max(sinks)].output = @ \o outputs]

WithFailure(stack, errors) ==
  [stack EXCEPT ![Len(stack)].errors = @ \o errors]

(* recordJournalText, through the borrowed recorder in a callback.          *)
PrintText ==
  /\ Executing /\ Len(printed) < MaxTexts
  /\ printed' = Append(printed, Depth(frames))
  /\ LET output == <<[text |-> Len(printed'), replay |-> FALSE,
                      stamp |-> IF Recorder THEN Stamp(1) ELSE NoStamp]>>
     IN /\ frames' = WithOutput(frames, output)
        /\ journal' = IF Recorder
                      THEN [journal EXCEPT !.events = WithTexts(@, output, Depth(frames))] ELSE journal
  /\ UNCHANGED <<recording, identities, raised, journalCalls, captured, result>>

(* One operation may report several errors before it unwinds.               *)
Raise ==
  /\ Executing
  /\ \E count \in 1 .. 2 :
       /\ raised + count <= MaxErrors
       /\ raised' = raised + count
       /\ frames' = WithFailure(frames, [i \in 1 .. count |-> IF Recorder THEN Stamp(i) ELSE NoStamp])
       /\ journal' = IF Recorder
                     THEN [journal EXCEPT !.events = WithErrors(@, count, Depth(frames))] ELSE journal
  /\ UNCHANGED <<recording, identities, printed, journalCalls, captured, result>>

(* isValidValue reports to nobody.                                          *)
Validate ==
  /\ Executing /\ Recorder /\ raised < MaxErrors
  /\ raised' = raised + 1
  /\ journal' = [journal EXCEPT
       !.events = Append(@, [kind |-> "error", text |-> 0, depth |-> Depth(frames),
                             disposition |-> "suppressed"])]
  /\ UNCHANGED <<recording, identities, frames, printed, journalCalls, captured, result>>

-----------------------------------------------------------------------------
(* try/catch.                                                               *)

Push(frame) == /\ Executing /\ Len(frames) < MaxFrames /\ journalCalls < MaxJournalCalls
               /\ frames' = Append(frames, frame)
               /\ journalCalls' = journalCalls + 1

Try ==
  /\ Push(Frame("try"))
  /\ UNCHANGED <<recording, journal, identities, printed, raised, captured, result>>

LastOnly(errors) == <<Last(errors)>>
RecoveredErrors(errors) == errors

(* recoverTryDiagnostic: everything since the try began is caught.          *)
LeaveTry ==
  /\ frames # <<>> /\ Innermost.kind = "try"
  /\ frames' = CallerOf
  /\ journal' = IF Innermost.errors = <<>> THEN journal
                ELSE [journal EXCEPT !.events = Disposed(@, RecoveredErrors(Innermost.errors), "caught")]
  /\ UNCHANGED <<recording, identities, printed, raised, journalCalls, captured, result>>

(* arrayfun and cellfun call a function; its errors fail the builtin, or    *)
(* the handler is called in their place and nobody disposes of them.        *)
CallElement ==
  /\ \E recover \in (IF ErrorHandlers THEN BOOLEAN ELSE {FALSE}) :
       Push([Frame("element") EXCEPT !.recover = recover])
  /\ UNCHANGED <<recording, journal, identities, printed, raised, captured, result>>

LeaveElement ==
  /\ frames # <<>> /\ Innermost.kind = "element"
  /\ frames' = IF Innermost.recover THEN CallerOf ELSE WithFailure(CallerOf, Innermost.errors)
  /\ UNCHANGED <<recording, journal, identities, printed, raised, journalCalls, captured, result>>

-----------------------------------------------------------------------------
(* Evaluated source: a nested VM, with the recorder of the control or its   *)
(* own, at a capture depth of its own for evalc; eval may have a catch      *)
(* expression.                                                              *)
EvaluateText ==
  /\ \E capture, recover \in BOOLEAN :
       Push([Frame("vm") EXCEPT !.capture = capture, !.recover = recover, !.owner = ~Recorder,
                                !.begin = Len(journal.events), !.from = Len(printed) + 1])
  /\ identities' = IF Recorder THEN identities ELSE identities + 1
  /\ journal' = IF Recorder THEN journal ELSE [identity |-> identities', events |-> <<>>]
  /\ UNCHANGED <<recording, printed, raised, captured, result>>

(* The nested VM ends: what escapes is unhandled for now; the text of an    *)
(* eval is replayed to the caller, that of an evalc returned.               *)
FinishText ==
  /\ Len(frames) > 1 /\ Innermost.kind = "vm"
  /\ LET texts == Rendered(Innermost.begin, Depth(frames))
         caught == Innermost.recover /\ Innermost.errors # <<>>
         events == Disposed(journal.events, Innermost.errors, IF caught THEN "caught" ELSE "unhandled")
         replayed == [i \in DOMAIN texts |-> [text |-> texts[i], replay |-> ~Innermost.owner, stamp |-> NoStamp]]
         below == IF Innermost.capture THEN CallerOf ELSE WithOutput(CallerOf, replayed)
     IN /\ frames' = IF Innermost.errors = <<>> \/ caught THEN below ELSE WithFailure(below, Innermost.errors)
        /\ journal' = IF Innermost.owner THEN NoJournal ELSE [journal EXCEPT !.events = events]
        /\ captured' = IF Innermost.capture
                       THEN [texts |-> texts, from |-> Innermost.from, to |-> Len(printed), depth |-> Depth(frames)]
                       ELSE captured
  /\ UNCHANGED <<recording, identities, printed, raised, journalCalls, result>>

(* A function of the parent VM called by evaluated source.                  *)
CallBack ==
  /\ Len(frames) > 1 /\ \E i \in 2 .. Len(frames) : frames[i].kind = "vm"
  /\ Push(Frame("callback"))
  /\ UNCHANGED <<recording, journal, identities, printed, raised, captured, result>>

(* Its texts pass through the evaluating VM's sink, which records what is   *)
(* neither a replay nor stamped by the recorder.                            *)
LeaveCallback ==
  /\ frames # <<>> /\ Innermost.kind = "callback"
  /\ LET output == Innermost.output
         unknown == Picked(output, {i \in DOMAIN output : ~AlreadyRecorded(output[i])})
     IN journal' = [journal EXCEPT !.events = WithTexts(@, unknown, Depth(frames))]
  /\ frames' = WithFailure(WithOutput(CallerOf, Innermost.output), Innermost.errors)
  /\ UNCHANGED <<recording, identities, printed, raised, journalCalls, captured, result>>

(* The invocation ends: complete() closes what nobody disposed of.          *)
Finish ==
  /\ Len(frames) = 1
  /\ frames' = <<>>
  /\ result' = <<Innermost.output, Innermost.errors>>
  /\ LET events == Disposed(journal.events, Innermost.errors, "unhandled")
     IN journal' = [journal EXCEPT !.events =
          [i \in DOMAIN events |->
             IF events[i].disposition = "raised" THEN [events[i] EXCEPT !.disposition = "unhandled"]
             ELSE events[i]]]
  /\ UNCHANGED <<recording, identities, printed, raised, journalCalls, captured>>

Step ==
  \/ PrintText \/ Raise \/ Validate \/ Try \/ CallElement \/ EvaluateText \/ CallBack
  \/ LeaveTry \/ LeaveElement \/ LeaveCallback \/ FinishText \/ Finish

JournalSpec == JournalInit /\ [][Step]_journalVars

-----------------------------------------------------------------------------
Finished == result # <<>>

(* The finished transcript calls exactly those errors unhandled that the    *)
(* invocation returned: none that a try, a catch expression or a handler    *)
(* recovered (docs/assignment-display-development.md, "Unhandled for a      *)
(* final escaping failure").                                                *)
UnhandledIsReturned ==
  Finished /\ recording
    => {i \in DOMAIN journal.events : journal.events[i].disposition = "unhandled"}
         = {stamp.sequence : stamp \in ToSet(result[2])}

(* Whoever printed it, at whatever nesting: every text reaches the output   *)
(* of the invocation, or the string of the evalc around it, exactly once    *)
(* and in the order it was printed.                                         *)
EachTextOnce ==
  LET PrintedAt(from, to, depth) == Ascending({i \in from .. to : printed[i] = depth}, to)
  IN /\ captured.texts = PrintedAt(captured.from, captured.to, captured.depth)
     /\ Finished => [i \in DOMAIN result[1] |-> result[1][i].text] = PrintedAt(1, Len(printed), 0)
     /\ Finished /\ recording => Rendered(0, 0) = PrintedAt(1, Len(printed), 0)

(* A transcript is true: it has every text once and calls no recovered      *)
(* error unhandled.                                                         *)
JournalIsTrue == UnhandledIsReturned /\ EachTextOnce

=============================================================================
