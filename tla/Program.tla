------------------------------- MODULE Program --------------------------------
(* The Geant4 program of the canonical template: a serial run manager executes the *)
(* commands of a macro, the user actions record into one OutputManager, and at the  *)
(* end of every run all output files are written. Energies are numbers of deposits. *)
(*                                                                               *)
(* The runner asks for n events by putting n into the first beamOn of the macro.    *)
EXTENDS OutputContract, Sequences, SequencesExt

CONSTANT Deposits(_)    \* the deposits of an event's steps in the detector, by event id

NoRun == [events |-> <<>>, deposits |-> <<>>, points |-> <<>>, current |-> 0,
          requested |-> 0]

BeginEvent(m) == [m EXCEPT !.current = 0]

\* SteppingAction: a track point for every step, a deposit if there is energy in it.
SteppingAction(m, id, edep) ==
    LET t == [m EXCEPT !.points = Append(@, id)]
    IN IF edep = 0 THEN t
       ELSE [t EXCEPT !.current = @ + edep,
                      !.deposits = Append(@, [event |-> id, edep |-> edep])]

EndEvent(m, id) == [m EXCEPT !.events = Append(@, [event |-> id, edep |-> m.current])]

Event(m, id) ==
    EndEvent(FoldLeft(LAMBDA s, e : SteppingAction(s, id, e), BeginEvent(m), Deposits(id)), id)

\* One run: event ids begin at zero in every run, what is recorded is never cleared.
BeamOn(m, n) ==
    [FoldLeft(LAMBDA s, i : Event(s, i - 1), m, [i \in 1..n |-> i]) EXCEPT !.requested = n]
Execute(macro) == FoldLeft(BeamOn, NoRun, macro)

\* prepare_self_check_macro: the first beamOn of the macro, or one at its end.
SelfCheck(macro, n) == IF macro = <<>> THEN <<n>> ELSE ReplaceAt(macro, 1, n)

\* WriteAll: the files after the last run, which replace those of the runs before.
\* Rows and deposits of all runs are in them; the summary speaks of the last run only.
\* The event table has not the columns of the output contract and the geometry no
\* positions: neither is usable as it is.
Speaks(n, usable) == [n |-> n, usable |-> usable]
EventsOf(deposits) == FoldLeft(LAMBDA n, d : IF d.event >= n THEN d.event + 1 ELSE n,
                               0, deposits)
WriteAll(m) ==
    [o \in Kept |->
        CASE o = "summary"    -> Speaks(m.requested, TRUE)
          [] o = "provenance" -> Speaks(m.requested, TRUE)
          [] o = "events"     -> Speaks(Len(m.events), FALSE)
          [] o = "mesh"       -> Speaks(Len(m.events), m.deposits # <<>>)
          [] o = "deposits"   -> Speaks(EventsOf(m.deposits), m.deposits # <<>>)
          [] o = "views"      -> Speaks(Len(m.events), FALSE)
          [] OTHER            -> None]

===============================================================================
