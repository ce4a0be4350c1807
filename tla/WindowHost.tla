------------------------------- MODULE WindowHost ------------------------------
(***************************************************************************)
(* Where a window's frames are shown (wine/unix/unix_window.m): a view of  *)
(* ours in the Cocoa window of the window's top level, placed by blocks    *)
(* the main thread runs later, with holes for child windows.               *)
(*                                                                         *)
(* A placement is its top level and its holes; its rectangles go the same  *)
(* way and are left out. A Cocoa window is [top, made]: a top level's      *)
(* window may close and another one open.                                  *)
(***************************************************************************)
EXTENDS Naturals, Sequences, FiniteSets

CONSTANTS
    Tops,        \* top-level windows the window may be in
    Holes,       \* its child windows
    MaxMade,     \* Cocoa windows opened for a top level
    MaxQueue,    \* blocks waiting for the main thread
    MaxTimers    \* timers waiting, before the program changes its windows again

ASSUME HostAssumption ==
    "none" \notin Tops   \* a placement is told from the end

VARIABLES
    wanted,      \* the placement the PE side sends with the next call
    placement,   \* host->placement: the one last asked for
    placed,      \* host->placed
    queue,       \* the main queue: placements, and the end
    latest,      \* host->latest
    superview,   \* the Cocoa window the view is in
    observed,    \* the Cocoa window whose closing clears `placed`
    shown,       \* host->holes: the holes in the mask
    holeWait,    \* host->hole_wait
    timers,      \* dispatch_after blocks not yet run
    gone,        \* host->gone
    open,        \* the open Cocoa windows
    opened,      \* how many each top level has had
    hosted       \* wmgl_window_destroy has not been called

hostVars == <<wanted, placement, placed, queue, latest, superview, observed, shown,
          holeWait, timers, gone, open, opened, hosted>>
mainThread == <<latest, superview, observed, shown, holeWait, timers, gone>>

NoCocoa == [top |-> "none", made |-> 0]
TheEnd == [top |-> "none", holes |-> {}]   \* the block of wmgl_window_destroy
Placements == [top : Tops, holes : SUBSET Holes]

\* The Cocoa window of a top level, as the loop over [NSApp windows] finds it.
CocoaWindow(top) == {c \in open : c.top = top}

HostInit ==
    /\ wanted \in {p \in Placements : p.holes = {}}
    /\ placement = wanted
    /\ placed = FALSE
    /\ queue = <<wanted>>     \* wmgl_window_create
    /\ latest = wanted
    /\ superview = NoCocoa
    /\ observed = NoCocoa
    /\ shown = {}
    /\ holeWait = 0
    /\ timers = 0
    /\ gone = FALSE
    /\ open = {}
    /\ opened = [t \in Tops |-> 0]
    /\ hosted = TRUE

-----------------------------------------------------------------------------
(* The program and winemac. *)

\* The window is given another parent, or child windows come and go.
Change(p) ==
    /\ hosted /\ p # wanted /\ timers < MaxTimers
    /\ wanted' = p
    /\ UNCHANGED <<placement, placed, queue, open, opened, hosted, mainThread>>

OpenCocoa(t) ==
    /\ CocoaWindow(t) = {} /\ opened[t] < MaxMade
    /\ opened' = [opened EXCEPT ![t] = @ + 1]
    /\ open' = open \cup {[top |-> t, made |-> opened'[t]]}
    /\ UNCHANGED <<wanted, placement, placed, queue, hosted, mainThread>>

\* Mutant: a closing window stays the one the view was placed in.
CloseCocoaUnseen(c) ==
    /\ c \in open
    /\ open' = open \ {c}
    /\ UNCHANGED <<wanted, placement, placed, queue, opened, hosted, mainThread>>

\* NSWindowWillCloseNotification, on the main thread.
CloseCocoa(c) ==
    /\ c \in open
    /\ open' = open \ {c}
    /\ placed' = IF observed = c THEN FALSE ELSE placed
    /\ UNCHANGED <<wanted, placement, queue, opened, hosted, mainThread>>

-----------------------------------------------------------------------------
(* The thread of the GL call. *)

\* wmgl_window_place, at every make-current, swap and change of children.
Place ==
    /\ hosted
    /\ ~(placed /\ placement = wanted)
    /\ Len(queue) < MaxQueue
    /\ placement' = wanted
    /\ queue' = Append(queue, wanted)
    /\ UNCHANGED <<wanted, placed, open, opened, hosted, mainThread>>

\* wmgl_window_destroy.
DestroyHost ==
    /\ hosted
    /\ Len(queue) < MaxQueue
    /\ hosted' = FALSE
    /\ queue' = Append(queue, TheEnd)
    /\ UNCHANGED <<wanted, placement, placed, open, opened, mainThread>>

-----------------------------------------------------------------------------
(* The main thread. *)

\* place_on_main_thread, for a block of the queue or a timer. make_holes: holes
\* that go, go at once; new ones wait for a timer, armed unless one is waited for.
PlaceOnMainThread(p, wait) ==
    IF gone
    THEN /\ holeWait' = wait
         /\ UNCHANGED <<latest, superview, observed, shown, placed>>
    ELSE /\ latest' = p
         /\ IF CocoaWindow(p.top) = {}
            THEN /\ placed' = FALSE
                 /\ holeWait' = wait
                 /\ UNCHANGED <<superview, observed, shown>>
            ELSE \E c \in CocoaWindow(p.top) :
                 /\ superview' = c
                 /\ observed' = c
                 /\ shown' = IF wait = 2 THEN p.holes ELSE p.holes \cap shown
                 /\ holeWait' = IF shown' = p.holes THEN 0 ELSE IF wait = 0 THEN 1 ELSE wait
                 /\ placed' = TRUE

\* A new hole arms a timer unless one is waited for.
Armed(wait) == wait = 0 /\ holeWait' = 1

RunPlacement ==
    /\ queue # << >> /\ Head(queue) # TheEnd
    /\ queue' = Tail(queue)
    /\ PlaceOnMainThread(Head(queue), holeWait)
    /\ timers' = timers + (IF Armed(holeWait) THEN 1 ELSE 0)
    /\ UNCHANGED <<wanted, placement, gone, open, opened, hosted>>

\* Mutant: the timer comes to holes that still wait.
RunTimerWaiting ==
    /\ timers > 0
    /\ PlaceOnMainThread(latest, holeWait)
    /\ timers' = timers - 1
    /\ UNCHANGED <<wanted, placement, queue, gone, open, opened, hosted>>

\* The holes are due.
RunTimer ==
    /\ timers > 0
    /\ PlaceOnMainThread(latest, 2)
    /\ timers' = timers - 1
    /\ UNCHANGED <<wanted, placement, queue, gone, open, opened, hosted>>

\* Mutant: the host does not know that its view is gone.
RunDestroyUnknown ==
    /\ queue # << >> /\ Head(queue) = TheEnd
    /\ queue' = Tail(queue)
    /\ superview' = NoCocoa
    /\ observed' = NoCocoa
    /\ UNCHANGED <<wanted, placement, placed, latest, shown, holeWait, timers, gone, open, opened, hosted>>

\* The block of wmgl_window_destroy.
RunDestroy ==
    /\ queue # << >> /\ Head(queue) = TheEnd
    /\ queue' = Tail(queue)
    /\ gone' = TRUE
    /\ superview' = NoCocoa
    /\ observed' = NoCocoa
    /\ UNCHANGED <<wanted, placement, placed, latest, shown, holeWait, timers, open, opened, hosted>>

HostNext ==
    \/ \E p \in Placements : Change(p)
    \/ \E t \in Tops : OpenCocoa(t)
    \/ \E c \in open : CloseCocoa(c)
    \/ Place \/ DestroyHost
    \/ RunPlacement \/ RunTimer \/ RunDestroy

\* The main thread runs its blocks and timers, and the program goes on
\* swapping. Nothing makes it change its windows.
HostFairness == WF_hostVars(RunPlacement) /\ WF_hostVars(RunTimer) /\ WF_hostVars(RunDestroy) /\ WF_hostVars(Place)

HostSpec == HostInit /\ [][HostNext]_hostVars /\ HostFairness

-----------------------------------------------------------------------------
HostTypeOK ==
    /\ wanted \in Placements /\ placement \in Placements /\ latest \in Placements
    /\ queue \in Seq(Placements \cup {TheEnd})
    /\ shown \in SUBSET Holes
    /\ holeWait \in 0..2 /\ timers \in Nat
    /\ placed \in BOOLEAN /\ gone \in BOOLEAN /\ hosted \in BOOLEAN

\* The end is the last of the queue, from wmgl_window_destroy to its block.
EndIsLast ==
    /\ gone => ~hosted /\ queue = << >>
    /\ \A i \in DOMAIN queue : queue[i] = TheEnd <=> ~hosted /\ i = Len(queue)
    /\ ~hosted /\ queue = << >> => gone

\* While there is a host, the last placement asked for is the last in the queue,
\* or the last the main thread took.
LatestIsPlacement ==
    hosted => placement = IF queue = << >> THEN latest ELSE queue[Len(queue)]

\* While `placed` is set, the view is where its last placement put it.
ViewInPlace ==
    placed /\ ~gone => /\ superview \in open /\ superview.top = latest.top
                      /\ observed = superview

HostIInv == HostTypeOK /\ EndIsLast /\ LatestIsPlacement /\ ViewInPlace

-----------------------------------------------------------------------------
\* `placed` may be trusted: while it is set and nothing waits for the main
\* thread, the view is in the open Cocoa window of the placement asked for.
\* A call that changes nothing then really has nothing to do.
PlacedIsTrue ==
    placed /\ hosted /\ queue = << >> =>
        /\ superview \in open /\ superview.top = placement.top
        /\ latest = placement

\* The block of wmgl_window_destroy has run.
Off == ~hosted /\ \A i \in DOMAIN queue : queue[i] # TheEnd

\* Once a host's view is off, no timer still waiting puts it back.
GoneStaysOff == [][Off => superview' = superview /\ shown' = shown]_hostVars

\* A window that is to stay where it is, in a Cocoa window that stays open, is
\* shown there with exactly its holes.
Steady(p, c) == hosted /\ wanted = p /\ CocoaWindow(p.top) = {c}
ViewFollows ==
    \A p \in Placements : \A c \in [top : {p.top}, made : 1..MaxMade] :
        <>[]Steady(p, c) => <>[](superview = c /\ shown = p.holes)
=============================================================================
