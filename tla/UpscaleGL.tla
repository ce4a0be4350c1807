------------------------------- MODULE UpscaleGL -------------------------------
(***************************************************************************)
(* UpscaleGL (wine/pe/upscalegl.c): the program sees a smaller display,    *)
(* and a top-level window that covers it is made to cover the real one     *)
(* while the program goes on seeing it at the size it asked for.           *)
(*                                                                         *)
(* Both axes are treated alike by the code; the model has one of them. A   *)
(* window's place is its left edge x and its width w. A window is created, *)
(* placed, given its procedure and destroyed by one thread at a time, and  *)
(* looked at by any number of them meanwhile.                              *)
(***************************************************************************)
EXTENDS Integers, FiniteSets

CONSTANTS
    TopWindows,    \* top-level windows of the program
    Lookers,       \* threads that look at windows (check_covering)
    Procs,         \* window procedures of the program
    RealWidth,     \* the real display mode
    DesktopWidth,  \* what the preset makes of it
    Widths,        \* widths the program asks for
    Lefts,         \* left edges it asks for
    TableSize      \* entries of windows_

UpscaleAssumption ==
    /\ IsFiniteSet(TopWindows)
    /\ RealWidth \in Nat \ {0} /\ DesktopWidth \in 1 .. RealWidth
    /\ Widths \subseteq 1 .. RealWidth /\ Lefts \subseteq Int
    /\ TableSize \in Nat

VARIABLES
    mode,      \* mode_width: the mode the program set, else the desktop
    sys,       \* what the system knows of each window
    table,     \* windows_: the program's windows with the subclass
    covering,  \* covering_count
    check,     \* where each thread is in check_covering
    mine,      \* the window procedure the program set last, or Torn
    asked      \* the width the program last asked for, and the mode then

upscaleVars == <<mode, sys, table, covering, check, mine, asked>>

Subclass == "subclass"     \* program_window_proc
NoWindow == [up |-> FALSE, hooked |-> FALSE, visible |-> FALSE,
             x |-> 0, w |-> 0, proc |-> Subclass]
Unasked == [w |-> 0, mode |-> 0]
NotLooking == [at |-> "idle"]

\* The procedure was set while another thread was between reading the old
\* one and putting the subclass in its place.
Torn == "torn"

-----------------------------------------------------------------------------
(* Coordinates. *)

\* MulDiv: rounded to the nearest.
MulDiv(a, b, c) == (a * b + c \div 2) \div c
Seen(x) == MulDiv(x, mode, RealWidth)
RealOf(x) == MulDiv(x, RealWidth, mode)

Covers(x, w, width) == x <= 0 /\ x + w >= width

Entries == DOMAIN table
Scaled(h) == h \in Entries /\ table[h].covers
ScreenScaled == covering > 0

\* hook_GetWindowRect and hook_GetClientRect after their check_covering.
SeenWidth(h) == IF Scaled(h) THEN Seen(sys[h].w) ELSE sys[h].w
SeenLeft(h) == IF Scaled(h) THEN Seen(sys[h].x) ELSE sys[h].x

\* Where a message of the window ends: program_window_proc passes it on.
Receiver(h) == IF sys[h].proc # Subclass THEN sys[h].proc
               ELSE IF h \in Entries THEN table[h].proc ELSE Subclass

Without(h) == [g \in Entries \ {h} |-> table[g]]
With(h, entry) == [g \in Entries \cup {h} |-> IF g = h THEN entry ELSE table[g]]
HasRoom == Cardinality(Entries) < TableSize

-----------------------------------------------------------------------------
Checked(h) == \E t \in Lookers : check[t] # NotLooking /\ check[t].h = h

\* A thread is about to take the procedure it read for the program's.
Subclassing(h) == \E t \in Lookers : check[t].at \in {"add", "install"} /\ check[t].h = h

\* What check_covering goes on with, of a window that covers the screen.
Looked(h) ==
    [at |-> IF sys[h].proc = Subclass THEN "flag" ELSE "add", h |-> h, proc |-> sys[h].proc]

UpscaleInit ==
    /\ mode = DesktopWidth
    /\ sys = [h \in TopWindows |-> NoWindow]
    /\ table = << >>
    /\ covering = 0
    /\ check = [t \in Lookers |-> NotLooking]
    /\ mine = [h \in TopWindows |-> Subclass]
    /\ asked = [h \in TopWindows |-> Unasked]

\* change_mode: up to the real size; the real mode stays.
ChangeMode(w) ==
    /\ w = DesktopWidth \/ w <= RealWidth
    /\ mode' = w
    /\ UNCHANGED <<sys, table, covering, check, mine, asked>>

\* hook_CreateWindowEx: created as asked, subclassed, and when it covers
\* the screen the program sees, flagged and placed over the real one.
CreateWindow(h, x, w, p) ==
    LET added == h \notin Entries /\ HasRoom
        over == Covers(x, w, mode)
        entry == [proc |-> p, covers |-> over]
    IN  /\ ~sys[h].up
        /\ table' = IF added THEN With(h, entry) ELSE table
        /\ covering' = IF added /\ over THEN covering + 1 ELSE covering
        /\ sys' = [sys EXCEPT ![h] =
              [up |-> TRUE, hooked |-> TRUE, visible |-> FALSE,
               x |-> IF over THEN RealOf(x) ELSE x,
               w |-> IF over THEN RealOf(w) ELSE w,
               proc |-> IF added THEN Subclass ELSE p]]
        /\ mine' = [mine EXCEPT ![h] = p]
        /\ asked' = [asked EXCEPT ![h] = [w |-> w, mode |-> mode]]
        /\ UNCHANGED <<mode, check>>

\* A window made before the hooks, or by a module without them.
CreateUnhooked(h, x, w, p) ==
    /\ ~sys[h].up
    /\ sys' = [sys EXCEPT ![h] = [up |-> TRUE, hooked |-> FALSE, visible |-> TRUE,
                                  x |-> x, w |-> w, proc |-> p]]
    /\ mine' = [mine EXCEPT ![h] = p]
    /\ asked' = [asked EXCEPT ![h] = Unasked]
    /\ UNCHANGED <<mode, table, covering, check>>

\* hook_SetWindowPos and hook_MoveWindow through place_window, and the
\* messages of the move: the program's procedure may change the width while
\* it is changing (WM_WINDOWPOSCHANGING), and is told it when it did. Between
\* forget_scaled and the move, other threads may still find the window over
\* the whole screen. A width set while others look is not held against them.
Place(h, move, size, x, w) ==
    LET left == IF move THEN x ELSE SeenLeft(h)
        over == IF size THEN Covers(left, w, mode) ELSE Scaled(h)
        known == h \in Entries \/ (over /\ HasRoom)
        scaled == known /\ over
        realX == IF ~move THEN sys[h].x ELSE IF scaled THEN RealOf(x) ELSE x
        realW == IF ~size THEN sys[h].w ELSE IF scaled THEN RealOf(w) ELSE w
        sent == scaled /\ (h \in Entries => sys[h].proc = Subclass)
        shown == IF sent THEN Seen(realW) ELSE realW
        stillOver == size /\ ~scaled /\ sys[h].visible /\ Covers(sys[h].x, sys[h].w, RealWidth)
        idle == {t \in Lookers : check[t] = NotLooking}
    IN /\ sys[h].up /\ (move \/ size)
       /\ \E changed \in IF size THEN Widths \cup {shown} ELSE {shown},
             late \in SUBSET (IF stillOver THEN idle ELSE {}) :
        \* What the procedure leaves alone stays as it was.
        LET finalW == IF changed = shown THEN realW ELSE IF sent THEN RealOf(changed) ELSE changed IN
        /\ table' = IF ~known THEN table
                    ELSE With(h, [proc |-> IF h \in Entries THEN table[h].proc ELSE sys[h].proc,
                                  covers |-> over])
        /\ covering' = covering + (IF scaled THEN 1 ELSE 0) - (IF Scaled(h) THEN 1 ELSE 0)
        /\ sys' = [sys EXCEPT ![h].x = realX, ![h].w = finalW,
                              ![h].proc = IF known /\ h \notin Entries THEN Subclass ELSE @]
        /\ asked' = [asked EXCEPT ![h] =
              IF ~size THEN @
              ELSE IF Checked(h) \/ late # {} THEN Unasked
              ELSE [w |-> changed, mode |-> mode]]
        /\ check' = [t \in Lookers |-> IF t \in late THEN Looked(h) ELSE check[t]]
        /\ UNCHANGED <<mode, mine>>

\* The window manager, or the user, maximizes the window.
Maximize(h) ==
    /\ sys[h].up
    /\ sys' = [sys EXCEPT ![h].x = 0, ![h].w = RealWidth, ![h].visible = TRUE]
    /\ asked' = [asked EXCEPT ![h] = Unasked]
    /\ UNCHANGED <<mode, table, covering, check, mine>>

\* hook_ShowWindow shows the window; its check_covering follows.
Show(h) ==
    /\ sys[h].up /\ ~sys[h].visible
    /\ sys' = [sys EXCEPT ![h].visible = TRUE]
    /\ UNCHANGED <<mode, table, covering, check, mine, asked>>

-----------------------------------------------------------------------------
(* check_covering, called by hook_ShowWindow, hook_GetClientRect and       *)
(* hook_GetWindowRect in any thread. It takes the lock twice and reads     *)
(* the window procedure before.                                            *)

\* Its conditions, and subclass_window's look at the window procedure.
CheckCovering(t, h) ==
    /\ check[t] = NotLooking
    /\ sys[h].up /\ sys[h].visible /\ ~Scaled(h)
    /\ Covers(sys[h].x, sys[h].w, RealWidth)
    /\ check' = [check EXCEPT ![t] = Looked(h)]
    /\ UNCHANGED <<mode, sys, table, covering, mine, asked>>

\* subclass_window's entry, under the lock.
AddEntry(t) ==
    /\ check[t].at = "add"
    /\ LET h == check[t].h
           added == h \notin Entries /\ HasRoom
       IN  /\ table' = IF added THEN With(h, [proc |-> check[t].proc, covers |-> FALSE]) ELSE table
           /\ check' = [check EXCEPT ![t].at = IF added THEN "install" ELSE "flag"]
    /\ UNCHANGED <<mode, sys, covering, mine, asked>>

\* SetWindowLongPtr, outside the lock.
InstallSubclass(t) ==
    /\ check[t].at = "install"
    /\ sys' = [sys EXCEPT ![check[t].h].proc = Subclass]
    /\ check' = [check EXCEPT ![t].at = "flag"]
    /\ UNCHANGED <<mode, table, covering, mine, asked>>

\* scale_window, under the lock.
ScaleWindow(t) ==
    /\ check[t].at = "flag"
    /\ LET h == check[t].h
           now == h \in Entries /\ ~table[h].covers
       IN  /\ table' = IF now THEN [table EXCEPT ![h].covers = TRUE] ELSE table
           /\ covering' = IF now THEN covering + 1 ELSE covering
    /\ check' = [check EXCEPT ![t] = NotLooking]
    /\ UNCHANGED <<mode, sys, mine, asked>>

-----------------------------------------------------------------------------
\* hook_SetWindowLong(Ptr) of GWLP_WNDPROC: of a window in the table, in the
\* table; of others, in the system.
SetProc(h, p) ==
    /\ sys[h].up
    /\ IF h \in Entries
       THEN table' = [table EXCEPT ![h].proc = p] /\ UNCHANGED sys
       ELSE sys' = [sys EXCEPT ![h].proc = p] /\ UNCHANGED table
    /\ mine' = [mine EXCEPT ![h] = IF Subclassing(h) THEN Torn ELSE p]
    /\ UNCHANGED <<mode, covering, check, asked>>

\* Mutant: a window that covered the screen is not taken off the count.
DestroyUncounted(h) ==
    /\ sys[h].up /\ ~Checked(h)
    /\ table' = IF sys[h].proc = Subclass /\ h \in Entries THEN Without(h) ELSE table
    /\ sys' = [sys EXCEPT ![h] = NoWindow]
    /\ mine' = [mine EXCEPT ![h] = Subclass]
    /\ asked' = [asked EXCEPT ![h] = Unasked]
    /\ UNCHANGED <<mode, covering, check>>

\* The last message of a window, WM_NCDESTROY: forget_scaled(hwnd, TRUE) when
\* the subclass gets it. A program destroys no window another thread of it is
\* asking about.
Destroy(h) ==
    /\ sys[h].up /\ ~Checked(h)
    /\ IF sys[h].proc = Subclass /\ h \in Entries
       THEN /\ table' = Without(h)
            /\ covering' = IF table[h].covers THEN covering - 1 ELSE covering
       ELSE UNCHANGED <<table, covering>>
    /\ sys' = [sys EXCEPT ![h] = NoWindow]
    /\ mine' = [mine EXCEPT ![h] = Subclass]
    /\ asked' = [asked EXCEPT ![h] = Unasked]
    /\ UNCHANGED <<mode, check>>

UpscaleNext ==
    \/ \E w \in Widths \cup {DesktopWidth} : ChangeMode(w)
    \/ \E h \in TopWindows, x \in Lefts, w \in Widths, p \in Procs :
          CreateWindow(h, x, w, p) \/ CreateUnhooked(h, x, w, p)
    \/ \E h \in TopWindows, move, size \in BOOLEAN :
          \E x \in IF move THEN Lefts ELSE {0}, w \in IF size THEN Widths ELSE {0} :
             Place(h, move, size, x, w)
    \/ \E h \in TopWindows : Maximize(h) \/ Show(h) \/ Destroy(h)
    \/ \E t \in Lookers, h \in TopWindows : CheckCovering(t, h)
    \/ \E t \in Lookers : AddEntry(t) \/ InstallSubclass(t) \/ ScaleWindow(t)
    \/ \E h \in TopWindows, p \in Procs : SetProc(h, p)

UpscaleSpec == UpscaleInit /\ [][UpscaleNext]_upscaleVars

-----------------------------------------------------------------------------
\* Screen coordinates (the cursor, mouse messages) are scaled exactly while
\* a window the program has covers the screen: the count neither leaks nor
\* runs short, whichever way a window stops covering (placed, destroyed).
ScreenScaledTruly ==
    /\ covering = Cardinality({h \in Entries : table[h].covers})
    /\ ScreenScaled => \E h \in TopWindows : sys[h].up /\ Scaled(h)

\* Whether a width is known that the window was asked for: of no placement
\* another thread looked into, and not of the whole real display, unless the
\* program sees all of it.
Askable(h) == asked[h].mode # 0 /\ (asked[h].w < RealWidth \/ asked[h].mode = RealWidth)

\* A window with an entry in the table is seen at the width the program
\* asked for last in this mode, whether it is shown at that width or over
\* the whole screen, and whichever threads look at it.
AskedIsSeen ==
    \A h \in Entries :
        sys[h].up /\ ~Checked(h) /\ Askable(h) /\ asked[h].mode = mode => SeenWidth(h) = asked[h].w

\* Messages of a window made through the hooks reach the procedure the
\* program set last, once, whichever of its threads look at the window: all
\* but one set at the moment another thread puts the subclass in place.
Reached(h) == sys[h].up /\ sys[h].hooked /\ mine[h] # Torn => Receiver(h) = mine[h]
MessagesReachProgram == \A h \in TopWindows : Reached(h)

ScalingSound == ScreenScaledTruly /\ AskedIsSeen /\ MessagesReachProgram

-----------------------------------------------------------------------------
WindowState == [up : BOOLEAN, hooked : BOOLEAN, visible : BOOLEAN,
                x : Int, w : Nat, proc : Procs \cup {Subclass}]
EntryState == [proc : Procs \cup {Subclass}, covers : BOOLEAN]
CheckState == [at : {"add", "install", "flag"}, h : TopWindows, proc : Procs \cup {Subclass}]

UpscaleTypeOK ==
    /\ mode \in 1 .. RealWidth
    /\ sys \in [TopWindows -> WindowState]
    /\ table \in [Entries -> EntryState]
    /\ Entries \subseteq TopWindows
    /\ covering \in Int
    /\ check \in [Lookers -> {NotLooking} \cup CheckState]
    /\ mine \in [TopWindows -> Procs \cup {Subclass, Torn}]
    /\ asked \in [TopWindows -> [w : Nat, mode : 0 .. RealWidth]]

Covering == {h \in Entries : table[h].covers}

\* An entry is of a window there is, which has the subclass or gets it.
EntryInUse(h) ==
    h \in Entries =>
        /\ sys[h].up
        /\ sys[h].proc = Subclass \/ \E t \in Lookers : check[t].at = "install" /\ check[t].h = h

\* What check_covering found is still so, as far as it matters.
CheckHolds(h) ==
    \A t \in Lookers : check[t] # NotLooking /\ check[t].h = h =>
        /\ sys[h].up
        /\ Askable(h) => sys[h].w >= RealWidth
        /\ check[t].at = "add" /\ h \notin Entries /\ mine[h] # Torn => check[t].proc = sys[h].proc
        /\ check[t].at = "install" =>
              h \in Entries /\ (mine[h] # Torn => sys[h].proc \in {Subclass, table[h].proc})

\* How wide a window is: as it was asked for, or as the screen made it.
AsAsked(h) == sys[h].w = asked[h].w
OverScreen(h) == MulDiv(sys[h].w, asked[h].mode, RealWidth) = asked[h].w
WidthKnown(h) ==
    sys[h].up /\ Askable(h) =>
        /\ AsAsked(h) \/ OverScreen(h)
        /\ h \in Covering => OverScreen(h)
        /\ h \in Entries \ Covering /\ ~Checked(h) => AsAsked(h)

WindowHolds(h) == EntryInUse(h) /\ CheckHolds(h) /\ WidthKnown(h) /\ Reached(h)

UpscaleIInv ==
    /\ UpscaleTypeOK
    /\ covering = Cardinality(Covering)
    /\ \A h \in TopWindows : WindowHolds(h)
=============================================================================
