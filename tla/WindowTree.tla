----------------------------- MODULE WindowTree -----------------------------
(***************************************************************************)
(* Windows exist twice: as WindowState in WinEvent, which the guest's      *)
(* calls change under one lock, and as host windows of the UI thread,      *)
(* which learns of every change by a command on a channel and reports the  *)
(* user's moves back.  The UI thread sleeps in its event loop; the sender  *)
(* of a command posts one wake-up event while UI_WAKE_PENDING is clear.    *)
(* A call of the guest holds the lock throughout and is one step.  While a *)
(* window procedure answers WM_NCCREATE and WM_CREATE the guest makes      *)
(* further calls, so creations nest.                                       *)
(***************************************************************************)
EXTENDS Integers, Sequences, FiniteSets, SequencesExt

CONSTANTS
  Places,     \* positions of a window
  MaxHwnd,    \* bound: windows created
  MaxDepth,   \* bound: creations inside creations
  MaxCalls,   \* bound: creations, other calls of the guest and moves by the user
  MaxCmds     \* bound: commands waiting when the guest makes a call

ASSUME WindowTreeAssumption ==
  /\ Places # {} /\ Places \subseteq Nat
  /\ {MaxHwnd, MaxDepth, MaxCalls, MaxCmds} \subseteq Nat

VARIABLES
  win,     \* WinEvent::windows
  next,    \* the handle the next window gets
  making,  \* the calls of CreateWindowEx that wait for a window procedure
  main,    \* WinEvent::main_guest_hwnd
  mainSeen,\* WinEvent::main_guest_window_registered
  boxed,   \* the emulator thread waits in message_box
  calls,   \* creations, other calls and moves by the user so far
  cmds,    \* the channel of UiCommand
  wake,    \* UI_WAKE_PENDING, and whether the event loop holds the event
  ui,      \* "asleep", "woken", or "draining" in process_ui_commands
  host,    \* the host windows, by the guest's handle
  uiMain,  \* WinFrame::main_guest_hwnd
  uiSeen,  \* WinFrame::main_guest_window_registered
  forced,  \* WinFrame::main_guest_window_forced_visible
  moved,   \* WindowEvent::Moved events not handled yet
  dialog,  \* the message box: "none", "open" or "answered"
  over,    \* why the event loop ended, or "no"
  untold   \* windows whose visibility changed without a command saying so

guest == <<win, next, making, main, mainSeen, boxed>>
hosts == <<host, uiMain, uiSeen, forced, over>>
vars  == <<guest, calls, hosts, cmds, wake, ui, moved, dialog, untold>>

NoWindow == 0
Handles  == 0 .. MaxHwnd

\* The places SetWindowPos knows besides "behind this window".
Top    == 0
Bottom == -1
Keep   == -2  \* SWP_NOZORDER

----------------------------------------------------------------------------
(* The window tree. *)

\* A child in the parent's coordinates; an owned popup has a parent, too.
InParent(w, h) == h \in DOMAIN w /\ w[h].parent # NoWindow /\ w[h].child

\* By z-order and then by handle.
Below(w, a, b) == w[a].z < w[b].z \/ (w[a].z = w[b].z /\ a < b)
Sorted(w, S) ==
  [i \in 1 .. Cardinality(S) |->
     CHOOSE h \in S : Cardinality({k \in S : Below(w, k, h)}) = i - 1]

\* child_windows: everything with that parent.
Children(w, p) == {h \in DOMAIN w : w[h].parent = p}
Kids(w, p)     == Sorted(w, Children(w, p))

\* A parent has a smaller handle than its children.  Children of a handle
\* that is gone are still found below it.
Postorder(w, root) ==
  LET order[h \in Handles] ==
        FlattenSeq([i \in DOMAIN Kids(w, h) |-> order[Kids(w, h)[i]]])
          \o (IF h \in DOMAIN w THEN <<h>> ELSE <<>>)
  IN order[root]

\* Mutant: window_subtree_postorder puts a window before its children.
ParentsFirst(w, root) ==
  LET order[h \in Handles] ==
        (IF h \in DOMAIN w THEN <<h>> ELSE <<>>)
          \o FlattenSeq([i \in DOMAIN Kids(w, h) |-> order[Kids(w, h)[i]]])
  IN order[root]

DestroyOrder(w, root) == Postorder(w, root)

Preorder(w, root) ==
  LET order[h \in Handles] ==
        IF h \notin DOMAIN w THEN <<>>
        ELSE <<h>> \o FlattenSeq([i \in DOMAIN Kids(w, h) |-> order[Kids(w, h)[i]]])
  IN order[root]

\* effective_host_visibility: a child is seen only with all its parents.
Shown(w, hwnd) ==
  LET seen[h \in Handles] ==
        /\ h \in DOMAIN w
        /\ w[h].visible
        /\ InParent(w, h) => seen[w[h].parent]
  IN seen[hwnd]

\* Mutant: sync_subtree_host_visibility looks at the window's own flag.
OwnFlag(w, h) == w[h].visible

Effective(w, h) == Shown(w, h)

----------------------------------------------------------------------------
(* The channel to the UI thread. *)

CreateCmd(w, h) ==
  [op |-> "create", hwnd |-> h, parent |-> w[h].parent, child |-> w[h].child,
   visible |-> Effective(w, h), pos |-> w[h].pos]
MoveCmd(w, h) == [op |-> "move", hwnd |-> h, pos |-> w[h].pos]
ShowCmd(h, v) == [op |-> "show", hwnd |-> h, visible |-> v]
DestroyCmd(h) == [op |-> "destroy", hwnd |-> h]
BoxCmd        == [op |-> "box"]

ShowTree(w, h) ==
  LET tree == Preorder(w, h) IN
    [i \in DOMAIN tree |-> ShowCmd(tree[i], Effective(w, tree[i]))]

\* wake_ui_event_loop posts nothing while an earlier event is unanswered.
Woken == IF wake.pending THEN wake ELSE [pending |-> TRUE, event |-> TRUE]

Tell(commands) ==
  /\ cmds' = cmds \o commands
  /\ wake' = IF commands = <<>> THEN wake ELSE Woken

----------------------------------------------------------------------------
(* Calls of the guest. *)

Init ==
  /\ win = <<>> /\ next = 1 /\ making = <<>> /\ boxed = FALSE /\ calls = 0
  /\ main = NoWindow /\ mainSeen = FALSE
  /\ cmds = <<>> /\ wake = [pending |-> FALSE, event |-> FALSE] /\ ui = "asleep"
  /\ host = <<>> /\ uiMain = NoWindow /\ uiSeen = FALSE /\ forced = FALSE
  /\ moved = <<>> /\ dialog = "none" /\ over = "no" /\ untold = {}

\* The emulator thread runs and has not filled the channel.
GuestRuns == over = "no" /\ ~boxed /\ Len(cmds) <= MaxCmds

GuestCalls == GuestRuns /\ calls < MaxCalls /\ calls' = calls + 1

\* WinEvent::create_window: the first window without a parent is the main one.
Register(h, state) ==
  /\ win' = [x \in DOMAIN win \cup {h} |-> IF x = h THEN state ELSE win[x]]
  /\ LET first == ~mainSeen /\ state.parent = NoWindow /\ ~state.child IN
       /\ main' = IF first THEN h ELSE main
       /\ mainSeen' = (mainSeen \/ first)

NewState(parent, child, visible, pos) ==
  [parent |-> parent, child |-> child, visible |-> visible, pos |-> pos, z |-> 0]

\* The host creates a window without a parent visible, whatever the guest says.
Untold(w, h) == IF w[h].parent = NoWindow /\ ~Effective(w, h) THEN {h} ELSE {}

Realize(w, h) ==
  Tell(<<CreateCmd(w, h)>>) /\ untold' = (untold \ {h}) \cup Untold(w, h)

\* A class with a window procedure: the state is there before the answers are.
CreateBegin(parent, child, visible, pos) ==
  /\ GuestCalls /\ next <= MaxHwnd /\ Len(making) < MaxDepth
  /\ Register(next, NewState(parent, child, visible, pos))
  /\ making' = Append(making, next)
  /\ next' = next + 1
  /\ UNCHANGED <<boxed, hosts, cmds, wake, ui, moved, dialog, untold>>

CreateEnd ==
  /\ GuestRuns /\ making # <<>>
  /\ making' = Front(making)
  /\ IF Last(making) \in DOMAIN win THEN Realize(win, Last(making))
     ELSE UNCHANGED <<cmds, wake, untold>>
  /\ UNCHANGED <<win, next, main, mainSeen, boxed, calls, hosts, ui, moved, dialog>>

\* A class without one: nothing comes between.
CreatePlain(parent, child, visible, pos) ==
  /\ GuestCalls /\ next <= MaxHwnd
  /\ Register(next, NewState(parent, child, visible, pos))
  /\ Realize(win', next)
  /\ next' = next + 1
  /\ UNCHANGED <<making, boxed, hosts, ui, moved, dialog>>

\* destroy_window: the window, its children and the popups it owns.
DestroyTree(h) ==
  LET doomed == DestroyOrder(win, h) IN
    /\ win' = [x \in DOMAIN win \ ToSet(doomed) |-> win[x]]
    /\ main' = IF main \in ToSet(doomed) THEN NoWindow ELSE main
    /\ Tell([i \in DOMAIN doomed |-> DestroyCmd(doomed[i])])
    /\ untold' = untold \ ToSet(doomed)

\* WM_NCCREATE answered 0, or WM_CREATE -1.
CreateRejected ==
  /\ GuestRuns /\ making # <<>>
  /\ making' = Front(making)
  /\ DestroyTree(Last(making))
  /\ UNCHANGED <<next, mainSeen, boxed, calls, hosts, ui, moved, dialog>>

DestroyWindow(h) ==
  /\ GuestCalls
  /\ DestroyTree(h)
  /\ UNCHANGED <<next, making, mainSeen, boxed, hosts, ui, moved, dialog>>

Unmoved == <<next, making, main, mainSeen, boxed, hosts, ui, moved, dialog>>

SubtreeOf(w, h) == ToSet(Preorder(w, h))

ShowWindow(h, visible) ==
  /\ GuestCalls
  /\ win' = IF h \in DOMAIN win THEN [win EXCEPT ![h].visible = visible] ELSE win
  /\ Tell(ShowTree(win', h))
  /\ untold' = untold \ SubtreeOf(win, h)
  /\ UNCHANGED Unmoved

\* set_window_pos puts the window behind another one and numbers the siblings anew.
Reordered(w, h, after) ==
  LET parent == IF h \in DOMAIN w THEN w[h].parent ELSE NoWindow
      others == Sorted(w, Children(w, parent) \ {h})
      index  == CASE after = Bottom -> 0
                  [] after \in ToSet(others) -> CHOOSE i \in DOMAIN others : others[i] = after
                  [] OTHER -> Len(others)
  IN InsertAt(others, index + 1, h)

Restacked(w, h, after) ==
  LET order == Reordered(w, h, after) IN
    [x \in DOMAIN w |->
       IF x \in ToSet(order)
       THEN [w[x] EXCEPT !.z = (CHOOSE i \in DOMAIN order : order[i] = x) - 1]
       ELSE w[x]]

\* Mutant: only the window itself gets its new index.
OnlyItself(w, h, after) ==
  LET order == Reordered(w, h, after) IN
    IF h \in DOMAIN w
    THEN [w EXCEPT ![h].z = (CHOOSE i \in DOMAIN order : order[i] = h) - 1]
    ELSE w

Stacked(w, h, after) == Restacked(w, h, after)

\* pos is the old one with SWP_NOMOVE.
SetWindowPos(h, after, pos, show) ==
  LET stacked == IF after = Keep THEN win ELSE Stacked(win, h, after)
      reveals == h \in DOMAIN win /\ show /\ ~win[h].visible
  IN
    /\ GuestCalls
    /\ win' = IF h \in DOMAIN win
              THEN [stacked EXCEPT ![h].pos = pos, ![h].visible = @ \/ show]
              ELSE stacked
    /\ Tell(IF h \notin DOMAIN win THEN <<>>
            ELSE (IF reveals THEN ShowTree(win', h) ELSE <<>>) \o <<MoveCmd(win', h)>>)
    /\ untold' = IF reveals THEN untold \ SubtreeOf(win, h) ELSE untold
    /\ UNCHANGED Unmoved

MoveWindow(h, pos) ==
  /\ GuestCalls
  /\ h \in DOMAIN win
  /\ win' = [win EXCEPT ![h].pos = pos]
  /\ Tell(<<MoveCmd(win', h)>>)
  /\ UNCHANGED <<Unmoved, untold>>

\* SetWindowLong(GWL_STYLE) with WS_CHILD as it was.  A child that becomes
\* visible gets a repaint and no ShowWindow; hiding one is ignored.
SetStyle(h, visible) ==
  LET child   == win[h].child
      changes == win[h].visible # visible /\ (child => visible)
  IN
    /\ GuestCalls
    /\ h \in DOMAIN win
    /\ win' = IF changes THEN [win EXCEPT ![h].visible = visible] ELSE win
    /\ Tell(IF changes /\ ~child THEN <<ShowCmd(h, visible)>> ELSE <<>>)
    /\ untold' = LET differ == {x \in DOMAIN win : Shown(win', x) # Shown(win, x)} IN
                   IF changes /\ ~child THEN (untold \cup differ) \ {h}
                   ELSE untold \cup differ
    /\ UNCHANGED Unmoved

MessageBox ==
  /\ GuestCalls
  /\ boxed' = TRUE
  /\ Tell(<<BoxCmd>>)
  /\ UNCHANGED <<win, next, making, main, mainSeen, hosts, ui, moved, dialog, untold>>

----------------------------------------------------------------------------
(* The UI thread. *)

UIRuns == over = "no"

\* Any event ends the sleep; a wake-up event is used up by that.
UIWakes ==
  /\ UIRuns /\ ui = "asleep"
  /\ wake.event \/ dialog # "none"
  /\ wake' = [wake EXCEPT !.event = FALSE]
  /\ ui' = "woken"
  /\ UNCHANGED <<guest, calls, hosts, cmds, moved, dialog, untold>>

\* WindowEvent::Moved: the host's word on a window that is not a child.
Moved ==
  /\ UIRuns /\ ui \in {"asleep", "woken"} /\ moved # <<>>
  /\ ui' = "woken"
  /\ moved' = Tail(moved)
  /\ LET h == Head(moved).hwnd IN
       win' = IF h \in DOMAIN host /\ h \in DOMAIN win /\ ~InParent(win, h)
              THEN [win EXCEPT ![h].pos = Head(moved).pos]
              ELSE win
  /\ UNCHANGED <<next, making, main, mainSeen, boxed, calls, hosts, cmds, wake,
                 dialog, untold>>

\* WindowEvent::CloseRequested: WM_CLOSE for the guest, and the end for the main window.
CloseRequested(h) ==
  /\ UIRuns /\ ui \in {"asleep", "woken"} /\ h \in DOMAIN host
  /\ ui' = "woken"
  /\ over' = IF uiMain = h THEN "closed" ELSE over
  /\ UNCHANGED <<guest, calls, host, uiMain, uiSeen, forced, cmds, wake, moved, dialog, untold>>

\* Mutant: the flag stays set, and no later command wakes the loop.
DrainUncleared ==
  /\ UIRuns /\ ui = "woken"
  /\ ui' = "draining"
  /\ UNCHANGED <<guest, calls, hosts, cmds, wake, moved, dialog, untold>>

\* process_ui_commands clears the flag before it looks at the channel.
BeginDrain ==
  /\ UIRuns /\ ui = "woken"
  /\ wake' = [wake EXCEPT !.pending = FALSE]
  /\ ui' = "draining"
  /\ UNCHANGED <<guest, calls, hosts, cmds, moved, dialog, untold>>

\* The channel is empty: an answered box is passed on, and the loop waits again.
EndDrain ==
  /\ UIRuns /\ ui = "draining" /\ cmds = <<>>
  /\ ui' = "asleep"
  /\ dialog' = IF dialog = "answered" THEN "none" ELSE dialog
  /\ boxed' = (boxed /\ dialog # "answered")
  /\ UNCHANGED <<win, next, making, main, mainSeen, calls, hosts, cmds, wake,
                 moved, untold>>

\* try_recv gives the next command.
Take(op) ==
  /\ UIRuns /\ ui = "draining" /\ cmds # <<>> /\ Head(cmds).op = op
  /\ cmds' = Tail(cmds)

\* The host parent is linked only if it exists by now.
Link(c) == IF c.parent \in DOMAIN host THEN c.parent ELSE NoWindow

DoCreate ==
  /\ Take("create")
  /\ LET c     == Head(cmds)
         top   == c.parent = NoWindow
         first == top /\ ~c.child /\ ~uiSeen
     IN /\ host' = [h \in DOMAIN host \cup {c.hwnd} |->
                      IF h # c.hwnd THEN host[h]
                      ELSE [visible |-> top \/ c.visible, pos |-> c.pos, link |-> Link(c)]]
        /\ uiMain' = IF first THEN c.hwnd ELSE uiMain
        /\ uiSeen' = (uiSeen \/ first)
        /\ forced' = (forced \/ top)
  /\ UNCHANGED <<guest, calls, over, wake, ui, moved, dialog, untold>>

\* The loop ends when the main window goes.
DoDestroy ==
  /\ Take("destroy")
  /\ LET h == Head(cmds).hwnd IN
       /\ host' = [x \in DOMAIN host \ {h} |-> host[x]]
       /\ uiMain' = IF uiMain = h THEN NoWindow ELSE uiMain
       /\ forced' = (forced /\ uiMain # h)
       /\ over' = IF uiMain = h THEN "destroyed" ELSE over
  /\ UNCHANGED <<guest, calls, uiSeen, wake, ui, moved, dialog, untold>>

\* The main window stays visible after it was shown without being asked for.
DoShow ==
  /\ Take("show")
  /\ LET c    == Head(cmds)
         keep == uiMain = c.hwnd /\ forced /\ ~c.visible
     IN /\ host' = IF c.hwnd \in DOMAIN host /\ ~keep
                   THEN [host EXCEPT ![c.hwnd].visible = c.visible] ELSE host
        /\ forced' = (forced /\ ~(c.hwnd \in DOMAIN host /\ uiMain = c.hwnd /\ c.visible))
  /\ UNCHANGED <<guest, calls, uiMain, uiSeen, over, wake, ui, moved, dialog, untold>>

\* The host answers a move that changes something with a Moved event.
HostMoves(h, pos) ==
  /\ host' = [host EXCEPT ![h].pos = pos]
  /\ moved' = IF host[h].pos = pos THEN moved
              ELSE Append(moved, [hwnd |-> h, pos |-> pos])

DoMove ==
  /\ Take("move")
  /\ LET c == Head(cmds) IN
       IF c.hwnd \in DOMAIN host THEN HostMoves(c.hwnd, c.pos)
       ELSE UNCHANGED <<host, moved>>
  /\ UNCHANGED <<guest, calls, uiMain, uiSeen, forced, over, wake, ui, dialog, untold>>

DoBox ==
  /\ Take("box")
  /\ dialog' = "open"
  /\ UNCHANGED <<guest, calls, hosts, wake, ui, moved, untold>>

\* After a frame of the main window it is shown, once for every ShowWindow.
MainRendered ==
  /\ UIRuns /\ ui # "draining" /\ uiMain \in DOMAIN host /\ ~forced
  /\ host' = [host EXCEPT ![uiMain].visible = TRUE]
  /\ forced' = TRUE
  /\ UNCHANGED <<guest, calls, uiMain, uiSeen, over, cmds, wake, ui, moved, dialog, untold>>

----------------------------------------------------------------------------
(* The user. *)

\* Windows that are not children can be dragged.
Drag(h, pos) ==
  /\ UIRuns /\ calls < MaxCalls /\ calls' = calls + 1
  /\ h \in DOMAIN host /\ h \in DOMAIN win /\ ~InParent(win, h) /\ host[h].pos # pos
  /\ HostMoves(h, pos)
  /\ UNCHANGED <<guest, uiMain, uiSeen, forced, over, cmds, wake, ui, dialog, untold>>

AnswerBox ==
  /\ UIRuns /\ dialog = "open"
  /\ dialog' = "answered"
  /\ wake' = Woken
  /\ UNCHANGED <<guest, calls, hosts, cmds, ui, moved, untold>>

----------------------------------------------------------------------------
Known == 1 .. next - 1
Home  == CHOOSE pos \in Places : TRUE

GuestStep ==
  \/ \E p \in DOMAIN win \cup {NoWindow}, c, v \in BOOLEAN :
       (c => p # NoWindow) /\ (CreateBegin(p, c, v, Home) \/ CreatePlain(p, c, v, Home))
  \/ CreateEnd
  \/ CreateRejected
  \/ \E h \in Known \cup {NoWindow} : DestroyWindow(h)
  \/ \E h \in Known, v \in BOOLEAN : ShowWindow(h, v) \/ SetStyle(h, v)
  \/ \E h \in Known, pos \in Places : MoveWindow(h, pos)
  \/ \E h \in Known, show \in BOOLEAN :
       \/ \E pos \in Places : SetWindowPos(h, Keep, pos, show)
       \/ \E after \in Known \cup {Top, Bottom} :
            h \in DOMAIN win /\ SetWindowPos(h, after, win[h].pos, show)
  \/ MessageBox

UIStep ==
  \/ UIWakes \/ BeginDrain \/ EndDrain
  \/ DoCreate \/ DoDestroy \/ DoShow \/ DoMove \/ DoBox
  \/ Moved \/ MainRendered
  \/ \E h \in DOMAIN host : CloseRequested(h)

UserStep == AnswerBox \/ \E h \in DOMAIN host, pos \in Places : Drag(h, pos)

Next == GuestStep \/ UIStep \/ UserStep

Spec == Init /\ [][Next]_vars

----------------------------------------------------------------------------
(* Properties. *)

Window   == [parent : Handles, child : BOOLEAN, visible : BOOLEAN, pos : Places, z : Handles]
Commands ==
  [op : {"create"}, hwnd : Handles, parent : Handles, child : BOOLEAN, visible : BOOLEAN,
   pos : Places]
    \cup [op : {"move"}, hwnd : Handles, pos : Places]
    \cup [op : {"show"}, hwnd : Handles, visible : BOOLEAN]
    \cup [op : {"destroy"}, hwnd : Handles]
    \cup {BoxCmd}

\* Every variable has the values the code gives it.
TypeOK ==
  /\ next \in 1 .. MaxHwnd + 1 /\ DOMAIN win \subseteq Known
  /\ \A h \in DOMAIN win : win[h] \in Window /\ win[h].parent < h
  /\ making \in Seq(Known) /\ Len(making) <= MaxDepth
  /\ {boxed, mainSeen, uiSeen, forced} \subseteq BOOLEAN /\ calls \in 0 .. MaxCalls
  /\ main \in Known \cup {NoWindow} /\ uiMain \in DOMAIN host \cup {NoWindow}
  /\ DOMAIN host \subseteq Known
  /\ \A h \in DOMAIN host :
       host[h] \in [visible : BOOLEAN, pos : Places, link : Handles] /\ host[h].link < h
  /\ cmds \in Seq(Commands) /\ moved \in Seq([hwnd : Handles, pos : Places])
  /\ wake \in [pending : BOOLEAN, event : BOOLEAN]
  /\ ui \in {"asleep", "woken", "draining"} /\ dialog \in {"none", "open", "answered"}
  /\ over \in {"no", "closed", "destroyed"} /\ untold \subseteq Known

Settled == ui = "asleep" /\ cmds = <<>> /\ moved = <<>> /\ over = "no"

\* When the UI thread has caught up it has a window for every window whose
\* creation is over and no other, each visible exactly if the guest's window and
\* the parents of a child are, and where the guest believes it to be.  Left out
\* are the main window, which the host shows on its own, and the windows
\* whose visibility the guest changed without the UI thread being told.
HostFollows ==
  Settled =>
    /\ DOMAIN host = DOMAIN win \ ToSet(making)
    /\ \A h \in DOMAIN host :
         /\ host[h].pos = win[h].pos
         /\ h \notin untold \cup {uiMain} => host[h].visible = Shown(win, h)

\* A host window's parent exists as long as it does: the raw handle given to the
\* host at creation never dangles.
LinkedParentLives ==
  \A h \in DOMAIN host : host[h].link # NoWindow => host[h].link \in DOMAIN host

\* The UI thread never sleeps on a command, and the guest that waits for a message
\* box has its command under way or its box on the screen.
NoCommandStranded ==
  over = "no" =>
    /\ (cmds # <<>> /\ ui = "asleep") => wake.event
    /\ boxed => (dialog # "none" \/ \E i \in DOMAIN cmds : cmds[i].op = "box")

\* SetWindowPos puts the window right above the one it names, or below or above all of
\* its siblings, and keeps the order of the siblings, whatever equal numbers they started
\* with.  (Looked at when the UI thread has caught up, as it can with every tree.)
RestackKeepsOrder ==
  Settled => \A h \in DOMAIN win, after \in DOMAIN win \cup {Top, Bottom} :
    LET now    == Stacked(win, h, after)
        others == Children(win, win[h].parent) \ {h}
    IN /\ \A a, b \in others : Below(now, a, b) <=> Below(win, a, b)
       /\ \A a \in others : Below(now, a, h) <=>
            CASE after = Bottom   -> FALSE
              [] after \in others -> a = after \/ Below(win, a, after)
              [] OTHER            -> TRUE
=============================================================================
