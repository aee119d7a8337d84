------------------------------- MODULE Yutani -------------------------------
(***************************************************************************)
(* The window system: clients (lib/yutani.c) and the compositor             *)
(* (apps/compositor.c) talk over a packet exchange (kernel/vfs/packetfs.c,  *)
(* vfs/pipe.c) and share window buffers by name (kernel/sys/shm.c).         *)
(*                                                                          *)
(* A write to the server waits for room in its pipe; a write to a client    *)
(* whose pipe is full is dropped.  Clients block in yutani_wait_for until   *)
(* the reply they want arrives, and put everything else aside.  A client    *)
(* may exit at any time; the exchange then tells the server with an empty   *)
(* packet.                                                                  *)
(*                                                                          *)
(* Messages that only tell a client something (keys, mouse, focus, moves,   *)
(* notices to subscribers, a request to close) are not represented, except  *)
(* that they can fill a client's pipe at any time.  Key bindings, the       *)
(* clipboard and the geometry of windows are left out.                      *)
(***************************************************************************)
EXTENDS Naturals, Sequences, FiniteSets, Functions, SequencesExt

CONSTANTS
    Client,
    Server,     \* the compositor, as an owner of shared memory
    MaxWid,     \* bound on windows created
    MaxBuf,     \* bound on buffers created
    MaxQueue,   \* packets that fit into the server's pipe
    MaxOffers,  \* bound on offers of a size that a client has not looked at
    ZOrders,    \* stacking orders that clients ask for
    None

Lists == {"mid", "overlay", "menu"}
Slots == {"bottom", "top"}

ASSUME YutaniAssumption ==
    /\ Server \notin Client
    /\ MaxWid \in Nat /\ MaxBuf \in Nat
    /\ MaxQueue \in Nat \ {0}
    /\ MaxOffers \in Nat
    /\ ZOrders \subseteq Lists \cup Slots
    /\ None \notin Nat

VARIABLES
    pc,         \* what each client does
    held,       \* windows each client has: number -> [buf, old]
    aside,      \* packets each client has put aside (y->queued)
    toServer,   \* server_pipe
    pipe,       \* replies and offers in a client's pipe
    gone,       \* clients whose end of the exchange is closed
    missed,     \* clients to which a reply was dropped
    up,         \* the compositor is "up", has "exited" or "crashed"
    clients,    \* clients_to_windows
    windows,    \* wids_to_windows
    stack,      \* mid_zs, overlay_zs, menu_zs
    slot,       \* bottom_z, top_z
    focused,    \* focused_window
    bufs,       \* buffers created so far
    wids,       \* windows created so far
    maps        \* who has mapped which buffer

local == <<pc, held, aside>>
exchange == <<toServer, pipe, gone, missed>>
yg == <<up, clients, windows, stack, slot, focused, bufs, wids>>
vars == <<local, exchange, yg, maps>>

Init ==
    /\ pc = [c \in Client |-> [at |-> "off"]]
    /\ held = [c \in Client |-> <<>>]
    /\ aside = [c \in Client |-> <<>>]
    /\ toServer = <<>>
    /\ pipe = [c \in Client |-> <<>>]
    /\ gone = {} /\ missed = {}
    /\ up = "up"
    /\ clients = <<>> /\ windows = <<>>
    /\ stack = [z \in Lists |-> <<>>]
    /\ slot = [z \in Slots |-> None]
    /\ focused = None
    /\ bufs = 0 /\ wids = 0
    /\ maps = {}

----------------------------------------------------------------------------
(* The compositor's functions, from one state s of it to the next *)

\* full is the set of clients whose pipes happen to be full.
Now(full) ==
       [full |-> full, up |-> up, clients |-> clients, windows |-> windows,
        stack |-> stack, slot |-> slot, focused |-> focused, bufs |-> bufs, wids |-> wids,
        pipe |-> pipe, missed |-> missed, maps |-> maps]

Becomes(s) ==
    /\ up' = s.up /\ clients' = s.clients /\ windows' = s.windows
    /\ stack' = s.stack /\ slot' = s.slot /\ focused' = s.focused
    /\ bufs' = s.bufs /\ wids' = s.wids
    /\ pipe' = s.pipe /\ missed' = s.missed /\ maps' = s.maps

\* hashmap_set and hashmap_remove
Put(f, x, v) == [y \in DOMAIN f \cup {x} |-> IF y = x THEN v ELSE f[y]]
Del(f, x) == [y \in DOMAIN f \ {x} |-> f[y]]

\* send_to_client: dropped if the pipe is full of events.  What happens to a packet for
\* a client that is gone is left to the memory that was its pipe.
Send(s, c, m) ==
    IF c \in gone THEN s
    ELSE IF c \in s.full THEN [s EXCEPT !.missed = IF m.type = "OFFER" THEN @ ELSE @ \cup {c}]
    ELSE [s EXCEPT !.pipe[c] = Append(@, m)]

\* z becomes -1, which as an unsigned short is the order of the top window.  A window
\* with that order that is not the top window is looked for in a list that is NULL.
unorder_window(s, w) ==
    LET z == s.windows[w].z
        t == [s EXCEPT !.windows[w].z = "top"] IN
    IF z \in Slots
    THEN IF s.slot[z] = w THEN [t EXCEPT !.slot[z] = None] ELSE [t EXCEPT !.up = "crashed"]
    ELSE [t EXCEPT !.stack[z] = RemoveFirst(@, w)]

reorder_window(s, w, z) ==
    LET t == [unorder_window(s, w) EXCEPT !.windows[w].z = z] IN
    IF t.up = "crashed" THEN t
    ELSE IF z \in Lists THEN [t EXCEPT !.stack[z] = Append(@, w)]
    ELSE LET u == IF t.slot[z] = None THEN t ELSE unorder_window(t, t.slot[z])
         IN  [u EXCEPT !.slot[z] = w]

make_top(s, w) ==
    LET z == s.windows[w].z IN
    IF z \in Lists
    THEN [s EXCEPT !.stack[z] = Append(RemoveFirst(@, w), w)]
    ELSE s

set_focused_window(s, w) ==
    IF w = s.focused THEN s
    ELSE IF w = None THEN [s EXCEPT !.focused = s.slot["bottom"]]
    ELSE make_top([s EXCEPT !.focused = w], w)

\* Mutant: the focused window stays focused when it is closed.
MutKeepFocus(s, w) == s

\* Focus goes to the newest menu, or to the window on top of the middle.
Unfocus(s, w) ==
    LET t == [s EXCEPT !.focused = None]
        heir == IF s.stack["menu"] # <<>> THEN Last(s.stack["menu"])
                ELSE IF s.stack["mid"] # <<>> THEN Last(s.stack["mid"])
                ELSE None
    IN  IF w # s.focused THEN s
        ELSE IF heir = None THEN t ELSE set_focused_window(t, heir)

\* A buffer that a resize under way has made stays mapped.
window_actually_close(s, w) ==
    LET t == Unfocus(unorder_window(s, w), w) IN
    [t EXCEPT !.windows = Del(@, w),
              !.maps = @ \ {<<Server, s.windows[w].buf>>}]

window_mark_for_close(s, w) ==
    IF s.windows[w].hidden THEN window_actually_close(s, w)
    ELSE [s EXCEPT !.windows[w].closing = TRUE]

window_remove_from_client(s, c, w) ==
    IF c \in DOMAIN s.clients THEN [s EXCEPT !.clients[c] = @ \ {w}] ELSE s

server_window_create(s, c) ==
    LET w == s.wids + 1
        b == s.bufs + 1
        record == [owner |-> c, buf |-> b, new |-> 0, z |-> "mid", hidden |-> TRUE, closing |-> FALSE]
    IN  [s EXCEPT !.wids = w, !.bufs = b,
                  !.windows = Put(@, w, record),
                  !.clients[c] = @ \cup {w},
                  !.stack["mid"] = Append(@, w),
                  !.maps = @ \cup {<<Server, b>>}]

\* A buffer for the new size; the same one if a resize is under way.
server_window_resize(s, w) ==
    IF s.windows[w].new # 0 THEN s
    ELSE [s EXCEPT !.bufs = @ + 1,
                   !.windows[w].new = s.bufs + 1,
                   !.maps = @ \cup {<<Server, s.bufs + 1>>}]

\* Mutant: the buffer that is given up is the new one.
MutReleaseNew(s, w) ==
    LET r == s.windows[w] IN
    IF r.new = 0 THEN s
    ELSE [s EXCEPT !.windows[w].buf = r.new,
                   !.windows[w].new = 0,
                   !.maps = @ \ {<<Server, r.new>>}]

server_window_resize_finish(s, w) ==
    LET r == s.windows[w] IN
    IF r.new = 0 THEN s
    ELSE [s EXCEPT !.windows[w].buf = r.new,
                   !.windows[w].new = 0,
                   !.maps = @ \ {<<Server, r.buf>>}]

----------------------------------------------------------------------------
(* Packets that the compositor receives *)

\* Mutant: the client is forgotten, but its windows are not closed.
MutForget(s, c) == [s EXCEPT !.clients = Del(@, c)]

\* The loop over a client's windows, in the order in which they were created.
CloseAll(s, mine) ==
    LET closed[n \in 0..s.wids] ==
            IF n = 0 THEN s
            ELSE IF n \in mine THEN window_mark_for_close(closed[n - 1], n)
            ELSE closed[n - 1]
    IN  closed[s.wids]

\* A packet from a client that is not there any more: all its windows are closed, and
\* the compositor ends with its last client.
Disconnected(s, c) ==
    LET t == IF c \in DOMAIN s.clients THEN CloseAll(s, s.clients[c]) ELSE s
        u == [t EXCEPT !.clients = Del(@, c)]
    IN  IF DOMAIN u.clients = {} /\ u.up = "up" THEN [u EXCEPT !.up = "exited"] ELSE u

Hello(s, c) ==
    Send(IF c \in DOMAIN s.clients THEN s ELSE [s EXCEPT !.clients = Put(@, c, {})],
         c, [type |-> "WELCOME"])

\* steal: without YUTANI_WINDOW_FLAG_NO_STEAL_FOCUS.
WindowNew(s, c, steal) ==
    LET t == server_window_create(s, c)
        w == t.wids
        u == Send(t, c, [type |-> "INIT", wid |-> w, buf |-> t.windows[w].buf])
    IN  IF steal THEN set_focused_window(u, w) ELSE u

Accept(s, c, w) ==
    LET t == server_window_resize(s, w)
    IN  Send(t, c, [type |-> "BUFID", wid |-> w, buf |-> t.windows[w].new])

Close(s, w) ==
    LET c == s.windows[w].owner
    IN  window_remove_from_client(window_mark_for_close(s, w), c, w)

\* What the compositor does with packet m; one about a window it does not know is ignored.
Handled(s, m) ==
    CASE m.type = "GONE"  -> Disconnected(s, m.from)
      [] m.type = "HELLO" -> Hello(s, m.from)
      [] m.type = "NEW"   -> WindowNew(s, m.from, m.steal)
      [] m.type \notin {"GONE", "HELLO", "NEW"} /\ m.wid \notin DOMAIN s.windows -> s
      [] OTHER ->
         CASE m.type = "FLIP"    -> [s EXCEPT !.windows[m.wid].hidden = FALSE]
           [] m.type = "STACK"   -> reorder_window(s, m.wid, m.z)
           [] m.type = "FOCUS"   -> set_focused_window(s, m.wid)
           [] m.type = "REQUEST" -> Send(s, m.from, [type |-> "OFFER", wid |-> m.wid])
           [] m.type = "ACCEPT"  -> Accept(s, m.from, m.wid)
           [] m.type = "DONE"    -> server_window_resize_finish(s, m.wid)
           [] m.type = "CLOSE"   -> Close(s, m.wid)

Handle ==
    /\ up = "up" /\ toServer # <<>>
    /\ \E full \in SUBSET Client : Becomes(Handled(Now(full), Head(toServer)))
    /\ toServer' = Tail(toServer)
    /\ UNCHANGED <<local, gone>>

\* redraw_windows: the animation of a closing window is over.  It is found in its list,
\* or, with the order of the top window, among all windows.
Redraw(w) ==
    /\ up = "up" /\ w \in DOMAIN windows /\ windows[w].closing
    /\ Becomes(window_actually_close(Now({}), w))
    /\ UNCHANGED <<local, toServer, gone>>

\* The user clicks on a window, or beside all of them.
Click(w) ==
    /\ up = "up"
    /\ w # None => ~windows[w].hidden /\ (windows[w].z \in Slots => slot[windows[w].z] = w)
    /\ Becomes(set_focused_window(Now({}), w))
    /\ UNCHANGED <<local, toServer, gone>>

\* Offers on their way (bound).
RoomForOffer(c) ==
    Len(SelectSeq(pipe[c] \o aside[c], LAMBDA m : m.type = "OFFER"))
    + Len(SelectSeq(toServer, LAMBDA m : m.type = "REQUEST")) < MaxOffers

\* A window is tiled or untiled: its owner is offered a size.
Offered(s, w) == Send(s, windows[w].owner, [type |-> "OFFER", wid |-> w])

\* The user tiles a window, or lets go of its border, which offers a size as well.
UserResize(w) ==
    /\ up = "up" /\ windows[w].z \in Lists /\ RoomForOffer(windows[w].owner)
    /\ \E full \in SUBSET Client :
        Becomes(Offered(Now(full), w))
    /\ UNCHANGED <<local, toServer, gone>>

----------------------------------------------------------------------------
(* The clients *)

At(c, where) == up = "up" /\ pc[c].at = where
Goto(c, where) == pc' = [pc EXCEPT ![c] = where]
Running == [at |-> "run"]
WaitFor(type, w) == [at |-> "wait", type |-> type, wid |-> w]

\* write_client: waits while the server's pipe is full.
Write(c, m) ==
    /\ Len(toServer) < MaxQueue
    /\ toServer' = Append(toServer, m)
    /\ UNCHANGED <<pipe, gone, missed>>

Msg(c, type, w) == [from |-> c, type |-> type, wid |-> w]

\* Windows and buffers that have been asked for (bounds).
Asked(types) == Len(SelectSeq(toServer, LAMBDA m : m.type \in types))
RoomForBuffer == bufs + Asked({"NEW", "ACCEPT"}) < MaxBuf
RoomForWindow == wids + Asked({"NEW"}) < MaxWid /\ RoomForBuffer

\* yutani_init
Connect(c) ==
    /\ At(c, "off")
    /\ Write(c, [from |-> c, type |-> "HELLO"])
    /\ Goto(c, WaitFor("WELCOME", None))
    /\ UNCHANGED <<held, aside, yg, maps>>

\* yutani_window_create
Create(c) ==
    /\ At(c, "run") /\ RoomForWindow
    /\ \E steal \in BOOLEAN : Write(c, [from |-> c, type |-> "NEW", steal |-> steal])
    /\ Goto(c, WaitFor("INIT", None))
    /\ UNCHANGED <<held, aside, yg, maps>>

\* Calls that do not wait: yutani_flip, yutani_focus_window, and yutani_window_resize and
\* yutani_window_resize_offer, which the compositor answers in the same way.
Ask(c, w, type) ==
    /\ At(c, "run") /\ w \in DOMAIN held[c]
    /\ type = "REQUEST" => RoomForOffer(c)
    /\ Write(c, Msg(c, type, w))
    /\ UNCHANGED <<local, yg, maps>>

SetStack(c, w, z) ==
    /\ At(c, "run") /\ w \in DOMAIN held[c]
    /\ Write(c, [from |-> c, type |-> "STACK", wid |-> w, z |-> z])
    /\ UNCHANGED <<local, yg, maps>>

\* yutani_close
CloseWindow(c, w) ==
    /\ At(c, "run") /\ w \in DOMAIN held[c]
    /\ Write(c, Msg(c, "CLOSE", w))
    /\ held' = [held EXCEPT ![c] = Del(@, w)]
    /\ maps' = maps \ {<<c, held[c][w].buf>>}
    /\ UNCHANGED <<pc, aside, yg>>

\* The reply that yutani_wait_for waits for.
Reply(c, m) ==
    LET w == pc[c].wid IN
    CASE m.type = "WELCOME" -> Goto(c, Running) /\ UNCHANGED <<held, maps>>
      [] m.type = "INIT" ->
            /\ Goto(c, Running)
            /\ held' = [held EXCEPT ![c] = Put(@, m.wid, [buf |-> m.buf, old |-> 0])]
            /\ maps' = maps \cup {<<c, m.buf>>}
      [] m.type = "BUFID" /\ m.wid = w ->
            /\ Goto(c, [at |-> "drawing", wid |-> w])
            /\ held' = [held EXCEPT ![c][w] = [buf |-> m.buf, old |-> @.buf]]
            /\ maps' = maps \cup {<<c, m.buf>>}
      [] m.type = "BUFID" /\ m.wid # w ->
            Goto(c, [at |-> "drawing", wid |-> w]) /\ UNCHANGED <<held, maps>>

\* Mutant: reading a packet empties the pipe, with everything behind it.
MutDiscard(c) ==
    /\ At(c, "wait") /\ pipe[c] # <<>>
    /\ pipe' = [pipe EXCEPT ![c] = <<>>]
    /\ IF Head(pipe[c]).type = pc[c].type
       THEN Reply(c, Head(pipe[c])) /\ UNCHANGED aside
       ELSE UNCHANGED <<pc, held, maps, aside>>
    /\ UNCHANGED <<toServer, gone, missed, yg>>

\* yutani_wait_for: packets of other types are put aside.
WaitForReply(c) ==
    /\ At(c, "wait") /\ pipe[c] # <<>>
    /\ pipe' = [pipe EXCEPT ![c] = Tail(@)]
    /\ IF Head(pipe[c]).type = pc[c].type
       THEN Reply(c, Head(pipe[c])) /\ UNCHANGED aside
       ELSE /\ aside' = [aside EXCEPT ![c] = Append(@, Head(pipe[c]))]
            /\ UNCHANGED <<pc, held, maps>>
    /\ UNCHANGED <<toServer, gone, missed, yg>>

\* yutani_poll: what was put aside comes first.
Polled(c) == IF aside[c] # <<>> THEN Head(aside[c]) ELSE Head(pipe[c])

TakePolled(c) ==
    /\ aside[c] # <<>> \/ pipe[c] # <<>>
    /\ aside' = [aside EXCEPT ![c] = IF @ # <<>> THEN Tail(@) ELSE @]
    /\ pipe' = [pipe EXCEPT ![c] = IF aside[c] # <<>> THEN @ ELSE Tail(@)]

\* An offer that the application does not want.
Poll(c) ==
    /\ At(c, "run")
    /\ TakePolled(c)
    /\ UNCHANGED <<pc, held, toServer, gone, missed, yg, maps>>

\* yutani_window_resize_accept
ResizeAccept(c) ==
    /\ At(c, "run") /\ TakePolled(c) /\ RoomForBuffer
    /\ LET m == Polled(c) IN
       /\ m.type = "OFFER" /\ m.wid \in DOMAIN held[c]
       /\ Len(toServer) < MaxQueue
       /\ toServer' = Append(toServer, Msg(c, "ACCEPT", m.wid))
       /\ Goto(c, WaitFor("BUFID", m.wid))
    /\ UNCHANGED <<held, gone, missed, yg, maps>>

\* yutani_window_resize_done
ResizeDone(c) ==
    /\ At(c, "drawing")
    /\ LET w == pc[c].wid IN
       /\ Write(c, Msg(c, "DONE", w))
       /\ maps' = maps \ {<<c, held[c][w].old>>}
    /\ Goto(c, Running)
    /\ UNCHANGED <<held, aside, yg>>

\* The process exits: close_client; and shm_release_all, which comes later, when the
\* process is reaped, but on which nothing here depends.
Exit(c) ==
    /\ up = "up" /\ pc[c].at \notin {"off", "gone"}
    /\ Len(toServer) < MaxQueue
    /\ toServer' = Append(toServer, [from |-> c, type |-> "GONE"])
    /\ pipe' = [pipe EXCEPT ![c] = <<>>]
    /\ aside' = [aside EXCEPT ![c] = <<>>]
    /\ held' = [held EXCEPT ![c] = <<>>]
    /\ gone' = gone \cup {c}
    /\ missed' = missed \ {c}
    /\ Goto(c, [at |-> "gone"])
    /\ maps' = {m \in maps : m[1] # c}
    /\ UNCHANGED yg

----------------------------------------------------------------------------

Asks(c) ==
    \E w \in DOMAIN held[c] :
        \/ \E type \in {"FLIP", "FOCUS", "REQUEST"} : Ask(c, w, type)
        \/ \E z \in ZOrders : SetStack(c, w, z)
        \/ CloseWindow(c, w)

User ==
    \/ \E w \in DOMAIN windows \cup {None} : Click(w)
    \/ \E w \in DOMAIN windows : UserResize(w)

Next ==
    \/ Handle \/ User
    \/ \E w \in DOMAIN windows : Redraw(w)
    \/ \E c \in Client :
        \/ Connect(c) \/ Create(c) \/ Asks(c) \/ ResizeAccept(c) \/ ResizeDone(c)
        \/ WaitForReply(c) \/ Poll(c) \/ Exit(c)

Spec == Init /\ [][Next]_vars

----------------------------------------------------------------------------
(* Properties *)

\* What a client sends to get a reply.
Request(type) ==
    CASE type = "WELCOME" -> "HELLO" [] type = "INIT" -> "NEW" [] type = "BUFID" -> "ACCEPT"

\* A client draws into the buffer from which the compositor draws the window, or will
\* draw it once the resize is done; and both have it mapped, so that it is one piece
\* of memory and not two of the same name.
BuffersShared ==
    up = "up" =>
    \A c \in Client : \A w \in DOMAIN held[c] :
        LET b == held[c][w].buf IN
        /\ w \in DOMAIN windows
        /\ b \in {windows[w].buf, windows[w].new}
        /\ {<<c, b>>, <<Server, b>>, <<Server, windows[w].buf>>} \subseteq maps

\* The window that gets the input exists; a list holds exactly the windows of its order,
\* each once; and the bottom and the top are empty or hold a window of that order
\* (another may have lost its place there to it).
FocusAlive ==
    up = "up" =>
    /\ focused # None => focused \in DOMAIN windows
    /\ \A z \in Lists :
        /\ IsInjective(stack[z])
        /\ Range(stack[z]) = {w \in DOMAIN windows : windows[w].z = z}
    /\ \A z \in Slots :
        slot[z] # None => slot[z] \in DOMAIN windows /\ windows[slot[z]].z = z

\* A call that waits for an answer can return: its request is still to be read, or the
\* answer is in the client's pipe, behind any number of other packets.  Only a full pipe
\* or the end of the compositor loses it.
AnswerOnTheWay ==
    up = "up" =>
    \A c \in Client : pc[c].at = "wait" /\ c \notin missed =>
        \/ \E m \in Range(toServer) : m.from = c /\ m.type = Request(pc[c].type)
        \/ \E m \in Range(pipe[c]) : m.type = pc[c].type

\* The windows of a client that has exited go away: they fade out, or the compositor
\* has not heard of the exit yet.
OrphansClose ==
    up = "up" =>
    \A w \in DOMAIN windows : windows[w].owner \in gone =>
        \/ windows[w].closing
        \/ \E m \in Range(toServer) : m.type = "GONE" /\ m.from = windows[w].owner

\* "If any windows were marked for removal, then remove them": the compositor does not
\* crash on a window that was displaced from the top or the bottom.
NeverCrashes == up # "crashed"
=============================================================================
