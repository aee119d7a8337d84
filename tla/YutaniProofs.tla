---------------------------- MODULE YutaniProofs ----------------------------
(***************************************************************************)
(* Proofs about Yutani, for any number of clients, windows and buffers and  *)
(* any size of the server's pipe.                                           *)
(***************************************************************************)
EXTENDS Yutani, ListLemmas

\* What the packets and the clients look like.
Requests == {"HELLO", "NEW", "ACCEPT"}
AboutWindow == {"FLIP", "FOCUS", "REQUEST", "ACCEPT", "DONE", "CLOSE", "STACK"}

Packet ==
    [from : Client, type : {"GONE", "HELLO"}]
    \cup [from : Client, type : {"NEW"}, steal : BOOLEAN]
    \cup [from : Client, type : AboutWindow \ {"STACK"}, wid : Nat]
    \cup [from : Client, type : {"STACK"}, wid : Nat, z : Lists \cup Slots]

Answer ==
    [type : {"WELCOME"}] \cup [type : {"OFFER"}, wid : Nat]
    \cup [type : {"INIT", "BUFID"}, wid : Nat, buf : Nat]

Where ==
    [at : {"off", "run", "gone"}] \cup [at : {"drawing"}, wid : Nat]
    \cup [at : {"wait"}, type : {"WELCOME", "INIT", "BUFID"}, wid : Nat \cup {None}]

Window ==
    [owner : Client, buf : Nat, new : Nat, z : Lists \cup Slots,
     hidden : BOOLEAN, closing : BOOLEAN]

\* The windows W, created under numbers up to n; their order; and the focus.
Desk(W, st, sl, foc, n) ==
    /\ n \in Nat /\ W \in [DOMAIN W -> Window] /\ DOMAIN W \subseteq 1..n
    /\ st \in [Lists -> Seq(Nat)] /\ sl \in [Slots -> Nat \cup {None}]
    /\ \A z \in Lists : IsInjective(st[z]) /\ Range(st[z]) = {w \in DOMAIN W : W[w].z = z}
    /\ \A z \in Slots : sl[z] # None => sl[z] \in DOMAIN W /\ W[sl[z]].z = z
    /\ foc # None => foc \in DOMAIN W

\* The compositor has every buffer of a window mapped, and no two windows share one.
Buffers ==
    /\ bufs \in Nat
    /\ \A w \in DOMAIN windows :
        /\ windows[w].buf \in 1..bufs /\ windows[w].new \in 0..bufs
        /\ windows[w].new # windows[w].buf
        /\ <<Server, windows[w].buf>> \in maps
        /\ windows[w].new # 0 => <<Server, windows[w].new>> \in maps
    /\ \A v, w \in DOMAIN windows : v # w =>
        /\ windows[v].buf # windows[w].buf /\ windows[v].buf # windows[w].new
        /\ windows[v].new = windows[w].new => windows[v].new = 0

\* The compositor's list of a client's windows: those that do not fade out.
Belongs ==
    /\ clients = [c \in DOMAIN clients |-> clients[c]] /\ DOMAIN clients \subseteq Client
    /\ \A c \in DOMAIN clients :
        clients[c] = {w \in DOMAIN windows : windows[w].owner = c /\ ~windows[w].closing}
    /\ \A w \in DOMAIN windows : ~windows[w].closing => windows[w].owner \in DOMAIN clients

\* A client writes nothing behind a request until it is answered, except that it exits,
\* and then it writes nothing more.
InOrder(q) ==
    \A i, j \in 1..Len(q) : i < j /\ q[i].from = q[j].from =>
        /\ q[i].type # "GONE"
        /\ q[i].type \in Requests => q[j].type = "GONE"
        /\ ~(q[i].type = "DONE" /\ q[j].type = "DONE" /\ q[i].wid = q[j].wid)

\* Packet m waits for the compositor.
PacketOk(m) ==
    /\ pc[m.from].at # "off"
    /\ m.type = "GONE" => m.from \in gone
    /\ m.from \in gone => \E g \in Range(toServer) : g.type = "GONE" /\ g.from = m.from
    /\ m.type \notin {"GONE", "HELLO"} => m.from \in DOMAIN clients
    /\ m.type \in AboutWindow =>
        /\ m.wid \in 1..wids
        /\ m.wid \in DOMAIN windows => windows[m.wid].owner = m.from
    /\ m.type \in Requests /\ m.from \notin gone =>
        /\ pc[m.from].at = "wait" /\ m.type = Request(pc[m.from].type)
        /\ m.type = "ACCEPT" => m.wid = pc[m.from].wid

Queue ==
    /\ toServer \in Seq(Packet) /\ InOrder(toServer)
    /\ \A m \in Range(toServer) : PacketOk(m)

\* At most one reply is on its way to a client.
OneReply(p) ==
    \A i, j \in 1..Len(p) : p[i].type # "OFFER" /\ p[j].type # "OFFER" => i = j

\* What the reply m in the pipe of client c says.
Fits(c, m) ==
    /\ pc[c].at = "wait" /\ m.type = pc[c].type
    /\ \A p \in Range(toServer) : p.from # c
    /\ m.type = "WELCOME" => c \in DOMAIN clients
    /\ m.type = "INIT" =>
        /\ m.wid \in DOMAIN windows /\ m.wid \notin DOMAIN held[c]
        /\ windows[m.wid].owner = c /\ ~windows[m.wid].closing
        /\ windows[m.wid].buf = m.buf /\ windows[m.wid].new = 0
    /\ m.type = "BUFID" => m.wid = pc[c].wid /\ m.buf = windows[m.wid].new /\ m.buf # 0

Typed ==
    /\ pc \in [Client -> Where] /\ gone \subseteq Client
    /\ pipe \in [Client -> Seq(Answer)] /\ aside \in [Client -> Seq(Answer)]
    /\ held = [c \in Client |-> held[c]]
    /\ \A c \in Client : held[c] \in [DOMAIN held[c] -> [buf : Nat, old : Nat]]

\* Client c, and what is on its way to it.
Session(c) ==
    /\ c \in gone <=> pc[c].at = "gone"
    /\ pc[c].at \in {"off", "gone"} => DOMAIN held[c] = {} /\ pipe[c] = <<>> /\ aside[c] = <<>>
    /\ pc[c].at \in {"run", "drawing"} => c \in DOMAIN clients
    /\ pc[c].at = "wait" /\ pc[c].type # "WELCOME" => c \in DOMAIN clients
    /\ pc[c].at = "drawing" => pc[c].wid \in DOMAIN held[c]
    /\ pc[c].at = "wait" /\ pc[c].type = "BUFID" => pc[c].wid \in DOMAIN held[c]
    /\ \A m \in Range(aside[c]) : m.type = "OFFER"
    /\ OneReply(pipe[c])
    /\ \A m \in Range(pipe[c]) : m.type # "OFFER" => Fits(c, m)

Sent(type, w) == \E m \in Range(toServer) : m.type = type /\ m.wid = w
Draws(c, w) == pc[c].at = "drawing" /\ pc[c].wid = w

\* Where a resize of window w stands, which client c has: from the answer on, until the
\* compositor reads that it is done, the client has the buffer that comes next.
Resize(c, w) ==
    /\ Draws(c, w) => held[c][w].old = windows[w].buf /\ ~Sent("DONE", w)
    /\ Draws(c, w) \/ Sent("DONE", w) =>
        held[c][w].buf = windows[w].new /\ windows[w].new # 0
    /\ ~(Draws(c, w) \/ Sent("DONE", w)) =>
        /\ held[c][w].buf = windows[w].buf
        /\ windows[w].new # 0 =>
            /\ pc[c].at = "wait" /\ pc[c].type = "BUFID" /\ pc[c].wid = w
            /\ ~Sent("ACCEPT", w)

Holds(c, w) ==
    /\ w \in DOMAIN windows /\ windows[w].owner = c /\ ~windows[w].closing
    /\ ~Sent("CLOSE", w)
    /\ <<c, held[c][w].buf>> \in maps
    /\ Resize(c, w)

Answered(c) ==
    pc[c].at = "wait" /\ c \notin missed =>
        \/ \E m \in Range(toServer) : m.from = c /\ m.type = Request(pc[c].type)
        \/ \E m \in Range(pipe[c]) : m.type = pc[c].type

ClientOk(c) == Session(c) /\ Answered(c) /\ \A w \in DOMAIN held[c] : Holds(c, w)

\* The owner of a window has been connected; if it is gone, the window goes as well.
Orphans ==
    \A w \in DOMAIN windows :
        /\ pc[windows[w].owner].at # "off"
        /\ windows[w].owner \in gone =>
            \/ windows[w].closing
            \/ \E m \in Range(toServer) : m.type = "GONE" /\ m.from = windows[w].owner

\* Parts of the inductive invariant: the compositor, the pipe to it, and the clients.
Core ==
    /\ Desk(windows, stack, slot, focused, wids) /\ Buffers /\ Belongs
    /\ Queue /\ Orphans
    /\ Typed /\ \A c \in Client : ClientOk(c)

YInv == up = "up" => Core

----------------------------------------------------------------------------
(* The compositor's functions *)

Fields ==
    {"full", "up", "clients", "windows", "stack", "slot", "focused", "bufs", "wids",
     "pipe", "missed", "maps"}

DeskOf(s) == Desk(s.windows, s.stack, s.slot, s.focused, s.wids)

\* From s to t, no windows but those of X were told to close; some of them are gone,
\* with their buffers, and the others fade out.
Closes(s, t, X) ==
    /\ t.clients = s.clients /\ t.wids = s.wids /\ t.bufs = s.bufs
    /\ t.pipe = s.pipe /\ t.missed = s.missed
    /\ DOMAIN t.windows \subseteq DOMAIN s.windows
    /\ DOMAIN s.windows \ DOMAIN t.windows \subseteq X
    /\ \A w \in DOMAIN t.windows :
        /\ t.windows[w].owner = s.windows[w].owner
        /\ t.windows[w].buf = s.windows[w].buf /\ t.windows[w].new = s.windows[w].new
        /\ t.windows[w].closing <=> s.windows[w].closing \/ w \in X
    /\ \A m \in s.maps :
        \/ m \in t.maps
        \/ \E w \in DOMAIN s.windows \ DOMAIN t.windows : m = <<Server, s.windows[w].buf>>

\* list_find and list_delete take a window out of its list.
LEMMA RemoveFirstElems ==
    ASSUME NEW S, NEW q \in Seq(S), IsInjective(q), NEW e
    PROVE  /\ RemoveFirst(q, e) \in Seq(S)
           /\ Range(RemoveFirst(q, e)) = Range(q) \ {e}
           /\ IsInjective(RemoveFirst(q, e))
<1> DEFINE I == {i \in 1..Len(q) : q[i] = e}
<1>1. Len(q) \in Nat /\ DOMAIN q = 1..Len(q)
  OBVIOUS
<1>2. CASE \E i \in 1..Len(q) : q[i] = e
  <2>1. I \subseteq Nat /\ I # {}
    BY <1>2
  <2>2. Min(I) \in I
    BY <2>1, MinIs
  <2>3. RemoveFirst(q, e) = RemoveAt(q, Min(I))
    BY <1>2, <2>1, Zenon DEF RemoveFirst, SelectInSeq
  <2>4. Min(I) \in DOMAIN q /\ q[Min(I)] = e
    BY <1>1, <2>2
  <2> HIDE DEF I
  <2>5. PICK k \in DOMAIN q : k = Min(I) /\ q[k] = e
    BY <2>4
  <2>6. RemoveFirst(q, e) = RemoveAt(q, k)
    BY <2>3, <2>5
  <2> QED BY <2>5, <2>6, RemoveAtElems
<1>3. CASE ~\E i \in 1..Len(q) : q[i] = e
  <2>1. RemoveFirst(q, e) = q
    BY <1>3, Zenon DEF RemoveFirst
  <2> QED BY <1>1, <1>3, <2>1 DEF Range
<1> QED BY <1>2, <1>3

\* A window with a new order is otherwise the same.
LEMMA SetZ ==
    ASSUME NEW W, W \in [DOMAIN W -> Window], NEW w \in DOMAIN W, NEW z \in Lists \cup Slots,
           NEW V, V = [W EXCEPT ![w].z = z]
    PROVE  /\ DOMAIN V = DOMAIN W /\ V \in [DOMAIN V -> Window]
           /\ V[w].z = z
           /\ \A v \in DOMAIN W : v # w => V[v] = W[v]
           /\ \A v \in DOMAIN W :
                /\ V[v].owner = W[v].owner /\ V[v].buf = W[v].buf /\ V[v].new = W[v].new
                /\ V[v].hidden = W[v].hidden /\ V[v].closing = W[v].closing
<1>1. W[w] \in Window
  OBVIOUS
<1>2. /\ V[w] = [W[w] EXCEPT !.z = z] /\ DOMAIN V = DOMAIN W
      /\ \A v \in DOMAIN W : v # w => V[v] = W[v]
  OBVIOUS
<1>3. /\ V[w] \in Window /\ V[w].z = z
      /\ V[w].owner = W[w].owner /\ V[w].buf = W[w].buf /\ V[w].new = W[w].new
      /\ V[w].hidden = W[w].hidden /\ V[w].closing = W[w].closing
  BY <1>1, <1>2 DEF Window
<1>4. V \in [DOMAIN V -> Window]
  BY <1>2, <1>3
<1> QED BY <1>2, <1>3, <1>4

\* Window w has lost its place in the order: from W, st and sl to V, st2 and sl2.
LosesPlace(w, W, st, sl, V, st2, sl2) ==
    /\ w \in DOMAIN W /\ DOMAIN V = DOMAIN W /\ V \in [DOMAIN V -> Window]
    /\ V[w].z = "top" /\ \A v \in DOMAIN W : v # w => V[v] = W[v]
    /\ st2 \in [Lists -> Seq(Nat)] /\ sl2 \in [Slots -> Nat \cup {None}]
    /\ \A x \in Lists : Range(st2[x]) = Range(st[x]) \ {w} /\ IsInjective(st2[x])
    /\ \A x \in Slots : sl2[x] \in {sl[x], None} /\ sl2[x] # w

\* What is left of the order then.
LEMMA Rezoned ==
    ASSUME NEW W, NEW st, NEW sl, NEW foc, NEW n, Desk(W, st, sl, foc, n),
           NEW w, NEW V, NEW st2, NEW sl2, LosesPlace(w, W, st, sl, V, st2, sl2)
    PROVE  Desk(V, st2, sl2, foc, n)
<1> USE DEF LosesPlace
<1>1. "top" \in Lists \cup Slots /\ "top" \notin Lists
  BY DEF Lists, Slots
<1>4. \A x \in Lists : Range(st2[x]) = {v \in DOMAIN V : V[v].z = x}
  <2> SUFFICES ASSUME NEW x \in Lists PROVE Range(st2[x]) = {v \in DOMAIN V : V[v].z = x}
    OBVIOUS
  <2>1. Range(st[x]) = {v \in DOMAIN W : W[v].z = x} /\ x # "top"
    BY <1>1 DEF Desk
  <2> QED BY <2>1
<1>5. \A x \in Slots : sl2[x] # None => sl2[x] \in DOMAIN V /\ V[sl2[x]].z = x
  BY DEF Desk
<1> QED BY <1>4, <1>5 DEF Desk

\* Nothing is told to close when a window changes its order.
LEMMA RezonedCloses ==
    ASSUME NEW s, NEW t, s.windows \in [DOMAIN s.windows -> Window],
           NEW w \in DOMAIN s.windows, NEW z \in Lists \cup Slots,
           t.windows = [s.windows EXCEPT ![w].z = z],
           t.clients = s.clients, t.wids = s.wids, t.bufs = s.bufs,
           t.pipe = s.pipe, t.missed = s.missed, t.maps = s.maps
    PROVE  Closes(s, t, {})
<1>1. PICK W : W = s.windows
  OBVIOUS
<1>2. PICK V : V = t.windows
  OBVIOUS
<1>3. V = [W EXCEPT ![w].z = z] /\ w \in DOMAIN W /\ W \in [DOMAIN W -> Window]
  BY <1>1, <1>2
<1>4. /\ DOMAIN V = DOMAIN W
      /\ \A v \in DOMAIN W :
           /\ V[v].owner = W[v].owner /\ V[v].buf = W[v].buf /\ V[v].new = W[v].new
           /\ V[v].closing = W[v].closing
  BY <1>3, SetZ
<1> QED BY <1>1, <1>2, <1>4 DEF Closes

\* A window that unorder_window takes out of the order is nowhere in it; the order of the
\* others is as before.
LEMMA UnorderDesk ==
    ASSUME NEW s, DOMAIN s = Fields, DeskOf(s), NEW w \in DOMAIN s.windows,
           NEW t, t = unorder_window(s, w), t.up = "up"
    PROVE  /\ DOMAIN t = Fields /\ s.up = "up"
           /\ DeskOf(t) /\ Closes(s, t, {}) /\ t.maps = s.maps
           /\ DOMAIN t.windows = DOMAIN s.windows /\ t.windows[w].z = "top"
           /\ t.focused = s.focused
           /\ \A z \in Slots : t.slot[z] # w
<1> DEFINE z == s.windows[w].z
<1>1. /\ s.windows \in [DOMAIN s.windows -> Window] /\ z \in Lists \cup Slots
      /\ s.slot \in [Slots -> Nat \cup {None}] /\ s.stack \in [Lists -> Seq(Nat)]
      /\ w \in Nat /\ w # None
      /\ "top" \in Slots
  <2>1. s.windows[w] \in Window
    BY DEF DeskOf, Desk
  <2>2. w \in Nat
    BY DEF DeskOf, Desk
  <2> QED BY <2>1, <2>2, YutaniAssumption DEF DeskOf, Desk, Window, Slots
<1>2. Lists \cap Slots = {}
  BY DEF Lists, Slots
<1>w. /\ t.windows = [s.windows EXCEPT ![w].z = "top"]
      /\ DOMAIN t.windows = DOMAIN s.windows /\ t.windows \in [DOMAIN t.windows -> Window]
      /\ t.windows[w].z = "top"
      /\ \A v \in DOMAIN s.windows : v # w => t.windows[v] = s.windows[v]
  <2>1. t.windows = [s.windows EXCEPT ![w].z = "top"]
    BY DEF unorder_window, Fields
  <2>2. PICK W : W = s.windows /\ W \in [DOMAIN W -> Window] /\ w \in DOMAIN W
    BY <1>1
  <2>3. PICK V : V = t.windows /\ V = [W EXCEPT ![w].z = "top"]
    BY <2>1, <2>2
  <2>4. /\ DOMAIN V = DOMAIN W /\ V \in [DOMAIN V -> Window]
        /\ V[w].z = "top" /\ \A v \in DOMAIN W : v # w => V[v] = W[v]
    <3>1. "top" \in Lists \cup Slots
      BY <1>1
    <3> QED BY <2>2, <2>3, <3>1, SetZ
  <2> QED BY <2>1, <2>2, <2>3, <2>4
<1>3. CASE z \in Slots
  <2>1. s.slot[z] = w
    <3> SUFFICES ASSUME s.slot[z] # w PROVE FALSE
      OBVIOUS
    <3>1. t.up = "crashed"
      BY <1>3 DEF unorder_window, Fields
    <3> QED BY <3>1
  <2>2. t = [[s EXCEPT !.windows[w].z = "top"] EXCEPT !.slot[z] = None]
    BY <1>3, <2>1, Zenon DEF unorder_window
  <2>3. /\ DOMAIN t = Fields /\ t.up = s.up
        /\ t.windows = [s.windows EXCEPT ![w].z = "top"]
        /\ t.slot = [s.slot EXCEPT ![z] = None]
        /\ t.stack = s.stack /\ t.focused = s.focused
        /\ t.clients = s.clients /\ t.wids = s.wids /\ t.bufs = s.bufs
        /\ t.pipe = s.pipe /\ t.missed = s.missed /\ t.maps = s.maps
    BY <2>2 DEF Fields
  <2>4. \A x \in Slots : t.slot[x] \in {s.slot[x], None} /\ t.slot[x] # w
    <3> SUFFICES ASSUME NEW x \in Slots PROVE t.slot[x] \in {s.slot[x], None} /\ t.slot[x] # w
      OBVIOUS
    <3>1. CASE x = z
      BY <1>1, <1>3, <2>3, <3>1
    <3>2. CASE x # z
      <4>1. t.slot[x] = s.slot[x]
        BY <1>1, <1>3, <2>3, <3>2
      <4> QED BY <1>1, <3>2, <4>1 DEF DeskOf, Desk
    <3> QED BY <3>1, <3>2
  <2>5. t.slot \in [Slots -> Nat \cup {None}]
    BY <1>1, <1>3, <2>3
  <2>6. \A x \in Lists : Range(t.stack[x]) = Range(s.stack[x]) \ {w} /\ IsInjective(t.stack[x])
    BY <1>2, <1>3, <2>3 DEF DeskOf, Desk
  <2>7. DeskOf(t)
    <3>1. Desk(s.windows, s.stack, s.slot, s.focused, s.wids)
      BY DEF DeskOf
    <3>2. t.stack \in [Lists -> Seq(Nat)] /\ t.slot \in [Slots -> Nat \cup {None}]
      BY <1>1, <2>3, <2>5
    <3>3. LosesPlace(w, s.windows, s.stack, s.slot, t.windows, t.stack, t.slot)
      BY <1>w, <2>3, <2>4, <2>5, <2>6, <3>2, Zenon DEF LosesPlace
    <3>4. Desk(t.windows, t.stack, t.slot, s.focused, s.wids)
      BY <3>1, <3>3, Rezoned, Zenon
    <3> QED BY <2>3, <3>4, Zenon DEF DeskOf
  <2>8. Closes(s, t, {})
    BY <1>1, <2>3, RezonedCloses
  <2> QED BY <1>w, <2>3, <2>4, <2>7, <2>8
<1>4. CASE z \in Lists
  <2>1. t = [[s EXCEPT !.windows[w].z = "top"] EXCEPT !.stack[z] = RemoveFirst(@, w)]
    BY <1>2, <1>4 DEF unorder_window
  <2>2. /\ DOMAIN t = Fields /\ t.up = s.up
        /\ t.windows = [s.windows EXCEPT ![w].z = "top"]
        /\ t.stack = [s.stack EXCEPT ![z] = RemoveFirst(s.stack[z], w)]
        /\ t.slot = s.slot /\ t.focused = s.focused
        /\ t.clients = s.clients /\ t.wids = s.wids /\ t.bufs = s.bufs
        /\ t.pipe = s.pipe /\ t.missed = s.missed /\ t.maps = s.maps
    BY <2>1 DEF Fields
  <2>3. /\ RemoveFirst(s.stack[z], w) \in Seq(Nat)
        /\ Range(RemoveFirst(s.stack[z], w)) = Range(s.stack[z]) \ {w}
        /\ IsInjective(RemoveFirst(s.stack[z], w))
    BY <1>1, <1>4, RemoveFirstElems DEF DeskOf, Desk
  <2>4. /\ t.stack \in [Lists -> Seq(Nat)]
        /\ \A x \in Lists : Range(t.stack[x]) = Range(s.stack[x]) \ {w} /\ IsInjective(t.stack[x])
    <3>1. t.stack \in [Lists -> Seq(Nat)] /\ t.stack[z] = RemoveFirst(s.stack[z], w)
      BY <1>1, <1>4, <2>2, <2>3
    <3>2. \A x \in Lists : x # z => t.stack[x] = s.stack[x] /\ w \notin Range(s.stack[x])
      BY <1>1, <2>2 DEF DeskOf, Desk
    <3>3. \A x \in Lists : IsInjective(s.stack[x])
      BY DEF DeskOf, Desk
    <3> QED BY <2>3, <3>1, <3>2, <3>3
  <2>5. \A x \in Slots : t.slot[x] \in {s.slot[x], None} /\ t.slot[x] # w
    BY <1>1, <1>2, <1>4, <2>2 DEF DeskOf, Desk
  <2>7. DeskOf(t)
    <3>1. Desk(s.windows, s.stack, s.slot, s.focused, s.wids)
      BY DEF DeskOf
    <3>2. t.stack \in [Lists -> Seq(Nat)] /\ t.slot \in [Slots -> Nat \cup {None}]
      BY <1>1, <2>2, <2>4
    <3>3. LosesPlace(w, s.windows, s.stack, s.slot, t.windows, t.stack, t.slot)
      BY <1>w, <2>2, <2>4, <2>5, <3>2, Zenon DEF LosesPlace
    <3>4. Desk(t.windows, t.stack, t.slot, s.focused, s.wids)
      BY <3>1, <3>3, Rezoned, Zenon
    <3> QED BY <2>2, <3>4, Zenon DEF DeskOf
  <2>8. Closes(s, t, {})
    BY <1>1, <2>2, RezonedCloses
  <2> QED BY <1>w, <2>2, <2>5, <2>7, <2>8
<1> QED BY <1>1, <1>3, <1>4

\* A compositor that has crashed stays so.
LEMMA UnorderUp ==
    ASSUME NEW s, DOMAIN s = Fields, NEW w
    PROVE  /\ DOMAIN unorder_window(s, w) = Fields
           /\ unorder_window(s, w).up = "up" => s.up = "up"
<1>1. PICK z : z = s.windows[w].z
  OBVIOUS
<1>2. PICK t : t = [s EXCEPT !.windows[w].z = "top"]
  OBVIOUS
<1>3. DOMAIN t = Fields /\ t.up = s.up
  BY <1>2 DEF Fields
<1>4. \/ unorder_window(s, w) = [t EXCEPT !.slot[z] = None]
      \/ unorder_window(s, w) = [t EXCEPT !.up = "crashed"]
      \/ unorder_window(s, w) = [t EXCEPT !.stack[z] = RemoveFirst(@, w)]
  BY <1>1, <1>2, Zenon DEF unorder_window
<1>5. CASE unorder_window(s, w) = [t EXCEPT !.slot[z] = None]
  BY <1>3, <1>5 DEF Fields
<1>6. CASE unorder_window(s, w) = [t EXCEPT !.up = "crashed"]
  BY <1>3, <1>6 DEF Fields
<1>7. CASE unorder_window(s, w) = [t EXCEPT !.stack[z] = RemoveFirst(@, w)]
  <2>1. PICK q : q = RemoveFirst(t.stack[z], w)
    OBVIOUS
  <2>2. unorder_window(s, w) = [t EXCEPT !.stack[z] = q]
    BY <1>7, <2>1
  <2> QED BY <1>3, <2>2 DEF Fields
<1> QED BY <1>4, <1>5, <1>6, <1>7

\* Windows are told to close one after the other.
LEMMA ClosesTrans ==
    ASSUME NEW s, NEW t, NEW u, NEW X, NEW Y, Closes(s, t, X), Closes(t, u, Y)
    PROVE  Closes(s, u, X \cup Y)
<1>1. \A m \in s.maps :
        \/ m \in u.maps
        \/ \E w \in DOMAIN s.windows \ DOMAIN u.windows : m = <<Server, s.windows[w].buf>>
  <2> SUFFICES ASSUME NEW m \in s.maps, m \notin u.maps
               PROVE  \E w \in DOMAIN s.windows \ DOMAIN u.windows : m = <<Server, s.windows[w].buf>>
    OBVIOUS
  <2>1. CASE m \in t.maps
    <3>1. PICK w \in DOMAIN t.windows \ DOMAIN u.windows : m = <<Server, t.windows[w].buf>>
      BY <2>1 DEF Closes
    <3> QED BY <3>1 DEF Closes
  <2>2. CASE m \notin t.maps
    <3>1. PICK w \in DOMAIN s.windows \ DOMAIN t.windows : m = <<Server, s.windows[w].buf>>
      BY <2>2 DEF Closes
    <3> QED BY <3>1 DEF Closes
  <2> QED BY <2>1, <2>2
<1>2. \A w \in DOMAIN u.windows :
        /\ u.windows[w].owner = s.windows[w].owner
        /\ u.windows[w].buf = s.windows[w].buf /\ u.windows[w].new = s.windows[w].new
        /\ u.windows[w].closing <=> s.windows[w].closing \/ w \in X \cup Y
  BY DEF Closes
<1>3. /\ DOMAIN u.windows \subseteq DOMAIN s.windows
      /\ DOMAIN s.windows \ DOMAIN u.windows \subseteq X \cup Y
  BY DEF Closes
<1>4. /\ u.clients = s.clients /\ u.wids = s.wids /\ u.bufs = s.bufs
      /\ u.pipe = s.pipe /\ u.missed = s.missed
  BY DEF Closes
<1> QED BY <1>1, <1>2, <1>3, <1>4, Zenon DEF Closes

\* Window w is on top of its list.
LEMMA MakeTopDesk ==
    ASSUME NEW s, DOMAIN s = Fields, DeskOf(s), NEW w \in DOMAIN s.windows,
           NEW t, t = make_top(s, w)
    PROVE  /\ DOMAIN t = Fields /\ t.up = s.up /\ DeskOf(t)
           /\ t.windows = s.windows /\ t.slot = s.slot /\ t.focused = s.focused
           /\ t.clients = s.clients /\ t.wids = s.wids /\ t.bufs = s.bufs
           /\ t.pipe = s.pipe /\ t.missed = s.missed /\ t.maps = s.maps
<1>1. PICK z : z = s.windows[w].z
  OBVIOUS
<1>2. CASE z \notin Lists
  <2>1. t = s
    BY <1>1, <1>2 DEF make_top
  <2> QED BY <2>1
<1>3. CASE z \in Lists
  <2>1. PICK q : q = Append(RemoveFirst(s.stack[z], w), w)
    OBVIOUS
  <2>2. t = [s EXCEPT !.stack[z] = q]
    BY <1>1, <1>3, <2>1 DEF make_top
  <2>3. /\ DOMAIN t = Fields /\ t.stack = [s.stack EXCEPT ![z] = q]
        /\ t.up = s.up /\ t.windows = s.windows /\ t.slot = s.slot /\ t.focused = s.focused
        /\ t.clients = s.clients /\ t.wids = s.wids /\ t.bufs = s.bufs
        /\ t.pipe = s.pipe /\ t.missed = s.missed /\ t.maps = s.maps
    BY <2>2 DEF Fields
  <2>4. /\ s.stack \in [Lists -> Seq(Nat)] /\ s.stack[z] \in Seq(Nat) /\ IsInjective(s.stack[z])
        /\ w \in Nat /\ w \in Range(s.stack[z])
    BY <1>1, <1>3 DEF DeskOf, Desk
  <2>5. PICK p \in Seq(Nat) :
          p = RemoveFirst(s.stack[z], w) /\ Range(p) = Range(s.stack[z]) \ {w} /\ IsInjective(p)
    BY <2>4, RemoveFirstElems
  <2>6. q \in Seq(Nat) /\ Range(q) = Range(s.stack[z]) /\ IsInjective(q)
    <3>1. q = Append(p, w)
      BY <2>1, <2>5
    <3>2. q \in Seq(Nat) /\ Range(q) = Range(p) \cup {w} /\ (IsInjective(p) /\ w \notin Range(p) => IsInjective(q))
      BY <2>4, <3>1, AppendElems
    <3> QED BY <2>4, <2>5, <3>2
  <2>7. /\ t.stack \in [Lists -> Seq(Nat)]
        /\ \A x \in Lists : Range(t.stack[x]) = Range(s.stack[x]) /\ IsInjective(t.stack[x])
    <3>1. t.stack \in [Lists -> Seq(Nat)]
      BY <1>3, <2>3, <2>4, <2>6
    <3>2. \A x \in Lists : x # z => t.stack[x] = s.stack[x]
      BY <2>3, <2>4
    <3>3. t.stack[z] = q
      BY <1>3, <2>3, <2>4
    <3>4. \A x \in Lists : IsInjective(s.stack[x])
      BY DEF DeskOf, Desk
    <3> QED BY <2>6, <3>1, <3>2, <3>3, <3>4
  <2>8. DeskOf(t)
    BY <2>3, <2>7 DEF DeskOf, Desk
  <2> QED BY <2>3, <2>8
<1> QED BY <1>2, <1>3

\* So does one whose focus changes, or that closes a window.
LEMMA FocusUp ==
    ASSUME NEW s, DOMAIN s = Fields, NEW w
    PROVE  DOMAIN set_focused_window(s, w) = Fields /\ set_focused_window(s, w).up = s.up
<1>1. CASE w = s.focused
  BY <1>1 DEF set_focused_window
<1>2. CASE w # s.focused /\ w = None
  <2>1. set_focused_window(s, w) = [s EXCEPT !.focused = s.slot["bottom"]]
    BY <1>2 DEF set_focused_window
  <2> QED BY <2>1 DEF Fields
<1>3. CASE w # s.focused /\ w # None
  <2>1. PICK t : t = [s EXCEPT !.focused = w]
    OBVIOUS
  <2>2. set_focused_window(s, w) = make_top(t, w) /\ DOMAIN t = Fields /\ t.up = s.up
    <3>1. set_focused_window(s, w) = make_top(t, w)
      BY <1>3, <2>1, Zenon DEF set_focused_window
    <3> QED BY <2>1, <3>1 DEF Fields
  <2>3. PICK z, q : z = t.windows[w].z /\ q = Append(RemoveFirst(t.stack[z], w), w)
    OBVIOUS
  <2>4. make_top(t, w) = t \/ make_top(t, w) = [t EXCEPT !.stack[z] = q]
    BY <2>3 DEF make_top
  <2>5. CASE make_top(t, w) = t
    BY <2>2, <2>5
  <2>6. CASE make_top(t, w) = [t EXCEPT !.stack[z] = q]
    BY <2>2, <2>6 DEF Fields
  <2> QED BY <2>4, <2>5, <2>6
<1> QED BY <1>1, <1>2, <1>3

LEMMA UnfocusUp ==
    ASSUME NEW s, DOMAIN s = Fields, NEW w
    PROVE  DOMAIN Unfocus(s, w) = Fields /\ Unfocus(s, w).up = s.up
<1>1. PICK t : t = [s EXCEPT !.focused = None]
  OBVIOUS
<1>2. DOMAIN t = Fields /\ t.up = s.up
  BY <1>1 DEF Fields
<1>3. PICK heir : heir = IF s.stack["menu"] # <<>> THEN Last(s.stack["menu"])
                         ELSE IF s.stack["mid"] # <<>> THEN Last(s.stack["mid"])
                         ELSE None
  OBVIOUS
<1>4. \/ Unfocus(s, w) = s \/ Unfocus(s, w) = t \/ Unfocus(s, w) = set_focused_window(t, heir)
  BY <1>1, <1>3, Zenon DEF Unfocus
<1> QED BY <1>2, <1>4, FocusUp

LEMMA CloseUp ==
    ASSUME NEW s, DOMAIN s = Fields, NEW w
    PROVE  /\ DOMAIN window_mark_for_close(s, w) = Fields
           /\ window_mark_for_close(s, w).up = "up" => s.up = "up"
<1>1. /\ DOMAIN window_actually_close(s, w) = Fields
      /\ window_actually_close(s, w).up = "up" => s.up = "up"
  <2>1. PICK t : t = unorder_window(s, w) /\ DOMAIN t = Fields /\ (t.up = "up" => s.up = "up")
    BY UnorderUp
  <2>2. PICK u : u = Unfocus(t, w) /\ DOMAIN u = Fields /\ u.up = t.up
    BY <2>1, UnfocusUp
  <2>3. PICK W, M : W = Del(u.windows, w) /\ M = u.maps \ {<<Server, s.windows[w].buf>>}
    OBVIOUS
  <2>4. window_actually_close(s, w) = [u EXCEPT !.windows = W, !.maps = M]
    BY <2>1, <2>2, <2>3, Zenon DEF window_actually_close
  <2> QED BY <2>1, <2>2, <2>4 DEF Fields
<1>2. \/ window_mark_for_close(s, w) = window_actually_close(s, w)
      \/ window_mark_for_close(s, w) = [s EXCEPT !.windows[w].closing = TRUE]
  BY Zenon DEF window_mark_for_close
<1>3. CASE window_mark_for_close(s, w) = [s EXCEPT !.windows[w].closing = TRUE]
  BY <1>3 DEF Fields
<1> QED BY <1>1, <1>2, <1>3

\* The focus goes to a window that there is, or to what is at the bottom.
LEMMA FocusDesk ==
    ASSUME NEW s, DOMAIN s = Fields, DeskOf(s), NEW w, w # None => w \in DOMAIN s.windows,
           NEW t, t = set_focused_window(s, w)
    PROVE  /\ DeskOf(t) /\ t.windows = s.windows /\ t.slot = s.slot
           /\ w # None => t.focused = w
           /\ t.clients = s.clients /\ t.wids = s.wids /\ t.bufs = s.bufs
           /\ t.pipe = s.pipe /\ t.missed = s.missed /\ t.maps = s.maps
<1>1. CASE w = s.focused
  BY <1>1 DEF set_focused_window
<1>2. CASE w # s.focused /\ w = None
  <2>1. t = [s EXCEPT !.focused = s.slot["bottom"]]
    BY <1>2 DEF set_focused_window
  <2>2. /\ t.focused = s.slot["bottom"] /\ t.windows = s.windows /\ t.slot = s.slot
        /\ t.stack = s.stack
        /\ t.clients = s.clients /\ t.wids = s.wids /\ t.bufs = s.bufs
        /\ t.pipe = s.pipe /\ t.missed = s.missed /\ t.maps = s.maps
    BY <2>1 DEF Fields
  <2>3. "bottom" \in Slots
    BY DEF Slots
  <2>4. t.focused # None => t.focused \in DOMAIN t.windows
    BY <2>2, <2>3 DEF DeskOf, Desk
  <2>5. DeskOf(t)
    BY <2>2, <2>4 DEF DeskOf, Desk
  <2> QED BY <1>2, <2>2, <2>5
<1>3. CASE w # s.focused /\ w # None
  <2>1. PICK u : u = [s EXCEPT !.focused = w]
    OBVIOUS
  <2>2. t = make_top(u, w)
    BY <1>3, <2>1, Zenon DEF set_focused_window
  <2>3. /\ DOMAIN u = Fields /\ u.focused = w /\ u.windows = s.windows /\ u.slot = s.slot
        /\ u.stack = s.stack
        /\ u.clients = s.clients /\ u.wids = s.wids /\ u.bufs = s.bufs
        /\ u.pipe = s.pipe /\ u.missed = s.missed /\ u.maps = s.maps
    BY <2>1 DEF Fields
  <2>4. w \in DOMAIN u.windows /\ DeskOf(u)
    BY <1>3, <2>3 DEF DeskOf, Desk
  <2> QED BY <2>2, <2>3, <2>4, MakeTopDesk
<1> QED BY <1>1, <1>2, <1>3

\* A window that is in no list loses the focus.
LEMMA UnfocusDesk ==
    ASSUME NEW s, DOMAIN s = Fields, DeskOf(s), NEW w \in DOMAIN s.windows,
           s.windows[w].z \in Slots, NEW t, t = Unfocus(s, w)
    PROVE  /\ DeskOf(t) /\ t.windows = s.windows /\ t.slot = s.slot
           /\ t.focused # w
           /\ t.clients = s.clients /\ t.wids = s.wids /\ t.bufs = s.bufs
           /\ t.pipe = s.pipe /\ t.missed = s.missed /\ t.maps = s.maps
<1>0. w \in Nat /\ w # None /\ "menu" \in Lists /\ "mid" \in Lists /\ Lists \cap Slots = {}
  BY YutaniAssumption DEF DeskOf, Desk, Lists, Slots
<1>1. CASE w # s.focused
  <2>1. t = s
    BY <1>1, Zenon DEF Unfocus
  <2> QED BY <1>1, <2>1
<1>2. CASE w = s.focused
  <2>1. PICK u : u = [s EXCEPT !.focused = None]
    OBVIOUS
  <2>2. /\ DOMAIN u = Fields /\ u.focused = None /\ u.windows = s.windows /\ u.slot = s.slot
        /\ u.stack = s.stack
        /\ u.clients = s.clients /\ u.wids = s.wids /\ u.bufs = s.bufs
        /\ u.pipe = s.pipe /\ u.missed = s.missed /\ u.maps = s.maps
    BY <2>1 DEF Fields
  <2>3. DeskOf(u)
    BY <2>2 DEF DeskOf, Desk
  <2>4. PICK heir : heir = IF s.stack["menu"] # <<>> THEN Last(s.stack["menu"])
                           ELSE IF s.stack["mid"] # <<>> THEN Last(s.stack["mid"])
                           ELSE None
    OBVIOUS
  <2>5. heir = None \/ (heir \in DOMAIN s.windows /\ heir # w)
    <3>1. \A z \in Lists : s.stack[z] # <<>> => Last(s.stack[z]) \in DOMAIN s.windows /\ Last(s.stack[z]) # w
      <4> SUFFICES ASSUME NEW z \in Lists, s.stack[z] # <<>>
                   PROVE  Last(s.stack[z]) \in DOMAIN s.windows /\ Last(s.stack[z]) # w
        OBVIOUS
      <4>1. s.stack[z] \in Seq(Nat) /\ IsInjective(s.stack[z])
            /\ Range(s.stack[z]) = {v \in DOMAIN s.windows : s.windows[v].z = z}
        BY DEF DeskOf, Desk
      <4>2. Last(s.stack[z]) \in Range(s.stack[z])
        BY <4>1, FrontElems
      <4> QED BY <1>0, <4>1, <4>2
    <3> QED BY <1>0, <2>4, <3>1
  <2>6. CASE heir = None
    <3>1. t = u
      BY <1>2, <2>1, <2>4, <2>6, Zenon DEF Unfocus
    <3> QED BY <1>0, <2>2, <2>3, <3>1
  <2>7. CASE heir # None
    <3>1. t = set_focused_window(u, heir)
      BY <1>2, <2>1, <2>4, <2>7, Zenon DEF Unfocus
    <3>2. heir \in DOMAIN u.windows
      BY <2>2, <2>5, <2>7
    <3>3. /\ DeskOf(t) /\ t.windows = u.windows /\ t.slot = u.slot /\ t.focused = heir
          /\ t.clients = u.clients /\ t.wids = u.wids /\ t.bufs = u.bufs
          /\ t.pipe = u.pipe /\ t.missed = u.missed /\ t.maps = u.maps
      BY <2>2, <2>3, <2>7, <3>1, <3>2, FocusDesk
    <3> QED BY <2>2, <2>5, <2>7, <3>3
  <2> QED BY <2>6, <2>7
<1> QED BY <1>1, <1>2

\* A window that is closed is nowhere any more.
LEMMA CloseDesk ==
    ASSUME NEW s, DOMAIN s = Fields, DeskOf(s), NEW w \in DOMAIN s.windows,
           NEW t, t = window_actually_close(s, w), t.up = "up"
    PROVE  /\ DeskOf(t) /\ Closes(s, t, {w}) /\ s.up = "up"
<1>1. PICK a : a = unorder_window(s, w) /\ DOMAIN a = Fields /\ (a.up = "up" => s.up = "up")
  BY UnorderUp
<1>2. PICK u : u = Unfocus(a, w) /\ DOMAIN u = Fields /\ u.up = a.up
  BY <1>1, UnfocusUp
<1>3. PICK W, M : W = Del(u.windows, w) /\ M = u.maps \ {<<Server, s.windows[w].buf>>}
  OBVIOUS
<1>4. t = [u EXCEPT !.windows = W, !.maps = M]
  BY <1>1, <1>2, <1>3, Zenon DEF window_actually_close
<1>5. /\ t.windows = W /\ t.maps = M
      /\ t.up = u.up /\ t.stack = u.stack /\ t.slot = u.slot /\ t.focused = u.focused
      /\ t.clients = u.clients /\ t.wids = u.wids /\ t.bufs = u.bufs
      /\ t.pipe = u.pipe /\ t.missed = u.missed
  BY <1>2, <1>4 DEF Fields
<1>6. a.up = "up" /\ s.up = "up"
  BY <1>1, <1>2, <1>5
<1>7. /\ DeskOf(a) /\ Closes(s, a, {}) /\ a.maps = s.maps
      /\ DOMAIN a.windows = DOMAIN s.windows /\ a.windows[w].z = "top"
      /\ \A z \in Slots : a.slot[z] # w
  BY <1>1, <1>6, UnorderDesk
<1>8. /\ w \in DOMAIN a.windows /\ a.windows[w].z = "top" /\ "top" \in Slots
      /\ a.windows[w].z \in Slots
  BY <1>7 DEF Slots
<1>9. /\ DeskOf(u) /\ u.windows = a.windows /\ u.slot = a.slot /\ u.focused # w
      /\ u.clients = a.clients /\ u.wids = a.wids /\ u.bufs = a.bufs
      /\ u.pipe = a.pipe /\ u.missed = a.missed /\ u.maps = a.maps
  BY <1>1, <1>2, <1>7, <1>8, UnfocusDesk
<1>10. /\ DOMAIN W = DOMAIN u.windows \ {w}
       /\ \A v \in DOMAIN W : W[v] = u.windows[v]
       /\ W \in [DOMAIN W -> Window]
  <2>1. DOMAIN W = DOMAIN u.windows \ {w} /\ \A v \in DOMAIN W : W[v] = u.windows[v]
    BY <1>3 DEF Del
  <2>2. W = [v \in DOMAIN W |-> W[v]]
    BY <1>3 DEF Del
  <2>3. u.windows \in [DOMAIN u.windows -> Window]
    BY <1>9 DEF DeskOf, Desk
  <2> QED BY <2>1, <2>2, <2>3
<1>11. DeskOf(t)
  <2>1. \A z \in Lists : Range(u.stack[z]) = {v \in DOMAIN W : W[v].z = z}
    <3> SUFFICES ASSUME NEW z \in Lists PROVE Range(u.stack[z]) = {v \in DOMAIN W : W[v].z = z}
      OBVIOUS
    <3>1. Range(u.stack[z]) = {v \in DOMAIN u.windows : u.windows[v].z = z}
      BY <1>9 DEF DeskOf, Desk
    <3>2. u.windows[w].z # z
      BY <1>8, <1>9 DEF Lists
    <3> QED BY <1>10, <3>1, <3>2
  <2>2. \A z \in Slots : u.slot[z] # None => u.slot[z] \in DOMAIN W /\ W[u.slot[z]].z = z
    <3>1. \A z \in Slots : u.slot[z] # None => u.slot[z] \in DOMAIN u.windows /\ u.windows[u.slot[z]].z = z
      BY <1>9 DEF DeskOf, Desk
    <3> QED BY <1>7, <1>9, <1>10, <3>1
  <2>3. u.focused # None => u.focused \in DOMAIN W
    BY <1>9, <1>10 DEF DeskOf, Desk
  <2> QED BY <1>5, <1>9, <1>10, <2>1, <2>2, <2>3 DEF DeskOf, Desk
<1>12. Closes(u, t, {w})
  <2>1. a.windows[w].buf = s.windows[w].buf
    BY <1>7, <1>8 DEF Closes
  <2>2. \A m \in u.maps :
          \/ m \in t.maps
          \/ \E v \in DOMAIN u.windows \ DOMAIN t.windows : m = <<Server, u.windows[v].buf>>
    BY <1>3, <1>5, <1>8, <1>9, <1>10, <2>1
  <2> QED BY <1>5, <1>10, <2>2 DEF Closes
<1>13. Closes(s, u, {})
  BY <1>7, <1>9 DEF Closes
<1>14. {} \cup {w} = {w}
  OBVIOUS
<1> QED BY <1>6, <1>11, <1>12, <1>13, <1>14, ClosesTrans

\* So is one that the compositor has not shown yet; another fades out.
LEMMA MarkDesk ==
    ASSUME NEW s, DOMAIN s = Fields, DeskOf(s), NEW w \in DOMAIN s.windows,
           NEW t, t = window_mark_for_close(s, w), t.up = "up"
    PROVE  /\ DeskOf(t) /\ Closes(s, t, {w})
<1>1. CASE s.windows[w].hidden
  <2>1. t = window_actually_close(s, w)
    BY <1>1, Zenon DEF window_mark_for_close
  <2> QED BY <2>1, CloseDesk
<1>2. CASE ~s.windows[w].hidden
  <2>1. PICK W : W = s.windows /\ w \in DOMAIN W /\ W \in [DOMAIN W -> Window]
    BY DEF DeskOf, Desk
  <2>2. PICK V : V = [W EXCEPT ![w].closing = TRUE]
    OBVIOUS
  <2>3. t = [s EXCEPT !.windows = V]
    BY <1>2, <2>1, <2>2 DEF window_mark_for_close
  <2>4. /\ t.windows = V
        /\ t.stack = s.stack /\ t.slot = s.slot /\ t.focused = s.focused
        /\ t.clients = s.clients /\ t.wids = s.wids /\ t.bufs = s.bufs
        /\ t.pipe = s.pipe /\ t.missed = s.missed /\ t.maps = s.maps
    BY <2>3 DEF Fields
  <2>5. /\ DOMAIN V = DOMAIN W /\ \A v \in DOMAIN W : v # w => V[v] = W[v]
        /\ V[w] = [W[w] EXCEPT !.closing = TRUE] /\ W[w] \in Window
    BY <2>1, <2>2
  <2>6. /\ V[w] \in Window /\ V[w].closing = TRUE
        /\ V[w].z = W[w].z /\ V[w].owner = W[w].owner /\ V[w].buf = W[w].buf /\ V[w].new = W[w].new
    BY <2>5 DEF Window
  <2>7. V \in [DOMAIN V -> Window]
    BY <2>1, <2>2, <2>5, <2>6
  <2>8. \A v \in DOMAIN W :
          /\ V[v].z = W[v].z /\ V[v].owner = W[v].owner /\ V[v].buf = W[v].buf /\ V[v].new = W[v].new
          /\ V[v].closing <=> W[v].closing \/ v \in {w}
    BY <2>1, <2>5, <2>6
  <2>9. DeskOf(t)
    BY <2>1, <2>4, <2>5, <2>7, <2>8 DEF DeskOf, Desk
  <2> QED BY <2>1, <2>4, <2>5, <2>8, <2>9 DEF Closes
<1> QED BY <1>1, <1>2

\* A window that gets a new place is there, and another that was there is displaced.
LEMMA ReorderDesk ==
    ASSUME NEW s, DOMAIN s = Fields, DeskOf(s), NEW w \in DOMAIN s.windows,
           NEW z \in Lists \cup Slots, NEW t, t = reorder_window(s, w, z), t.up = "up"
    PROVE  DeskOf(t) /\ Closes(s, t, {})
<1>1. PICK a : a = unorder_window(s, w) /\ DOMAIN a = Fields
  BY UnorderUp
<1>2. PICK b : b = [a EXCEPT !.windows[w].z = z]
  OBVIOUS
<1>3. /\ DOMAIN b = Fields /\ b.windows = [a.windows EXCEPT ![w].z = z]
      /\ b.up = a.up /\ b.stack = a.stack /\ b.slot = a.slot /\ b.focused = a.focused
      /\ b.clients = a.clients /\ b.wids = a.wids /\ b.bufs = a.bufs
      /\ b.pipe = a.pipe /\ b.missed = a.missed /\ b.maps = a.maps
  BY <1>1, <1>2 DEF Fields
<1>4. b.up # "crashed"
  <2> SUFFICES ASSUME b.up = "crashed" PROVE FALSE
    OBVIOUS
  <2>1. t = b
    BY <1>1, <1>2, Zenon DEF reorder_window
  <2> QED BY <2>1
<1>5. z \in Lists => t = [b EXCEPT !.stack[z] = Append(@, w)]
  BY <1>1, <1>2, <1>4, Zenon DEF reorder_window
<1>6. PICK u : u = IF b.slot[z] = None THEN b ELSE unorder_window(b, b.slot[z])
  OBVIOUS
<1>7. z \notin Lists => t = [u EXCEPT !.slot[z] = w]
  <2> SUFFICES ASSUME z \notin Lists PROVE t = [u EXCEPT !.slot[z] = w]
    OBVIOUS
  <2>1. CASE b.slot[z] = None
    <3>1. u = b
      BY <1>6, <2>1
    <3>2. t = [b EXCEPT !.slot[z] = w]
      BY <1>1, <1>2, <1>4, <2>1, Zenon DEF reorder_window
    <3> QED BY <3>1, <3>2
  <2>2. CASE b.slot[z] # None
    <3>1. u = unorder_window(b, b.slot[z])
      BY <1>6, <2>2
    <3>2. t = [unorder_window(b, b.slot[z]) EXCEPT !.slot[z] = w]
      BY <1>1, <1>2, <1>4, <2>2, Zenon DEF reorder_window
    <3> QED BY <3>1, <3>2, Zenon
  <2> QED BY <2>1, <2>2
<1>8. DOMAIN u = Fields /\ (u.up = "up" => b.up = "up")
  BY <1>3, <1>6, UnorderUp
<1>9. a.up = "up"
  <2>1. CASE z \in Lists
    <3>1. PICK q : q = Append(b.stack[z], w)
      OBVIOUS
    <3>2. t = [b EXCEPT !.stack[z] = q]
      BY <1>5, <2>1, <3>1
    <3> QED BY <1>3, <3>2 DEF Fields
  <2>2. CASE z \notin Lists
    <3>1. t.up = u.up
      BY <1>7, <1>8, <2>2 DEF Fields
    <3> QED BY <1>3, <1>8, <3>1
  <2> QED BY <2>1, <2>2
<1>10. /\ DeskOf(a) /\ Closes(s, a, {})
       /\ DOMAIN a.windows = DOMAIN s.windows /\ a.windows[w].z = "top"
       /\ \A x \in Slots : a.slot[x] # w
  BY <1>1, <1>9, UnorderDesk
<1>11. PICK A : A = a.windows /\ A \in [DOMAIN A -> Window] /\ w \in DOMAIN A /\ A[w].z = "top"
  BY <1>10 DEF DeskOf, Desk
<1>12. PICK B : B = b.windows /\ B = [A EXCEPT ![w].z = z]
  BY <1>3, <1>11
<1>13. /\ DOMAIN B = DOMAIN A /\ B \in [DOMAIN B -> Window] /\ B[w].z = z
       /\ \A v \in DOMAIN A : v # w => B[v] = A[v]
  BY <1>11, <1>12, SetZ
<1>14. Closes(a, b, {})
  BY <1>3, <1>11, RezonedCloses
<1>15. w \in Nat /\ w # None /\ "top" \notin Lists /\ Lists \cap Slots = {} /\ "top" \in Slots
  BY YutaniAssumption DEF DeskOf, Desk, Lists, Slots
<1>16. /\ a.wids \in Nat /\ DOMAIN A \subseteq 1..a.wids
       /\ a.stack \in [Lists -> Seq(Nat)] /\ a.slot \in [Slots -> Nat \cup {None}]
       /\ \A x \in Lists : IsInjective(a.stack[x]) /\ Range(a.stack[x]) = {v \in DOMAIN A : A[v].z = x}
       /\ \A x \in Slots : a.slot[x] # None => a.slot[x] \in DOMAIN A /\ A[a.slot[x]].z = x
       /\ a.focused # None => a.focused \in DOMAIN A
  BY <1>10, <1>11 DEF DeskOf, Desk
<1>17. {} \cup {} = {}
  OBVIOUS
<1>18. CASE z \in Lists
  <2>1. PICK q : q = Append(a.stack[z], w)
    OBVIOUS
  <2>2. t = [b EXCEPT !.stack[z] = q]
    BY <1>3, <1>5, <1>18, <2>1
  <2>3. /\ t.windows = b.windows /\ t.stack = [a.stack EXCEPT ![z] = q]
        /\ t.slot = a.slot /\ t.focused = a.focused
        /\ t.clients = b.clients /\ t.wids = b.wids /\ t.bufs = b.bufs
        /\ t.pipe = b.pipe /\ t.missed = b.missed /\ t.maps = b.maps
    BY <1>3, <2>2 DEF Fields
  <2>4. q \in Seq(Nat) /\ Range(q) = Range(a.stack[z]) \cup {w} /\ IsInjective(q)
    <3>1. a.stack[z] \in Seq(Nat) /\ IsInjective(a.stack[z]) /\ w \notin Range(a.stack[z])
      BY <1>11, <1>15, <1>16, <1>18
    <3> QED BY <1>15, <2>1, <3>1, AppendElems
  <2>5. /\ t.stack \in [Lists -> Seq(Nat)] /\ t.stack[z] = q
        /\ \A x \in Lists : x # z => t.stack[x] = a.stack[x]
    BY <1>16, <1>18, <2>3, <2>4
  <2>6. \A x \in Lists : IsInjective(t.stack[x]) /\ Range(t.stack[x]) = {v \in DOMAIN B : B[v].z = x}
    <3> SUFFICES ASSUME NEW x \in Lists
                 PROVE  IsInjective(t.stack[x]) /\ Range(t.stack[x]) = {v \in DOMAIN B : B[v].z = x}
      OBVIOUS
    <3>1. CASE x = z
      <4>1. {v \in DOMAIN B : B[v].z = z} = {v \in DOMAIN A : A[v].z = z} \cup {w}
        BY <1>11, <1>13
      <4>2. Range(a.stack[z]) = {v \in DOMAIN A : A[v].z = z}
        BY <1>16, <1>18
      <4> QED BY <2>4, <2>5, <3>1, <4>1, <4>2
    <3>2. CASE x # z
      <4>1. {v \in DOMAIN B : B[v].z = x} = {v \in DOMAIN A : A[v].z = x}
        BY <1>11, <1>13, <1>15, <3>2
      <4> QED BY <1>16, <2>5, <3>2, <4>1
    <3> QED BY <3>1, <3>2
  <2>7. \A x \in Slots : t.slot[x] # None => t.slot[x] \in DOMAIN B /\ B[t.slot[x]].z = x
    BY <1>10, <1>13, <1>16, <2>3
  <2>8. DeskOf(t)
    BY <1>3, <1>12, <1>13, <1>16, <2>3, <2>5, <2>6, <2>7 DEF DeskOf, Desk
  <2>9. Closes(a, t, {})
    BY <1>14, <2>3 DEF Closes
  <2> QED BY <1>10, <1>17, <2>8, <2>9, ClosesTrans
<1>19. CASE z \in Slots
  <2>0. z \notin Lists
    BY <1>15, <1>19
  <2>1. PICK C : C = u.windows
    OBVIOUS
  <2>2. /\ DOMAIN C = DOMAIN B /\ C \in [DOMAIN C -> Window] /\ C[w].z = z
        /\ \A v \in DOMAIN A : v # w => C[v] = A[v] \/ (C[v].z = "top" /\ A[v].z = z /\ v = a.slot[z])
        /\ Closes(b, u, {}) /\ u.stack = a.stack /\ u.focused = a.focused /\ u.wids = a.wids
        /\ u.slot \in [Slots -> Nat \cup {None}]
        /\ \A x \in Slots : x # z => u.slot[x] = a.slot[x]
    <3>1. CASE b.slot[z] = None
      <4>1. u = b
        BY <1>6, <3>1
      <4>2. b.windows \in [DOMAIN b.windows -> Window]
        BY <1>12, <1>13
      <4>3. Closes(b, u, {})
        BY <4>1 DEF Closes
      <4> QED BY <1>3, <1>12, <1>13, <1>16, <2>1, <4>1, <4>3
    <3>2. CASE b.slot[z] # None
      <4>1. PICK v : v = b.slot[z]
        OBVIOUS
      <4>2. /\ v \in DOMAIN A /\ A[v].z = z /\ v # w /\ B[v] = A[v]
            /\ v \in DOMAIN B /\ b.windows[v].z = z /\ b.slot[z] = v
        BY <1>3, <1>10, <1>12, <1>13, <1>16, <1>19, <3>2, <4>1
      <4>3. u = unorder_window(b, v)
        BY <1>6, <3>2, <4>1
      <4>4. PICK d : d = [b EXCEPT !.windows[v].z = "top"]
        OBVIOUS
      <4>5. u = [d EXCEPT !.slot[z] = None]
        BY <1>19, <4>2, <4>3, <4>4, Zenon DEF unorder_window
      <4>6. /\ DOMAIN d = Fields /\ d.windows = [b.windows EXCEPT ![v].z = "top"]
            /\ d.stack = b.stack /\ d.slot = b.slot /\ d.focused = b.focused
            /\ d.clients = b.clients /\ d.wids = b.wids /\ d.bufs = b.bufs
            /\ d.pipe = b.pipe /\ d.missed = b.missed /\ d.maps = b.maps
        BY <1>3, <4>4 DEF Fields
      <4>7. /\ u.windows = d.windows /\ u.slot = [d.slot EXCEPT ![z] = None]
            /\ u.stack = d.stack /\ u.focused = d.focused
            /\ u.clients = d.clients /\ u.wids = d.wids /\ u.bufs = d.bufs
            /\ u.pipe = d.pipe /\ u.missed = d.missed /\ u.maps = d.maps
        BY <4>5, <4>6 DEF Fields
      <4>8. "top" \in Lists \cup Slots
        BY <1>15
      <4>9. C = [B EXCEPT ![v].z = "top"]
        BY <1>12, <2>1, <4>6, <4>7
      <4>10. /\ DOMAIN C = DOMAIN B /\ C \in [DOMAIN C -> Window] /\ C[v].z = "top"
             /\ \A x \in DOMAIN B : x # v => C[x] = B[x]
        BY <1>13, <4>2, <4>8, <4>9, SetZ
      <4>11. Closes(b, u, {})
        <5>1. u.windows = [b.windows EXCEPT ![v].z = "top"]
          BY <4>6, <4>7
        <5>2. b.windows \in [DOMAIN b.windows -> Window] /\ v \in DOMAIN b.windows
          BY <1>12, <1>13, <4>2
        <5> QED BY <4>6, <4>7, <4>8, <5>1, <5>2, RezonedCloses
      <4>12. /\ u.slot \in [Slots -> Nat \cup {None}]
             /\ \A x \in Slots : x # z => u.slot[x] = a.slot[x]
        BY <1>3, <1>16, <1>19, <4>6, <4>7
      <4>13. \A x \in DOMAIN A : x # w => C[x] = A[x] \/ (C[x].z = "top" /\ A[x].z = z /\ x = a.slot[z])
        BY <1>3, <1>13, <4>1, <4>2, <4>10
      <4>14. C[w].z = z
        BY <1>11, <1>13, <4>2, <4>10
      <4> QED BY <1>3, <4>6, <4>7, <4>10, <4>11, <4>12, <4>13, <4>14
    <3> QED BY <3>1, <3>2
  <2>3. /\ t.windows = C /\ t.slot = [u.slot EXCEPT ![z] = w]
        /\ t.stack = u.stack /\ t.focused = u.focused
        /\ t.clients = u.clients /\ t.wids = u.wids /\ t.bufs = u.bufs
        /\ t.pipe = u.pipe /\ t.missed = u.missed /\ t.maps = u.maps
    BY <1>7, <1>8, <2>0, <2>1 DEF Fields
  <2>4. \A x \in Lists : Range(t.stack[x]) = {v \in DOMAIN C : C[v].z = x}
    <3> SUFFICES ASSUME NEW x \in Lists PROVE Range(t.stack[x]) = {v \in DOMAIN C : C[v].z = x}
      OBVIOUS
    <3>1. Range(t.stack[x]) = {v \in DOMAIN A : A[v].z = x}
      BY <1>16, <2>2, <2>3
    <3>2. \A v \in DOMAIN A : A[v].z = x <=> C[v].z = x
      BY <1>11, <1>15, <2>0, <2>2
    <3> QED BY <1>13, <2>2, <3>1, <3>2
  <2>5. /\ t.slot \in [Slots -> Nat \cup {None}]
        /\ \A x \in Slots : t.slot[x] # None => t.slot[x] \in DOMAIN C /\ C[t.slot[x]].z = x
    <3>1. t.slot \in [Slots -> Nat \cup {None}] /\ t.slot[z] = w
          /\ \A x \in Slots : x # z => t.slot[x] = a.slot[x]
      BY <1>15, <1>19, <2>2, <2>3
    <3>2. \A x \in Slots : x # z /\ a.slot[x] # None => a.slot[x] \in DOMAIN C /\ C[a.slot[x]].z = x
      BY <1>10, <1>13, <1>16, <2>2
    <3> QED BY <1>11, <1>13, <2>2, <3>1, <3>2
  <2>6. DeskOf(t)
    BY <1>13, <1>16, <2>2, <2>3, <2>4, <2>5 DEF DeskOf, Desk
  <2>7. Closes(b, t, {})
    BY <2>1, <2>2, <2>3 DEF Closes
  <2>8. Closes(a, t, {})
    BY <1>14, <1>17, <2>7, ClosesTrans
  <2> QED BY <1>10, <1>17, <2>6, <2>8, ClosesTrans
<1> QED BY <1>18, <1>19

\* The loop of CloseAll up to window n, after the windows before it.
Turn(f, s, mine, n) ==
    IF n = 0 THEN s
    ELSE IF n \in mine THEN window_mark_for_close(f[n - 1], n)
    ELSE f[n - 1]

Loop(f, s, mine, k) == f = [n \in 0..k |-> Turn(f, s, mine, n)]

\* The loop can be run for any number of windows.
LEMMA LoopExists ==
    ASSUME NEW s, NEW mine, NEW k \in Nat
    PROVE  \E f : Loop(f, s, mine, k)
<1> DEFINE S == {n \in Nat : ~\E f : Loop(f, s, mine, n)}
<1> SUFFICES S = {}
  OBVIOUS
<1> SUFFICES ASSUME S # {} PROVE FALSE
  OBVIOUS
<1>1. S \subseteq Nat
  OBVIOUS
<1>2. Min(S) \in S /\ \A x \in S : Min(S) <= x
  <2> HIDE DEF S
  <2> QED BY <1>1, MinIs
<1>3. PICK m \in Nat : m \in S /\ \A x \in S : m <= x
  BY <1>1, <1>2
<1>4. m # 0
  <2> SUFFICES ASSUME m = 0 PROVE FALSE
    OBVIOUS
  <2>1. PICK f : f = [n \in 0..0 |-> s]
    OBVIOUS
  <2>2. \A n \in 0..0 : Turn(f, s, mine, n) = s
    BY DEF Turn
  <2>3. Loop(f, s, mine, 0)
    BY <2>1, <2>2 DEF Loop
  <2> QED BY <1>3, <2>3
<1>5. m - 1 \in Nat /\ m - 1 \notin S
  BY <1>3, <1>4
<1>6. PICK g : Loop(g, s, mine, m - 1)
  BY <1>5
<1>7. PICK last : last = Turn(g, s, mine, m)
  OBVIOUS
<1>8. PICK f : f = [n \in 0..m |-> IF n = m THEN last ELSE g[n]]
  OBVIOUS
<1>9. \A n \in 0..m : f[n] = Turn(f, s, mine, n)
  <2> SUFFICES ASSUME NEW n \in 0..m PROVE f[n] = Turn(f, s, mine, n)
    OBVIOUS
  <2>1. n # 0 => f[n - 1] = g[n - 1]
    BY <1>4, <1>8
  <2>2. Turn(f, s, mine, n) = Turn(g, s, mine, n)
    BY <2>1 DEF Turn
  <2>3. n # m => n \in 0..(m - 1)
    OBVIOUS
  <2>4. n # m => g[n] = Turn(g, s, mine, n)
    BY <1>6, <2>3 DEF Loop
  <2> QED BY <1>7, <1>8, <2>2, <2>4
<1>10. Loop(f, s, mine, m)
  BY <1>8, <1>9 DEF Loop
<1> QED BY <1>3, <1>10

\* A client that is gone loses all its windows, and nobody else loses one.
LEMMA CloseAllDesk ==
    ASSUME NEW s, DOMAIN s = Fields, DeskOf(s), NEW mine, mine \subseteq DOMAIN s.windows,
           NEW t, t = CloseAll(s, mine)
    PROVE  /\ DOMAIN t = Fields
           /\ t.up = "up" => s.up = "up" /\ DeskOf(t) /\ Closes(s, t, mine)
<1>0. s.wids \in Nat /\ DOMAIN s.windows \subseteq 1..s.wids
  BY DEF DeskOf, Desk
<1>1. PICK f : Loop(f, s, mine, s.wids) /\ t = f[s.wids]
  <2>1. \E f : Loop(f, s, mine, s.wids)
    BY <1>0, LoopExists
  <2>2. CloseAll(s, mine) = (CHOOSE f : Loop(f, s, mine, s.wids))[s.wids]
    BY Zenon DEF CloseAll, Loop, Turn
  <2> QED BY <2>1, <2>2, Zenon
<1>2. \A n \in 0..s.wids : f[n] = Turn(f, s, mine, n)
  BY <1>1 DEF Loop
<1> DEFINE Done(n) ==
             /\ DOMAIN f[n] = Fields
             /\ f[n].up = "up" => /\ s.up = "up" /\ DeskOf(f[n])
                                  /\ Closes(s, f[n], mine \cap (1..n))
           S == {n \in 0..s.wids : ~Done(n)}
<1>3. S = {}
  <2> SUFFICES ASSUME S # {} PROVE FALSE
    OBVIOUS
  <2>1. S \subseteq Nat
    BY <1>0
  <2>2. Min(S) \in S /\ \A x \in S : Min(S) <= x
    <3> HIDE DEF S
    <3> QED BY <2>1, MinIs
  <2>3. PICK m \in 0..s.wids : ~Done(m) /\ \A x \in S : m <= x
    BY <2>2
  <2>4. CASE m = 0
    <3>1. f[0] = s
      BY <1>2, <2>4 DEF Turn
    <3>2. Closes(s, s, mine \cap (1..0))
      BY DEF Closes
    <3> QED BY <2>3, <2>4, <3>1, <3>2
  <2>5. CASE m # 0
    <3>1. m - 1 \in 0..s.wids /\ Done(m - 1) /\ m \in 1..s.wids
      <4>1. m - 1 \in 0..s.wids /\ m \in 1..s.wids /\ ~(m <= m - 1)
        BY <1>0, <2>5
      <4> HIDE DEF Done
      <4>2. m - 1 \notin S
        BY <2>3, <4>1
      <4> QED BY <4>1, <4>2
    <3>2. PICK a : a = f[m - 1]
      OBVIOUS
    <3>3. CASE m \in mine
      <4>1. f[m] = window_mark_for_close(a, m)
        BY <1>2, <2>5, <3>2, <3>3 DEF Turn
      <4>2. PICK b : b = f[m]
        OBVIOUS
      <4>3. DOMAIN b = Fields /\ (b.up = "up" => a.up = "up")
        BY <3>1, <3>2, <4>1, <4>2, CloseUp
      <4>4. ASSUME b.up = "up" PROVE s.up = "up" /\ DeskOf(b) /\ Closes(s, b, mine \cap (1..m))
        <5>1. s.up = "up" /\ DeskOf(a) /\ Closes(s, a, mine \cap (1..(m - 1))) /\ DOMAIN a = Fields
          BY <3>1, <3>2, <4>3, <4>4
        <5>2. m \in DOMAIN a.windows
          BY <1>0, <3>1, <3>3, <5>1 DEF Closes
        <5>3. DeskOf(b) /\ Closes(a, b, {m})
          BY <4>1, <4>2, <4>4, <5>1, <5>2, MarkDesk
        <5>4. (mine \cap (1..(m - 1))) \cup {m} = mine \cap (1..m)
          BY <1>0, <3>1, <3>3
        <5>5. Closes(s, b, (mine \cap (1..(m - 1))) \cup {m})
          BY <5>1, <5>3, ClosesTrans
        <5> QED BY <5>1, <5>3, <5>4, <5>5
      <4> QED BY <2>3, <4>2, <4>3, <4>4
    <3>4. CASE m \notin mine
      <4>1. f[m] = a
        BY <1>2, <2>5, <3>2, <3>4 DEF Turn
      <4>2. mine \cap (1..(m - 1)) = mine \cap (1..m)
        BY <1>0, <3>1, <3>4
      <4> QED BY <2>3, <3>1, <3>2, <4>1, <4>2
    <3> QED BY <3>3, <3>4
  <2> QED BY <2>4, <2>5
<1>4. s.wids \in 0..s.wids /\ mine \cap (1..s.wids) = mine
  BY <1>0
<1>5. Done(s.wids)
  BY <1>3, <1>4
<1> QED BY <1>1, <1>4, <1>5

----------------------------------------------------------------------------
(* Pipes *)

LEMMA HeadTail ==
    ASSUME NEW S, NEW q \in Seq(S), q # <<>>
    PROVE  /\ Head(q) \in S /\ Tail(q) \in Seq(S) /\ Head(q) \in Range(q)
           /\ Range(q) = {Head(q)} \cup Range(Tail(q))
<1>1. /\ Tail(q) \in Seq(S) /\ Len(Tail(q)) = Len(q) - 1 /\ Len(q) \in Nat \ {0}
      /\ \A i \in 1..(Len(q) - 1) : Tail(q)[i] = q[i + 1]
      /\ Head(q) = q[1] /\ Head(q) \in S
      /\ DOMAIN q = 1..Len(q) /\ DOMAIN Tail(q) = 1..(Len(q) - 1)
  OBVIOUS
<1>2. Head(q) \in Range(q) /\ Range(Tail(q)) \subseteq Range(q)
  BY <1>1 DEF Range
<1>3. \A i \in 1..Len(q) : q[i] = Head(q) \/ q[i] \in Range(Tail(q))
  <2> SUFFICES ASSUME NEW i \in 1..Len(q), q[i] # Head(q) PROVE q[i] \in Range(Tail(q))
    OBVIOUS
  <2>1. i - 1 \in 1..(Len(q) - 1) /\ (i - 1) + 1 = i
    BY <1>1
  <2> QED BY <1>1, <2>1 DEF Range
<1> QED BY <1>1, <1>2, <1>3 DEF Range

LEMMA InOrderAppend ==
    ASSUME NEW q \in Seq(Packet), InOrder(q), NEW m \in Packet,
           \A p \in Range(q) : p.from = m.from =>
              /\ p.type # "GONE"
              /\ p.type \in Requests => m.type = "GONE"
              /\ ~(p.type = "DONE" /\ m.type = "DONE" /\ p.wid = m.wid)
    PROVE  InOrder(Append(q, m))
<1>1. PICK r : r = Append(q, m)
  OBVIOUS
<1>2. /\ Len(r) = Len(q) + 1 /\ Len(q) \in Nat /\ DOMAIN q = 1..Len(q)
      /\ \A i \in 1..Len(q) : r[i] = q[i]
      /\ r[Len(q) + 1] = m
  BY <1>1
<1> SUFFICES ASSUME NEW i \in 1..Len(r), NEW j \in 1..Len(r), i < j, r[i].from = r[j].from
             PROVE  /\ r[i].type # "GONE"
                    /\ r[i].type \in Requests => r[j].type = "GONE"
                    /\ ~(r[i].type = "DONE" /\ r[j].type = "DONE" /\ r[i].wid = r[j].wid)
  BY <1>1 DEF InOrder
<1>3. i \in 1..Len(q) /\ r[i] = q[i] /\ q[i] \in Range(q)
  BY <1>2 DEF Range
<1>4. CASE j \in 1..Len(q)
  BY <1>2, <1>3, <1>4 DEF InOrder
<1>5. CASE j = Len(q) + 1
  BY <1>2, <1>3, <1>5
<1> QED BY <1>2, <1>4, <1>5

LEMMA InOrderTail ==
    ASSUME NEW q \in Seq(Packet), InOrder(q), q # <<>>
    PROVE  /\ InOrder(Tail(q))
           /\ \A p \in Range(Tail(q)) : Head(q).from = p.from =>
                /\ Head(q).type # "GONE"
                /\ Head(q).type \in Requests => p.type = "GONE"
                /\ ~(Head(q).type = "DONE" /\ p.type = "DONE" /\ Head(q).wid = p.wid)
<1>1. PICK r : r = Tail(q)
  OBVIOUS
<1>2. /\ Len(r) = Len(q) - 1 /\ Len(q) \in Nat \ {0} /\ DOMAIN r = 1..(Len(q) - 1)
      /\ \A i \in 1..(Len(q) - 1) : r[i] = q[i + 1] /\ i + 1 \in 1..Len(q)
      /\ Head(q) = q[1] /\ 1 \in 1..Len(q)
  BY <1>1
<1>3. InOrder(r)
  <2> SUFFICES ASSUME NEW i \in 1..Len(r), NEW j \in 1..Len(r), i < j, r[i].from = r[j].from
               PROVE  /\ r[i].type # "GONE"
                      /\ r[i].type \in Requests => r[j].type = "GONE"
                      /\ ~(r[i].type = "DONE" /\ r[j].type = "DONE" /\ r[i].wid = r[j].wid)
    BY DEF InOrder
  <2>1. /\ i + 1 \in 1..Len(q) /\ j + 1 \in 1..Len(q) /\ i + 1 < j + 1
        /\ r[i] = q[i + 1] /\ r[j] = q[j + 1]
    BY <1>2
  <2> QED BY <2>1 DEF InOrder
<1>4. \A p \in Range(r) : Head(q).from = p.from =>
        /\ Head(q).type # "GONE"
        /\ Head(q).type \in Requests => p.type = "GONE"
        /\ ~(Head(q).type = "DONE" /\ p.type = "DONE" /\ Head(q).wid = p.wid)
  <2> SUFFICES ASSUME NEW i \in 1..(Len(q) - 1), Head(q).from = r[i].from
               PROVE  /\ Head(q).type # "GONE"
                      /\ Head(q).type \in Requests => r[i].type = "GONE"
                      /\ ~(Head(q).type = "DONE" /\ r[i].type = "DONE" /\ Head(q).wid = r[i].wid)
    BY <1>2 DEF Range
  <2>1. 1 < i + 1 /\ i + 1 \in 1..Len(q) /\ r[i] = q[i + 1]
    BY <1>2
  <2> QED BY <1>2, <2>1 DEF InOrder
<1> QED BY <1>1, <1>3, <1>4

LEMMA OneReplyAppend ==
    ASSUME NEW q \in Seq(Answer), OneReply(q), NEW m \in Answer,
           m.type = "OFFER" \/ \A x \in Range(q) : x.type = "OFFER"
    PROVE  OneReply(Append(q, m))
<1>1. PICK r : r = Append(q, m)
  OBVIOUS
<1>2. /\ Len(r) = Len(q) + 1 /\ Len(q) \in Nat /\ DOMAIN q = 1..Len(q)
      /\ \A i \in 1..Len(q) : r[i] = q[i]
      /\ r[Len(q) + 1] = m
  BY <1>1
<1> SUFFICES ASSUME NEW i \in 1..Len(r), NEW j \in 1..Len(r),
                    r[i].type # "OFFER", r[j].type # "OFFER"
             PROVE  i = j
  BY <1>1 DEF OneReply
<1>3. \A k \in 1..Len(r) : k \in 1..Len(q) \/ k = Len(q) + 1
  BY <1>2
<1>4. \A k \in 1..Len(q) : r[k] = q[k] /\ q[k] \in Range(q)
  BY <1>2 DEF Range
<1>5. CASE m.type = "OFFER"
  BY <1>2, <1>3, <1>4, <1>5 DEF OneReply
<1>6. CASE \A x \in Range(q) : x.type = "OFFER"
  BY <1>2, <1>3, <1>4, <1>6
<1> QED BY <1>5, <1>6

LEMMA OneReplyTail ==
    ASSUME NEW q \in Seq(Answer), OneReply(q), q # <<>>
    PROVE  /\ OneReply(Tail(q))
           /\ Head(q).type # "OFFER" => \A x \in Range(Tail(q)) : x.type = "OFFER"
<1>1. PICK r : r = Tail(q)
  OBVIOUS
<1>2. /\ Len(r) = Len(q) - 1 /\ Len(q) \in Nat \ {0} /\ DOMAIN r = 1..(Len(q) - 1)
      /\ \A i \in 1..(Len(q) - 1) : r[i] = q[i + 1] /\ i + 1 \in 1..Len(q)
      /\ Head(q) = q[1] /\ 1 \in 1..Len(q)
  BY <1>1
<1>3. OneReply(r)
  <2> SUFFICES ASSUME NEW i \in 1..Len(r), NEW j \in 1..Len(r),
                      r[i].type # "OFFER", r[j].type # "OFFER"
               PROVE  i = j
    BY DEF OneReply
  <2>1. i + 1 \in 1..Len(q) /\ j + 1 \in 1..Len(q) /\ r[i] = q[i + 1] /\ r[j] = q[j + 1]
    BY <1>2
  <2>2. i + 1 = j + 1
    BY <2>1 DEF OneReply
  <2> QED BY <1>2, <2>2
<1>4. ASSUME Head(q).type # "OFFER", NEW i \in 1..(Len(q) - 1) PROVE r[i].type = "OFFER"
  <2>1. i + 1 \in 1..Len(q) /\ r[i] = q[i + 1] /\ i + 1 # 1
    BY <1>2
  <2> QED BY <1>2, <1>4, <2>1 DEF OneReply
<1> QED BY <1>1, <1>2, <1>3, <1>4 DEF Range

----------------------------------------------------------------------------
(* A step of the compositor, and what it leaves alone *)

\* The compositor reads the packet of client h; or none, if h is the compositor itself.
Reads(h) ==
    /\ \/ h = Server /\ toServer' = toServer
       \/ toServer # <<>> /\ h = Head(toServer).from /\ toServer' = Tail(toServer)
    /\ UNCHANGED <<pc, held, aside, gone>>

Kept(w) ==
    /\ w \in DOMAIN windows' /\ windows'[w].owner = windows[w].owner
    /\ windows'[w].buf = windows[w].buf /\ windows'[w].new = windows[w].new
    /\ windows'[w].closing <=> windows[w].closing

\* Windows and clients other than those of h stay as they are.
Spares(h) ==
    /\ wids' \in Nat /\ wids <= wids'
    /\ \A w \in DOMAIN windows' : w \in 1..wids =>
        /\ w \in DOMAIN windows /\ windows'[w].owner = windows[w].owner
        /\ windows[w].closing => windows'[w].closing
    /\ \A w \in DOMAIN windows : windows[w].owner # h /\ ~windows[w].closing => Kept(w)
    /\ missed \subseteq missed'
    /\ \A c \in Client : \A b : <<c, b>> \in maps => <<c, b>> \in maps'
    /\ \A c \in DOMAIN clients : c # h => c \in DOMAIN clients'

\* The members of a list.
LEMMA RangeOf ==
    ASSUME NEW S, NEW q \in Seq(S)
    PROVE  Range(q) \subseteq S
BY DEF Range

\* What is still in the server's pipe then.
LEMMA ReadsLeaves ==
    ASSUME Core, NEW h, Reads(h)
    PROVE  /\ toServer' \in Seq(Packet) /\ InOrder(toServer')
           /\ Range(toServer') \subseteq Range(toServer)
           /\ \A m \in Range(toServer) : m.from # h => m \in Range(toServer')
           /\ h # Server =>
                /\ Head(toServer) \in Packet /\ Head(toServer) \in Range(toServer)
                /\ h = Head(toServer).from /\ h \in Client
                /\ Range(toServer) = {Head(toServer)} \cup Range(toServer')
                /\ \A p \in Range(toServer') : p.from = h =>
                    /\ Head(toServer).type # "GONE"
                    /\ Head(toServer).type \in Requests => p.type = "GONE"
                    /\ ~(Head(toServer).type = "DONE" /\ p.type = "DONE"
                         /\ Head(toServer).wid = p.wid)
<1>1. toServer \in Seq(Packet) /\ InOrder(toServer)
  BY DEF Core, Queue
<1>2. CASE h = Server /\ toServer' = toServer
  BY <1>1, <1>2
<1>3. CASE toServer # <<>> /\ h = Head(toServer).from /\ toServer' = Tail(toServer)
  <2>1. /\ Head(toServer) \in Packet /\ Tail(toServer) \in Seq(Packet)
        /\ Head(toServer) \in Range(toServer)
        /\ Range(toServer) = {Head(toServer)} \cup Range(Tail(toServer))
    BY <1>1, <1>3, HeadTail
  <2>2. /\ InOrder(Tail(toServer))
        /\ \A p \in Range(Tail(toServer)) : Head(toServer).from = p.from =>
            /\ Head(toServer).type # "GONE"
            /\ Head(toServer).type \in Requests => p.type = "GONE"
            /\ ~(Head(toServer).type = "DONE" /\ p.type = "DONE" /\ Head(toServer).wid = p.wid)
    BY <1>1, <1>3, InOrderTail
  <2>3. Head(toServer).from \in Client
    <3>1. PICK m : m = Head(toServer) /\ m \in Packet
      BY <2>1
    <3> QED BY <3>1 DEF Packet
  <2> QED BY <1>3, <2>1, <2>2, <2>3
<1> QED BY <1>2, <1>3 DEF Reads

\* A GONE that was there for a packet that stays is not the packet that was read.
LEMMA GoneStays ==
    ASSUME Core, NEW h, Reads(h), NEW m \in Range(toServer'), m.from \in gone
    PROVE  \E g \in Range(toServer') : g.type = "GONE" /\ g.from = m.from
<1>1. PICK g \in Range(toServer) : g.type = "GONE" /\ g.from = m.from
  BY ReadsLeaves DEF Core, Queue, PacketOk
<1>2. CASE m.from # h
  BY <1>1, <1>2, ReadsLeaves
<1>3. CASE m.from = h
  <2>1. h # Server => Head(toServer).type # "GONE"
    BY <1>3, ReadsLeaves
  <2>2. h = Server => toServer' = toServer
    <3>1. Server \notin Client
      BY YutaniAssumption
    <3>2. m \in Packet
      BY ReadsLeaves, RangeOf
    <3>3. m.from \in Client
      BY <3>2 DEF Packet
    <3> QED BY <1>3, <3>1, <3>3
  <2> QED BY <1>1, <2>1, <2>2, ReadsLeaves
<1> QED BY <1>2, <1>3

\* The packets that stay are as good as before.
LEMMA QueueServed ==
    ASSUME Core, NEW h, Reads(h), Spares(h),
           h \in DOMAIN clients => h \in DOMAIN clients' \/ Head(toServer).type = "GONE"
    PROVE  Queue'
<1>1. /\ toServer' \in Seq(Packet) /\ InOrder(toServer') /\ Range(toServer') \subseteq Range(toServer)
      /\ Range(toServer') \subseteq Packet
  BY ReadsLeaves, RangeOf
<1>2. \A m \in Range(toServer') : PacketOk(m)'
  <2> SUFFICES ASSUME NEW m \in Range(toServer') PROVE PacketOk(m)'
    OBVIOUS
  <2>1. PacketOk(m) /\ m \in Packet
    BY <1>1 DEF Core, Queue
  <2>2. pc' = pc /\ gone' = gone
    BY DEF Reads
  <2>3. m.from \in gone => \E g \in Range(toServer') : g.type = "GONE" /\ g.from = m.from
    BY GoneStays
  <2>4. m.from \in DOMAIN clients => m.from \in DOMAIN clients'
    <3>1. CASE m.from # h
      BY <3>1 DEF Spares
    <3>2. CASE m.from = h
      <4>1. m.from \in Client
        BY <2>1 DEF Packet
      <4>2. Head(toServer).type # "GONE"
        BY <3>2, <4>1, ReadsLeaves, YutaniAssumption
      <4> QED BY <3>2, <4>2
    <3> QED BY <3>1, <3>2
  <2>5. m.type \in AboutWindow =>
          /\ m.wid \in 1..wids'
          /\ m.wid \in DOMAIN windows' => windows'[m.wid].owner = m.from
    <3>1. wids \in Nat /\ wids' \in Nat /\ wids <= wids'
      BY DEF Core, Desk, Spares
    <3> QED BY <2>1, <3>1 DEF PacketOk, Spares
  <2> QED BY <2>1, <2>2, <2>3, <2>4, <2>5 DEF PacketOk
<1> QED BY <1>1, <1>2 DEF Queue

\* Nor does a window stay behind without its owner, if those of a client that is gone are
\* told to close, and no window is made for it otherwise.
LEMMA OrphansServed ==
    ASSUME Core, NEW h, Reads(h), Spares(h),
           \A w \in DOMAIN windows' : w \notin 1..wids =>
              h # Server /\ windows'[w].owner = h /\ Head(toServer).type # "GONE",
           h # Server /\ Head(toServer).type = "GONE" =>
              \A w \in DOMAIN windows' : windows'[w].owner = h => windows'[w].closing
    PROVE  Orphans'
<1>0. pc' = pc /\ gone' = gone
  BY DEF Reads
<1> SUFFICES ASSUME NEW w \in DOMAIN windows'
             PROVE  /\ pc[windows'[w].owner].at # "off"
                    /\ windows'[w].owner \in gone =>
                        \/ windows'[w].closing
                        \/ \E m \in Range(toServer') : m.type = "GONE" /\ m.from = windows'[w].owner
  BY <1>0 DEF Orphans
<1>1. CASE w \in 1..wids
  <2>1. /\ w \in DOMAIN windows /\ windows'[w].owner = windows[w].owner
        /\ windows[w].closing => windows'[w].closing
    BY <1>1 DEF Spares
  <2>2. pc[windows'[w].owner].at # "off"
    BY <2>1 DEF Core, Orphans
  <2>3. ASSUME windows'[w].owner \in gone, ~windows'[w].closing
        PROVE  \E m \in Range(toServer') : m.type = "GONE" /\ m.from = windows'[w].owner
    <3>1. PICK m \in Range(toServer) : m.type = "GONE" /\ m.from = windows'[w].owner
      BY <2>1, <2>3 DEF Core, Orphans
    <3>2. CASE m \in Range(toServer')
      BY <3>1, <3>2
    <3>3. CASE m \notin Range(toServer')
      <4>1. m.from = h
        BY <3>1, <3>3, ReadsLeaves
      <4>2. h # Server
        <5>1. m \in Packet
          BY RangeOf DEF Core, Queue
        <5> QED BY <4>1, <5>1, YutaniAssumption DEF Packet
      <4>3. m = Head(toServer)
        BY <3>3, <4>2, ReadsLeaves
      <4> QED BY <2>3, <3>1, <4>1, <4>2, <4>3
    <3> QED BY <3>2, <3>3
  <2> QED BY <2>2, <2>3
<1>2. CASE w \notin 1..wids
  <2>1. h # Server /\ windows'[w].owner = h /\ Head(toServer).type # "GONE"
    BY <1>2
  <2>2. PacketOk(Head(toServer)) /\ Head(toServer).from = h
    BY <2>1, ReadsLeaves DEF Core, Queue
  <2>3. pc[h].at # "off"
    BY <2>2 DEF PacketOk
  <2>4. h \in gone => \E g \in Range(toServer) : g.type = "GONE" /\ g.from = h
    BY <2>2 DEF PacketOk
  <2> QED BY <2>1, <2>3, <2>4, ReadsLeaves
<1> QED BY <1>1, <1>2

\* A client goes on holding a window that is kept, unless the packet that was read is
\* about a resize of it.
LEMMA HoldsServed ==
    ASSUME Core, NEW h, Reads(h), Spares(h), NEW c \in Client, NEW w \in DOMAIN held[c], Kept(w),
           ~(h # Server /\ Head(toServer).type \in {"DONE", "ACCEPT"} /\ Head(toServer).wid = w)
    PROVE  Holds(c, w)'
<1>1. Holds(c, w)
  BY DEF Core, ClientOk
<1>2. pc' = pc /\ held' = held
  BY DEF Reads
<1>3. /\ Range(toServer') \subseteq Range(toServer)
      /\ \A m \in Range(toServer) : m \in Range(toServer') \/ (h # Server /\ m = Head(toServer))
  <2>1. h = Server => toServer' = toServer
    <3>1. ASSUME h = Server, toServer # <<>>, h = Head(toServer).from PROVE FALSE
      <4>1. Head(toServer) \in Packet
        BY <3>1, HeadTail DEF Core, Queue
      <4>2. PICK m : m = Head(toServer) /\ m \in Packet
        BY <4>1
      <4> QED BY <3>1, <4>2, YutaniAssumption DEF Packet
    <3> QED BY <3>1 DEF Reads
  <2> QED BY <2>1, ReadsLeaves
<1>4. \A type \in {"DONE", "ACCEPT"} : Sent(type, w)' <=> Sent(type, w)
  BY <1>3 DEF Sent
<1>5. ~Sent("CLOSE", w)'
  BY <1>1, <1>3 DEF Sent, Holds
<1>6. <<c, held[c][w].buf>> \in maps'
  BY <1>1 DEF Spares, Holds
<1>7. Resize(c, w)'
  <2>1. Resize(c, w)
    BY <1>1 DEF Holds
  <2>2. Draws(c, w)' <=> Draws(c, w)
    BY <1>2 DEF Draws
  <2>3. /\ windows'[w].buf = windows[w].buf /\ windows'[w].new = windows[w].new
    BY DEF Kept
  <2> QED BY <2>1, <2>2, <2>3, <1>2, <1>4 DEF Resize
<1> QED BY <1>1, <1>2, <1>5, <1>6, <1>7 DEF Holds, Kept

\* Client c gets nothing, an offer, or the reply to the request that was read.
Gets(c, h) ==
    \/ pipe'[c] = pipe[c]
    \/ \E m \in Answer :
        /\ c \notin gone /\ pc[c].at # "off" /\ pipe'[c] = Append(pipe[c], m)
        /\ m.type = "OFFER" \/ (c = h /\ Fits(c, m)')

\* The reply that is on its way to another client stays true.
LEMMA FitsServed ==
    ASSUME Core, NEW h, Reads(h), Spares(h), NEW c \in Client, c # h,
           NEW m \in Range(pipe[c]), m.type # "OFFER"
    PROVE  Fits(c, m)'
<1>1. Fits(c, m) /\ Session(c)
  BY DEF Core, ClientOk, Session
<1>2. pc' = pc /\ held' = held
  BY DEF Reads
<1>3. \A p \in Range(toServer') : p.from # c
  BY <1>1, ReadsLeaves DEF Fits
<1>4. m.type = "WELCOME" => c \in DOMAIN clients'
  BY <1>1 DEF Fits, Spares
<1>5. ASSUME m.type = "INIT"
      PROVE  /\ m.wid \in DOMAIN windows' /\ m.wid \notin DOMAIN held[c]
             /\ windows'[m.wid].owner = c /\ ~windows'[m.wid].closing
             /\ windows'[m.wid].buf = m.buf /\ windows'[m.wid].new = 0
  <2>1. /\ m.wid \in DOMAIN windows /\ m.wid \notin DOMAIN held[c]
        /\ windows[m.wid].owner = c /\ ~windows[m.wid].closing
        /\ windows[m.wid].buf = m.buf /\ windows[m.wid].new = 0
    BY <1>1, <1>5 DEF Fits
  <2>2. Kept(m.wid)
    BY <2>1 DEF Spares
  <2> QED BY <2>1, <2>2 DEF Kept
<1>6. ASSUME m.type = "BUFID"
      PROVE  m.wid = pc[c].wid /\ m.buf = windows'[m.wid].new /\ m.buf # 0
  <2>1. /\ m.wid = pc[c].wid /\ m.buf = windows[m.wid].new /\ m.buf # 0
        /\ pc[c].at = "wait" /\ pc[c].type = "BUFID"
    BY <1>1, <1>6 DEF Fits
  <2>2. m.wid \in DOMAIN held[c]
    BY <1>1, <2>1 DEF Session
  <2>3. Holds(c, m.wid)
    BY <2>2 DEF Core, ClientOk
  <2>4. Kept(m.wid)
    BY <2>3 DEF Spares, Holds
  <2> QED BY <2>1, <2>4 DEF Kept
<1> QED BY <1>1, <1>2, <1>3, <1>4, <1>5, <1>6 DEF Fits

\* There is no reply on its way to a client whose packet is just read.
LEMMA OnlyOffers ==
    ASSUME Core, NEW h, h # Server, Reads(h)
    PROVE  h \in Client /\ \A m \in Range(pipe[h]) : m.type = "OFFER"
<1>1. h \in Client /\ Head(toServer) \in Range(toServer) /\ Head(toServer).from = h
  BY ReadsLeaves
<1>2. Session(h)
  BY <1>1 DEF Core, ClientOk
<1> QED BY <1>1, <1>2 DEF Session, Fits

LEMMA SessionServed ==
    ASSUME Core, NEW h, Reads(h), Spares(h), NEW c \in Client, Gets(c, h),
           c \in DOMAIN clients /\ c \notin gone => c \in DOMAIN clients'
    PROVE  Session(c)'
<1>1. Session(c) /\ pipe[c] \in Seq(Answer) /\ Server \notin Client
  BY YutaniAssumption DEF Core, ClientOk, Typed
<1>2. pc' = pc /\ held' = held /\ aside' = aside /\ gone' = gone
  BY DEF Reads
<1>3. \A m \in Range(pipe[c]) : m.type # "OFFER" => Fits(c, m)'
  <2>1. CASE c = h
    BY <1>1, <2>1, OnlyOffers
  <2>2. CASE c # h
    BY <2>2, FitsServed
  <2> QED BY <2>1, <2>2
<1>4. /\ pc[c].at \in {"off", "gone"} => pipe'[c] = <<>>
      /\ OneReply(pipe'[c]) /\ \A m \in Range(pipe'[c]) : m.type # "OFFER" => Fits(c, m)'
  <2>1. CASE pipe'[c] = pipe[c]
    BY <1>1, <1>3, <2>1 DEF Session
  <2>2. CASE \E m \in Answer :
                /\ c \notin gone /\ pc[c].at # "off" /\ pipe'[c] = Append(pipe[c], m)
                /\ m.type = "OFFER" \/ (c = h /\ Fits(c, m)')
    <3>1. PICK m \in Answer :
                /\ c \notin gone /\ pc[c].at # "off" /\ pipe'[c] = Append(pipe[c], m)
                /\ m.type = "OFFER" \/ (c = h /\ Fits(c, m)')
      BY <2>2
    <3>2. Range(pipe'[c]) = Range(pipe[c]) \cup {m}
      BY <1>1, <3>1, AppendElems
    <3>3. m.type = "OFFER" \/ \A x \in Range(pipe[c]) : x.type = "OFFER"
      BY <1>1, <3>1, OnlyOffers
    <3>4. OneReply(pipe[c])
      BY <1>1 DEF Session
    <3>5. OneReply(pipe'[c])
      BY <1>1, <3>1, <3>3, <3>4, OneReplyAppend
    <3>6. pc[c].at \notin {"off", "gone"}
      BY <1>1, <3>1 DEF Session
    <3> QED BY <1>3, <3>1, <3>2, <3>5, <3>6
  <2> QED BY <2>1, <2>2 DEF Gets
<1>5. /\ pc[c].at \in {"run", "drawing"} => c \in DOMAIN clients'
      /\ pc[c].at = "wait" /\ pc[c].type # "WELCOME" => c \in DOMAIN clients'
  BY <1>1 DEF Session
<1> QED BY <1>1, <1>2, <1>4, <1>5 DEF Session

\* A client that waits is answered, or still has its request in the pipe.
LEMMA AnsweredServed ==
    ASSUME Core, NEW h, Reads(h), Spares(h), NEW c \in Client, Gets(c, h),
           c = h /\ Head(toServer).type \in Requests /\ c \notin gone =>
              c \in missed' \/ \E m \in Range(pipe'[c]) : m.type = pc[c].type
    PROVE  Answered(c)'
<1>1. Answered(c) /\ Session(c) /\ pipe[c] \in Seq(Answer)
  BY DEF Core, ClientOk, Typed
<1>2. pc' = pc /\ gone' = gone
  BY DEF Reads
<1> SUFFICES ASSUME pc[c].at = "wait", c \notin missed'
             PROVE  \/ \E m \in Range(toServer') : m.from = c /\ m.type = Request(pc[c].type)
                    \/ \E m \in Range(pipe'[c]) : m.type = pc[c].type
  BY <1>2 DEF Answered
<1>3. c \notin missed /\ c \notin gone
  BY <1>1 DEF Spares, Session
<1>4. Range(pipe[c]) \subseteq Range(pipe'[c])
  <2>1. \A m \in Answer : Range(pipe[c]) \subseteq Range(Append(pipe[c], m))
    BY <1>1, AppendElems
  <2>2. pipe'[c] = pipe[c] \/ \E m \in Answer : pipe'[c] = Append(pipe[c], m)
    BY DEF Gets
  <2> QED BY <2>1, <2>2
<1>5. CASE \E m \in Range(pipe[c]) : m.type = pc[c].type
  BY <1>4, <1>5
<1>6. CASE \E m \in Range(toServer) : m.from = c /\ m.type = Request(pc[c].type)
  <2>1. PICK m \in Range(toServer) : m.from = c /\ m.type = Request(pc[c].type)
    BY <1>6
  <2>2. CASE m \in Range(toServer')
    BY <2>1, <2>2
  <2>3. CASE m \notin Range(toServer')
    <3>1. c = h /\ h # Server
      BY <2>1, <2>3, ReadsLeaves, YutaniAssumption
    <3>2. m = Head(toServer)
      BY <2>3, <3>1, ReadsLeaves
    <3>3. m.type \in Requests
      <4>1. pc[c] \in Where
        BY DEF Core, Typed
      <4>2. pc[c].type \in {"WELCOME", "INIT", "BUFID"}
        BY <4>1 DEF Where
      <4> QED BY <2>1, <4>2 DEF Request, Requests
    <3> QED BY <1>3, <3>1, <3>2, <3>3
  <2> QED BY <2>2, <2>3
<1> QED BY <1>1, <1>3, <1>5, <1>6 DEF Answered

\* So a client is well off whose packet was not the one that was read.
LEMMA OthersServed ==
    ASSUME Core, NEW h, Reads(h), Spares(h), NEW c \in Client, c # h, Gets(c, h)
    PROVE  ClientOk(c)'
<1>1. Session(c)'
  BY SessionServed DEF Spares
<1>2. Answered(c)'
  BY AnsweredServed
<1>3. ASSUME NEW w \in DOMAIN held[c] PROVE Holds(c, w)'
  <2>1. /\ w \in DOMAIN windows /\ windows[w].owner = c /\ ~windows[w].closing
    BY DEF Core, ClientOk, Holds
  <2>2. Kept(w)
    BY <2>1 DEF Spares
  <2>3. ASSUME h # Server, Head(toServer).type \in {"DONE", "ACCEPT"}, Head(toServer).wid = w
        PROVE  FALSE
    <3>1. PacketOk(Head(toServer)) /\ Head(toServer).from = h
      BY <2>3, ReadsLeaves DEF Core, Queue
    <3>2. windows[w].owner = h
      BY <2>1, <2>3, <3>1 DEF PacketOk, AboutWindow
    <3> QED BY <2>1, <3>2
  <2> QED BY <2>2, <2>3, HoldsServed
<1>4. held' = held
  BY DEF Reads
<1> QED BY <1>1, <1>2, <1>3, <1>4 DEF ClientOk

\* And so is one whose packet was read, if the compositor does not forget it, answers its
\* request, and keeps the windows that it holds.
LEMMA SenderServed ==
    ASSUME Core, NEW h, h # Server, Reads(h), Spares(h), Gets(h, h),
           h \in DOMAIN clients /\ h \notin gone => h \in DOMAIN clients',
           Head(toServer).type \in Requests /\ h \notin gone =>
              h \in missed' \/ \E m \in Range(pipe'[h]) : m.type = pc[h].type,
           \A w \in DOMAIN held[h] : Holds(h, w)'
    PROVE  ClientOk(h)'
<1>0. h \in Client
  BY OnlyOffers
<1>1. Session(h)'
  BY <1>0, SessionServed
<1>2. Answered(h)'
  BY <1>0, AnsweredServed
<1>4. held' = held
  BY DEF Reads
<1> QED BY <1>1, <1>2, <1>4 DEF ClientOk

----------------------------------------------------------------------------
(* The steps of the compositor *)

\* The record that the handlers work on.
LEMMA NowIs ==
    ASSUME NEW full, NEW s, s = Now(full)
    PROVE  /\ DOMAIN s = Fields /\ s.full = full
           /\ s.up = up /\ s.clients = clients /\ s.windows = windows
           /\ s.stack = stack /\ s.slot = slot /\ s.focused = focused
           /\ s.bufs = bufs /\ s.wids = wids
           /\ s.pipe = pipe /\ s.missed = missed /\ s.maps = maps
BY DEF Now, Fields

\* Windows of X were told to close, and no others.
Closing(X) ==
    /\ wids' = wids /\ bufs' = bufs /\ pipe' = pipe /\ missed' = missed
    /\ DOMAIN windows' \subseteq DOMAIN windows
    /\ DOMAIN windows \ DOMAIN windows' \subseteq X
    /\ \A w \in DOMAIN windows' :
        /\ windows'[w].owner = windows[w].owner
        /\ windows'[w].buf = windows[w].buf /\ windows'[w].new = windows[w].new
        /\ windows'[w].closing <=> windows[w].closing \/ w \in X
    /\ \A m \in maps :
        \/ m \in maps'
        \/ \E w \in DOMAIN windows \ DOMAIN windows' : m = <<Server, windows[w].buf>>

LEMMA ClosesClosing ==
    ASSUME NEW full, NEW s, s = Now(full), NEW t, NEW X, Closes(s, t, X),
           t.wids = wids', t.bufs = bufs', t.pipe = pipe', t.missed = missed',
           t.windows = windows', t.maps = maps'
    PROVE  Closing(X)
<1>1. /\ s.windows = windows /\ s.bufs = bufs /\ s.wids = wids
      /\ s.pipe = pipe /\ s.missed = missed /\ s.maps = maps
  BY NowIs
<1>2. /\ DOMAIN windows' \subseteq DOMAIN windows
      /\ DOMAIN windows \ DOMAIN windows' \subseteq X
      /\ wids' = wids /\ bufs' = bufs /\ pipe' = pipe /\ missed' = missed
  BY <1>1 DEF Closes
<1>3. \A w \in DOMAIN windows' :
        /\ windows'[w].owner = windows[w].owner
        /\ windows'[w].buf = windows[w].buf /\ windows'[w].new = windows[w].new
        /\ windows'[w].closing <=> windows[w].closing \/ w \in X
  BY <1>1 DEF Closes
<1>4. \A m \in maps :
        \/ m \in maps'
        \/ \E w \in DOMAIN windows \ DOMAIN windows' : m = <<Server, windows[w].buf>>
  BY <1>1 DEF Closes
<1> QED BY <1>2, <1>3, <1>4 DEF Closing

\* The buffers of the windows that are left stay mapped.
LEMMA ClosingBuffers ==
    ASSUME Core, NEW X, Closing(X)
    PROVE  Buffers'
<1>1. Buffers
  BY DEF Core
<1>2. bufs' \in Nat
  BY <1>1 DEF Buffers, Closing
<1>3. ASSUME NEW w \in DOMAIN windows'
      PROVE  /\ windows'[w].buf \in 1..bufs' /\ windows'[w].new \in 0..bufs'
             /\ windows'[w].new # windows'[w].buf
             /\ <<Server, windows'[w].buf>> \in maps'
             /\ windows'[w].new # 0 => <<Server, windows'[w].new>> \in maps'
  <2>1. /\ w \in DOMAIN windows /\ bufs' = bufs
        /\ windows'[w].buf = windows[w].buf /\ windows'[w].new = windows[w].new
    BY DEF Closing
  <2>2. /\ windows[w].buf \in 1..bufs /\ windows[w].new \in 0..bufs
        /\ windows[w].new # windows[w].buf
        /\ <<Server, windows[w].buf>> \in maps
        /\ windows[w].new # 0 => <<Server, windows[w].new>> \in maps
    BY <1>1, <2>1 DEF Buffers
  <2>3. \A v \in DOMAIN windows \ DOMAIN windows' :
            windows[v].buf # windows[w].buf /\ windows[v].buf # windows[w].new
    BY <1>1, <2>1 DEF Buffers
  <2>4. \A b : <<Server, b>> \in maps
                /\ (\A v \in DOMAIN windows \ DOMAIN windows' : windows[v].buf # b)
                => <<Server, b>> \in maps'
    BY DEF Closing
  <2> QED BY <2>1, <2>2, <2>3, <2>4
<1>4. \A v, w \in DOMAIN windows' : v # w =>
        /\ windows'[v].buf # windows'[w].buf /\ windows'[v].buf # windows'[w].new
        /\ windows'[v].new = windows'[w].new => windows'[v].new = 0
  BY <1>1 DEF Closing, Buffers
<1> QED BY <1>2, <1>3, <1>4 DEF Buffers

\* Nothing else changes then.
LEMMA ClosingSpares ==
    ASSUME Core, NEW X, Closing(X), NEW h,
           \A w \in DOMAIN windows \cap X : windows[w].owner = h \/ windows[w].closing,
           \A c \in DOMAIN clients : c # h => c \in DOMAIN clients'
    PROVE  Spares(h)
<1>1. wids \in Nat /\ wids' \in Nat /\ wids <= wids' /\ missed' = missed
  BY DEF Core, Desk, Closing
<1>2. \A w \in DOMAIN windows : windows[w].owner # h /\ ~windows[w].closing => Kept(w)
  <2> SUFFICES ASSUME NEW w \in DOMAIN windows, windows[w].owner # h, ~windows[w].closing
               PROVE  Kept(w)
    OBVIOUS
  <2>1. w \notin X
    OBVIOUS
  <2>2. w \in DOMAIN windows'
    BY <2>1 DEF Closing
  <2> QED BY <2>1, <2>2 DEF Closing, Kept
<1>3. \A c \in Client : \A b : <<c, b>> \in maps => <<c, b>> \in maps'
  BY YutaniAssumption DEF Closing
<1> QED BY <1>1, <1>2, <1>3 DEF Spares, Closing

\* A step of the compositor keeps the invariant if it keeps its own books and serves the
\* client whose packet it read.
LEMMA Served ==
    ASSUME Core, NEW h, Reads(h), Spares(h), \A c \in Client : Gets(c, h),
           pipe' \in [Client -> Seq(Answer)],
           Desk(windows', stack', slot', focused', wids'), Buffers', Belongs',
           h \in DOMAIN clients => h \in DOMAIN clients' \/ Head(toServer).type = "GONE",
           \A w \in DOMAIN windows' : w \notin 1..wids =>
              h # Server /\ windows'[w].owner = h /\ Head(toServer).type # "GONE",
           h # Server /\ Head(toServer).type = "GONE" =>
              \A w \in DOMAIN windows' : windows'[w].owner = h => windows'[w].closing,
           h # Server => ClientOk(h)'
    PROVE  Core'
<1>1. Queue'
  BY QueueServed
<1>2. Orphans'
  BY OrphansServed
<1>3. Typed'
  BY DEF Core, Typed, Reads
<1>4. \A c \in Client : ClientOk(c)'
  BY OthersServed, YutaniAssumption
<1> QED BY <1>1, <1>2, <1>3, <1>4 DEF Core

\* The packet that is read comes from a client that is connected.
LEMMA HeadIs ==
    ASSUME Core, NEW h, h # Server, Reads(h), NEW m, m = Head(toServer)
    PROVE  /\ m \in Packet /\ m.from = h /\ h \in Client /\ PacketOk(m)
           /\ pc[h].at # "off" /\ pc[h] \in Where /\ ClientOk(h)
           /\ m.type \in Requests /\ h \notin gone =>
                /\ pc[h].at = "wait"
                /\ m.type = "HELLO" => pc[h].type = "WELCOME"
                /\ m.type = "NEW" => pc[h].type = "INIT"
                /\ m.type = "ACCEPT" =>
                    /\ pc[h].type = "BUFID" /\ m.wid = pc[h].wid /\ m.wid \in DOMAIN held[h]
                    /\ m.wid \in DOMAIN windows
<1>1. m \in Packet /\ m.from = h /\ h \in Client /\ PacketOk(m)
  BY ReadsLeaves DEF Core, Queue
<1>2. pc[h].at # "off" /\ pc[h] \in Where /\ ClientOk(h)
  BY <1>1 DEF PacketOk, Core, Typed
<1>3. ASSUME m.type \in Requests, h \notin gone
      PROVE  /\ pc[h].at = "wait"
             /\ m.type = "HELLO" => pc[h].type = "WELCOME"
             /\ m.type = "NEW" => pc[h].type = "INIT"
             /\ m.type = "ACCEPT" => pc[h].type = "BUFID" /\ m.wid = pc[h].wid
  <2>1. /\ pc[h].at = "wait" /\ m.type = Request(pc[h].type)
        /\ m.type = "ACCEPT" => m.wid = pc[h].wid
    BY <1>1, <1>3 DEF PacketOk
  <2>2. pc[h].type \in {"WELCOME", "INIT", "BUFID"}
    BY <1>2, <2>1 DEF Where
  <2> QED BY <2>1, <2>2 DEF Request
<1>4. ASSUME m.type \in Requests, h \notin gone, m.type = "ACCEPT"
      PROVE  m.wid \in DOMAIN held[h] /\ m.wid \in DOMAIN windows
  <2>1. m.wid \in DOMAIN held[h]
    BY <1>2, <1>3, <1>4 DEF ClientOk, Session
  <2> QED BY <1>2, <2>1 DEF ClientOk, Holds
<1> QED BY <1>1, <1>2, <1>3, <1>4

\* The sender of a packet that is not about a resize or a window to close.
LEMMA SenderKeeps ==
    ASSUME Core, NEW h, h # Server, Reads(h), Spares(h), Gets(h, h),
           \A w \in DOMAIN windows : ~windows[w].closing => Kept(w),
           h \in DOMAIN clients => h \in DOMAIN clients',
           NEW m, m = Head(toServer),
           m.type \in {"DONE", "ACCEPT"} => m.wid \notin DOMAIN windows,
           m.type \in {"HELLO", "NEW"} /\ h \notin gone =>
              h \in missed' \/ \E a \in Range(pipe'[h]) : a.type = pc[h].type
    PROVE  ClientOk(h)'
<1>1. h \in Client /\ ClientOk(h)
  BY HeadIs
<1>2. ASSUME NEW w \in DOMAIN held[h] PROVE Holds(h, w)'
  <2>1. w \in DOMAIN windows /\ ~windows[w].closing
    BY <1>1 DEF ClientOk, Holds
  <2> QED BY <1>1, <2>1, HoldsServed
<1>3. m.type = "ACCEPT" => h \in gone
  BY HeadIs DEF Requests
<1> QED BY <1>2, <1>3, SenderServed DEF Requests

\* Windows change their order, or the last of a closing one is seen.
LEMMA ClosingServed ==
    ASSUME Core, NEW h, Reads(h), NEW X, Closing(X), clients' = clients,
           \A w \in X : w \in DOMAIN windows /\ windows[w].closing,
           Desk(windows', stack', slot', focused', wids'),
           h # Server =>
              /\ Head(toServer).type \notin {"GONE", "HELLO", "NEW"}
              /\ Head(toServer).type \in {"DONE", "ACCEPT"} => Head(toServer).wid \notin DOMAIN windows
    PROVE  Core'
<1>1. Spares(h) /\ Spares(Server) /\ Buffers'
  BY ClosingSpares, ClosingBuffers
<1>2. \A w \in DOMAIN windows : windows[w].owner \in Client
  BY DEF Core, Desk, Window
<1>3. \A w \in DOMAIN windows : ~windows[w].closing => Kept(w)
  BY <1>1, <1>2, YutaniAssumption DEF Spares
<1>4. Belongs'
  <2>1. Belongs
    BY DEF Core
  <2>2. \A c \in DOMAIN clients : {w \in DOMAIN windows : windows[w].owner = c /\ ~windows[w].closing}
            = {w \in DOMAIN windows' : windows'[w].owner = c /\ ~windows'[w].closing}
    BY DEF Closing
  <2>3. \A w \in DOMAIN windows' : ~windows'[w].closing => windows'[w].owner \in DOMAIN clients
    BY <2>1 DEF Closing, Belongs
  <2> QED BY <2>1, <2>2, <2>3 DEF Belongs
<1>5. pipe' = pipe /\ DOMAIN windows' \subseteq 1..wids
  BY DEF Closing, Core, Desk
<1>6. \A c : Gets(c, h)
  BY <1>5 DEF Gets
<1>7. h # Server => ClientOk(h)'
  BY <1>1, <1>3, <1>6, SenderKeeps
<1>8. pipe' \in [Client -> Seq(Answer)]
  BY <1>5 DEF Core, Typed
<1>9. h # Server => Head(toServer).type # "GONE"
  OBVIOUS
<1> QED BY <1>1, <1>4, <1>5, <1>6, <1>7, <1>8, <1>9, Served

\* The compositor's own steps do not read a packet.
LEMMA OwnStep ==
    ASSUME UNCHANGED <<local, toServer, gone>>
    PROVE  Reads(Server)
BY DEF Reads, local

LEMMA RedrawStep ==
    ASSUME Core, up' = "up", NEW w \in DOMAIN windows, Redraw(w)
    PROVE  Core'
<1>1. PICK s : s = Now({})
  OBVIOUS
<1>2. PICK t : t = window_actually_close(s, w)
  OBVIOUS
<1>3. /\ up' = t.up /\ clients' = t.clients /\ windows' = t.windows
      /\ stack' = t.stack /\ slot' = t.slot /\ focused' = t.focused
      /\ bufs' = t.bufs /\ wids' = t.wids
      /\ pipe' = t.pipe /\ missed' = t.missed /\ maps' = t.maps
  BY <1>1, <1>2 DEF Redraw, Becomes
<1>4. DOMAIN s = Fields /\ DeskOf(s) /\ s.windows = windows /\ s.clients = clients
  BY <1>1, NowIs DEF Core, DeskOf
<1>5. DeskOf(t) /\ Closes(s, t, {w})
  BY <1>2, <1>3, <1>4, CloseDesk
<1>6. Closing({w})
  BY <1>1, <1>3, <1>5, ClosesClosing
<1>7. clients' = clients /\ Desk(windows', stack', slot', focused', wids')
  BY <1>3, <1>4, <1>5 DEF Closes, DeskOf
<1>8. Reads(Server)
  BY OwnStep DEF Redraw
<1>9. \A x \in {w} : x \in DOMAIN windows /\ windows[x].closing
  BY DEF Redraw
<1> QED BY <1>6, <1>7, <1>8, <1>9, ClosingServed

\* From s to t, only the focus and the order of the windows change.
LEMMA FocusCloses ==
    ASSUME NEW s, DOMAIN s = Fields, DeskOf(s), NEW w, w # None => w \in DOMAIN s.windows,
           NEW t, t = set_focused_window(s, w)
    PROVE  DeskOf(t) /\ Closes(s, t, {})
<1>1. /\ DeskOf(t) /\ t.windows = s.windows
      /\ t.clients = s.clients /\ t.wids = s.wids /\ t.bufs = s.bufs
      /\ t.pipe = s.pipe /\ t.missed = s.missed /\ t.maps = s.maps
  BY FocusDesk
<1> QED BY <1>1 DEF Closes

\* What the compositor becomes, when no window is told to close.
LEMMA NothingCloses ==
    ASSUME Core, NEW full, NEW s, s = Now(full), NEW t, DeskOf(t), Closes(s, t, {}), Becomes(t),
           NEW h, Reads(h),
           h # Server =>
              /\ Head(toServer).type \notin {"GONE", "HELLO", "NEW"}
              /\ Head(toServer).type \in {"DONE", "ACCEPT"} => Head(toServer).wid \notin DOMAIN windows
    PROVE  Core'
<1>1. /\ clients' = t.clients /\ windows' = t.windows
      /\ stack' = t.stack /\ slot' = t.slot /\ focused' = t.focused
      /\ bufs' = t.bufs /\ wids' = t.wids
      /\ pipe' = t.pipe /\ missed' = t.missed /\ maps' = t.maps
  BY DEF Becomes
<1>2. Closing({})
  BY <1>1, ClosesClosing
<1>3. clients' = clients /\ Desk(windows', stack', slot', focused', wids')
  BY <1>1, NowIs DEF Closes, DeskOf
<1> QED BY <1>2, <1>3, ClosingServed

LEMMA ClickStep ==
    ASSUME Core, NEW w \in DOMAIN windows \cup {None}, Click(w)
    PROVE  Core'
<1>1. PICK s : s = Now({})
  OBVIOUS
<1>2. PICK t : t = set_focused_window(s, w) /\ Becomes(t)
  BY <1>1 DEF Click
<1>3. DOMAIN s = Fields /\ DeskOf(s) /\ s.windows = windows
  BY <1>1, NowIs DEF Core, DeskOf
<1>4. DeskOf(t) /\ Closes(s, t, {})
  BY <1>2, <1>3, FocusCloses
<1>5. Reads(Server)
  BY OwnStep DEF Click
<1> QED BY <1>1, <1>2, <1>4, <1>5, NothingCloses

\* The window is shown from its first flip on.
LEMMA FlipDesk ==
    ASSUME NEW s, DOMAIN s = Fields, DeskOf(s), NEW w \in DOMAIN s.windows,
           NEW t, t = [s EXCEPT !.windows[w].hidden = FALSE]
    PROVE  DeskOf(t) /\ Closes(s, t, {})
<1>1. /\ t.windows = [s.windows EXCEPT ![w].hidden = FALSE]
      /\ t.stack = s.stack /\ t.slot = s.slot /\ t.focused = s.focused
      /\ t.clients = s.clients /\ t.wids = s.wids /\ t.bufs = s.bufs
      /\ t.pipe = s.pipe /\ t.missed = s.missed /\ t.maps = s.maps
  BY DEF Fields
<1>2. PICK W : W = s.windows /\ W \in [DOMAIN W -> Window] /\ w \in DOMAIN W
  BY DEF DeskOf, Desk
<1>3. PICK V : V = t.windows /\ V = [W EXCEPT ![w].hidden = FALSE]
  BY <1>1, <1>2
<1>4. W[w] \in Window /\ V[w] = [W[w] EXCEPT !.hidden = FALSE]
  BY <1>2, <1>3
<1>5. /\ V[w] \in Window /\ V[w].z = W[w].z /\ V[w].owner = W[w].owner
      /\ V[w].buf = W[w].buf /\ V[w].new = W[w].new /\ V[w].closing = W[w].closing
  BY <1>4 DEF Window
<1>6. DOMAIN V = DOMAIN W /\ \A v \in DOMAIN W : v # w => V[v] = W[v]
  BY <1>2, <1>3
<1>7. V \in [DOMAIN V -> Window]
  BY <1>2, <1>3, <1>5, <1>6
<1>8. /\ \A v \in DOMAIN W : /\ V[v].z = W[v].z /\ V[v].owner = W[v].owner
                             /\ V[v].buf = W[v].buf /\ V[v].new = W[v].new
                             /\ V[v].closing = W[v].closing
  BY <1>5, <1>6
<1>9. Closes(s, t, {})
  BY <1>1, <1>2, <1>3, <1>6, <1>8 DEF Closes
<1>10. Desk(W, t.stack, t.slot, t.focused, t.wids)
  BY <1>1, <1>2 DEF DeskOf
<1>11. Desk(V, t.stack, t.slot, t.focused, t.wids)
  BY <1>6, <1>7, <1>8, <1>10 DEF Desk
<1> QED BY <1>3, <1>9, <1>11 DEF DeskOf

\* Packets that change at most the order of the windows.
LEMMA OrderStep ==
    ASSUME Core, up' = "up", NEW full, NEW s, s = Now(full), NEW m, m = Head(toServer),
           NEW h, h # Server, Reads(h),
           m.type \in AboutWindow, NEW t, t = Handled(s, m), Becomes(t),
           m.type \in {"FLIP", "STACK", "FOCUS"} \/ m.wid \notin DOMAIN windows
    PROVE  Core'
<1>1. DOMAIN s = Fields /\ DeskOf(s) /\ s.windows = windows /\ s.up = up
  BY NowIs DEF Core, DeskOf
<1>2. m \in Packet
  BY HeadIs
<1>3. t.up = "up"
  BY DEF Becomes
<1>4. CASE m.wid \notin DOMAIN windows
  <2>1. t = s
    BY <1>1, <1>4 DEF Handled, AboutWindow
  <2>2. Closes(s, t, {})
    BY <2>1 DEF Closes
  <2> QED BY <1>1, <1>4, <2>1, <2>2, NothingCloses DEF AboutWindow
<1>5. CASE m.wid \in DOMAIN windows
  <2>1. CASE m.type = "FLIP"
    <3>1. t = [s EXCEPT !.windows[m.wid].hidden = FALSE]
      BY <1>1, <1>5, <2>1 DEF Handled
    <3>2. DeskOf(t) /\ Closes(s, t, {})
      BY <1>1, <1>5, <3>1, FlipDesk
    <3> QED BY <2>1, <3>2, NothingCloses
  <2>2. CASE m.type = "STACK"
    <3>1. t = reorder_window(s, m.wid, m.z)
      BY <1>1, <1>5, <2>2 DEF Handled
    <3>2. m.z \in Lists \cup Slots
      BY <1>2, <2>2 DEF Packet, AboutWindow
    <3>3. DeskOf(t) /\ Closes(s, t, {})
      BY <1>1, <1>3, <1>5, <3>1, <3>2, ReorderDesk
    <3> QED BY <2>2, <3>3, NothingCloses
  <2>3. CASE m.type = "FOCUS"
    <3>1. t = set_focused_window(s, m.wid)
      BY <1>1, <1>5, <2>3 DEF Handled
    <3>2. DeskOf(t) /\ Closes(s, t, {})
      BY <1>1, <1>5, <3>1, FocusCloses
    <3> QED BY <2>3, <3>2, NothingCloses
  <2> QED BY <1>5, <2>1, <2>2, <2>3
<1> QED BY <1>4, <1>5

\* send_to_client, from s to t, adds at most its packet to the pipe of c; a reply that does
\* not get there is missed.
Delivers(s, t, c, m) ==
    /\ DOMAIN t = Fields
    /\ t.up = s.up /\ t.clients = s.clients /\ t.windows = s.windows
    /\ t.stack = s.stack /\ t.slot = s.slot /\ t.focused = s.focused
    /\ t.bufs = s.bufs /\ t.wids = s.wids /\ t.maps = s.maps
    /\ s.missed \subseteq t.missed /\ t.pipe \in [Client -> Seq(Answer)]
    /\ \A d \in Client : d # c => t.pipe[d] = s.pipe[d]
    /\ \/ t.pipe[c] = s.pipe[c]
       \/ c \notin gone /\ t.pipe[c] = Append(s.pipe[c], m)
    /\ m.type # "OFFER" /\ c \notin gone =>
        c \in t.missed \/ t.pipe[c] = Append(s.pipe[c], m)

LEMMA SendIs ==
    ASSUME NEW s, DOMAIN s = Fields, s.pipe \in [Client -> Seq(Answer)],
           NEW c \in Client, NEW m \in Answer, NEW t, t = Send(s, c, m)
    PROVE  Delivers(s, t, c, m)
<1> USE DEF Delivers
<1>1. CASE c \in gone
  BY <1>1 DEF Send
<1>2. CASE c \notin gone /\ c \in s.full
  <2>1. PICK M : M = IF m.type = "OFFER" THEN s.missed ELSE s.missed \cup {c}
    OBVIOUS
  <2>2. t = [s EXCEPT !.missed = M]
    BY <1>2, <2>1 DEF Send
  <2>3. /\ DOMAIN t = Fields /\ t.missed = M
        /\ t.up = s.up /\ t.clients = s.clients /\ t.windows = s.windows
        /\ t.stack = s.stack /\ t.slot = s.slot /\ t.focused = s.focused
        /\ t.bufs = s.bufs /\ t.wids = s.wids /\ t.maps = s.maps /\ t.pipe = s.pipe
    BY <2>2 DEF Fields
  <2> QED BY <1>2, <2>1, <2>3
<1>3. CASE c \notin gone /\ c \notin s.full
  <2>1. t = [s EXCEPT !.pipe[c] = Append(@, m)]
    BY <1>3 DEF Send
  <2>2. /\ DOMAIN t = Fields /\ t.pipe = [s.pipe EXCEPT ![c] = Append(@, m)]
        /\ t.up = s.up /\ t.clients = s.clients /\ t.windows = s.windows
        /\ t.stack = s.stack /\ t.slot = s.slot /\ t.focused = s.focused
        /\ t.bufs = s.bufs /\ t.wids = s.wids /\ t.maps = s.maps /\ t.missed = s.missed
    BY <2>1 DEF Fields
  <2>3. PICK p : p = s.pipe /\ p \in [Client -> Seq(Answer)]
    OBVIOUS
  <2>4. PICK q : q = t.pipe /\ q = [p EXCEPT ![c] = Append(p[c], m)]
    BY <2>2, <2>3
  <2>5. Append(p[c], m) \in Seq(Answer)
    BY <2>3
  <2>6. q \in [Client -> Seq(Answer)] /\ q[c] = Append(p[c], m) /\ \A d \in Client : d # c => q[d] = p[d]
    BY <2>3, <2>4, <2>5
  <2> QED BY <1>3, <2>2, <2>3, <2>4, <2>6
<1> QED BY <1>1, <1>2, <1>3

\* A size is offered to client c.
LEMMA OfferStep ==
    ASSUME Core, NEW full, NEW s, s = Now(full), NEW c \in Client, pc[c].at # "off",
           NEW w \in Nat, NEW t, t = Send(s, c, [type |-> "OFFER", wid |-> w]), Becomes(t),
           NEW h, Reads(h), h # Server => Head(toServer).type = "REQUEST"
    PROVE  Core'
<1>1. PICK m : m = [type |-> "OFFER", wid |-> w]
  OBVIOUS
<1>2. m \in Answer /\ m.type = "OFFER"
  BY <1>1 DEF Answer
<1>3. /\ DOMAIN s = Fields /\ s.pipe = pipe /\ pipe \in [Client -> Seq(Answer)]
      /\ s.pipe \in [Client -> Seq(Answer)]
  BY NowIs DEF Core, Typed
<1>4. t = Send(s, c, m)
  BY <1>1
<1>5. Delivers(s, t, c, m)
  BY <1>2, <1>3, <1>4, SendIs, Zenon
<1>6. /\ clients' = clients /\ windows' = windows
      /\ stack' = stack /\ slot' = slot /\ focused' = focused
      /\ bufs' = bufs /\ wids' = wids /\ maps' = maps
      /\ missed \subseteq missed' /\ pipe' = t.pipe
  BY <1>5, NowIs DEF Becomes, Delivers
<1>7. /\ Desk(windows', stack', slot', focused', wids') /\ Buffers' /\ Belongs'
      /\ pipe' \in [Client -> Seq(Answer)]
  BY <1>5, <1>6 DEF Core, Buffers, Belongs, Delivers
<1>8. \A d \in Client : Gets(d, h)
  BY <1>2, <1>3, <1>5, <1>6 DEF Gets, Delivers
<1>9. wids \in Nat /\ DOMAIN windows \subseteq 1..wids
  BY DEF Core, Desk
<1>10. \A v \in DOMAIN windows : Kept(v)
  BY <1>6 DEF Kept
<1>11. Spares(h)
  BY <1>6, <1>9, <1>10 DEF Spares
<1>12. h # Server => ClientOk(h)'
  <2> SUFFICES ASSUME h # Server PROVE ClientOk(h)'
    OBVIOUS
  <2>1. h \in Client
    BY HeadIs
  <2> QED BY <1>6, <1>8, <1>10, <1>11, <2>1, SenderKeeps
<1> QED BY <1>6, <1>7, <1>8, <1>9, <1>11, <1>12, Served

LEMMA UserResizeStep ==
    ASSUME Core, NEW w \in DOMAIN windows, UserResize(w)
    PROVE  Core'
<1>1. PICK full : Becomes(Send(Now(full), windows[w].owner, [type |-> "OFFER", wid |-> w]))
  BY DEF UserResize, Offered
<1>2. PICK s : s = Now(full)
  OBVIOUS
<1>3. PICK c : c = windows[w].owner
  OBVIOUS
<1>4. PICK t : t = Send(s, c, [type |-> "OFFER", wid |-> w]) /\ Becomes(t)
  BY <1>1, <1>2, <1>3
<1>5. windows[w] \in Window /\ w \in Nat
  BY DEF Core, Desk
<1>6. c \in Client /\ pc[c].at # "off"
  BY <1>3, <1>5 DEF Window, Core, Orphans
<1>7. Reads(Server)
  BY OwnStep DEF UserResize
<1> QED BY <1>2, <1>4, <1>5, <1>6, <1>7, OfferStep

LEMMA RequestStep ==
    ASSUME Core, NEW full, NEW s, s = Now(full), NEW m, m = Head(toServer),
           NEW h, h # Server, Reads(h),
           m.type = "REQUEST", NEW t, t = Handled(s, m), Becomes(t), m.wid \in DOMAIN windows
    PROVE  Core'
<1>1. s.windows = windows
  BY NowIs
<1>2. t = Send(s, m.from, [type |-> "OFFER", wid |-> m.wid])
  BY <1>1 DEF Handled
<1>3. m.from = h /\ h \in Client /\ pc[h].at # "off"
  BY HeadIs
<1>4. m.wid \in Nat
  BY DEF Core, Desk
<1> QED BY <1>2, <1>3, <1>4, OfferStep

\* Nothing is left of a client behind the request that is read, unless it is gone.
LEMMA NothingBehind ==
    ASSUME Core, NEW h, h # Server, Reads(h), Head(toServer).type \in Requests, h \notin gone
    PROVE  \A p \in Range(toServer') : p.from # h
<1> SUFFICES ASSUME NEW p \in Range(toServer'), p.from = h PROVE FALSE
  OBVIOUS
<1>1. p.type = "GONE" /\ p \in Range(toServer)
  BY ReadsLeaves
<1>2. PacketOk(p)
  BY <1>1 DEF Core, Queue
<1> QED BY <1>1, <1>2 DEF PacketOk

LEMMA HelloStep ==
    ASSUME Core, NEW full, NEW s, s = Now(full), NEW m, m = Head(toServer),
           NEW h, h # Server, Reads(h),
           m.type = "HELLO", NEW t, t = Handled(s, m), Becomes(t)
    PROVE  Core'
<1>1. /\ DOMAIN s = Fields /\ s.full = full
      /\ s.up = up /\ s.clients = clients /\ s.windows = windows
      /\ s.stack = stack /\ s.slot = slot /\ s.focused = focused
      /\ s.bufs = bufs /\ s.wids = wids
      /\ s.pipe = pipe /\ s.missed = missed /\ s.maps = maps
  BY NowIs
<1>2. /\ m.from = h /\ h \in Client /\ pc[h].at # "off"
      /\ h \notin gone => pc[h].at = "wait" /\ pc[h].type = "WELCOME"
  BY HeadIs DEF Requests
<1>3. PICK a : a = IF h \in DOMAIN s.clients THEN s ELSE [s EXCEPT !.clients = Put(@, h, {})]
  OBVIOUS
<1>4. /\ DOMAIN a = Fields /\ a.clients = IF h \in DOMAIN clients THEN clients ELSE Put(clients, h, {})
      /\ a.up = up /\ a.windows = windows
      /\ a.stack = stack /\ a.slot = slot /\ a.focused = focused
      /\ a.bufs = bufs /\ a.wids = wids
      /\ a.pipe = pipe /\ a.missed = missed /\ a.maps = maps
  <2>1. CASE h \in DOMAIN clients
    BY <1>1, <1>3, <2>1
  <2>2. CASE h \notin DOMAIN clients
    <3>1. a = [s EXCEPT !.clients = Put(s.clients, h, {})]
      BY <1>1, <1>3, <2>2
    <3> QED BY <1>1, <2>2, <3>1 DEF Fields
  <2> QED BY <2>1, <2>2
<1>5. PICK r : r = [type |-> "WELCOME"]
  OBVIOUS
<1>6. r \in Answer /\ r.type = "WELCOME"
  BY <1>5 DEF Answer
<1>7. t = Send(a, h, r)
  BY <1>2, <1>3, <1>5 DEF Handled, Hello
<1>8. Delivers(a, t, h, r)
  <2>1. a.pipe \in [Client -> Seq(Answer)]
    BY <1>4 DEF Core, Typed
  <2> QED BY <1>2, <1>4, <1>6, <1>7, <2>1, SendIs, Zenon
<1>9. /\ clients' = a.clients /\ windows' = windows
      /\ stack' = stack /\ slot' = slot /\ focused' = focused
      /\ bufs' = bufs /\ wids' = wids /\ maps' = maps
      /\ missed \subseteq missed' /\ pipe' = t.pipe /\ missed' = t.missed
  BY <1>4, <1>8 DEF Becomes, Delivers
<1>10. /\ DOMAIN clients' = DOMAIN clients \cup {h}
       /\ \A c \in DOMAIN clients : clients'[c] = clients[c]
       /\ h \notin DOMAIN clients => clients'[h] = {}
       /\ clients' = [c \in DOMAIN clients' |-> clients'[c]]
  BY <1>4, <1>9 DEF Put, Core, Belongs
<1>11. Belongs'
  BY <1>2, <1>9, <1>10 DEF Core, Belongs
<1>12. /\ Desk(windows', stack', slot', focused', wids') /\ Buffers'
       /\ pipe' \in [Client -> Seq(Answer)]
  BY <1>8, <1>9 DEF Core, Buffers, Delivers
<1>13. h \notin gone => Fits(h, r)'
  <2>1. pc' = pc
    BY DEF Reads
  <2>2. h \notin gone => \A p \in Range(toServer') : p.from # h
    BY NothingBehind DEF Requests
  <2> QED BY <1>2, <1>6, <1>10, <2>1, <2>2 DEF Fits
<1>14. \A d \in Client : Gets(d, h)
  BY <1>2, <1>4, <1>6, <1>8, <1>9, <1>13 DEF Gets, Delivers
<1>15. wids \in Nat /\ DOMAIN windows \subseteq 1..wids
  BY DEF Core, Desk
<1>16. \A v \in DOMAIN windows : Kept(v)
  BY <1>9 DEF Kept
<1>17. Spares(h)
  BY <1>9, <1>10, <1>15, <1>16 DEF Spares
<1>18. h \notin gone => h \in missed' \/ \E x \in Range(pipe'[h]) : x.type = pc[h].type
  <2> SUFFICES ASSUME h \notin gone, h \notin missed'
               PROVE  \E x \in Range(pipe'[h]) : x.type = pc[h].type
    OBVIOUS
  <2>1. pipe'[h] = Append(pipe[h], r) /\ pipe[h] \in Seq(Answer)
    BY <1>2, <1>4, <1>6, <1>8, <1>9 DEF Delivers, Core, Typed
  <2>2. r \in Range(pipe'[h])
    BY <1>6, <2>1, AppendElems
  <2> QED BY <1>2, <1>6, <2>2
<1>19. ClientOk(h)'
  BY <1>2, <1>10, <1>14, <1>16, <1>17, <1>18, SenderKeeps
<1> QED BY <1>9, <1>10, <1>11, <1>12, <1>14, <1>15, <1>17, <1>19, Served

\* A new window of client c: it is hidden, on top of the middle.
NewWindow(c, b) ==
    [owner |-> c, buf |-> b, new |-> 0, z |-> "mid", hidden |-> TRUE, closing |-> FALSE]

\* From s to t, client c has got the new window w.
Creates(s, t, c, w) ==
    /\ DOMAIN t = Fields /\ t.up = s.up
    /\ w = s.wids + 1 /\ t.wids = w /\ t.bufs = s.bufs + 1
    /\ t.windows = Put(s.windows, w, NewWindow(c, s.bufs + 1))
    /\ t.clients = [s.clients EXCEPT ![c] = @ \cup {w}]
    /\ t.stack = [s.stack EXCEPT !["mid"] = Append(@, w)]
    /\ t.maps = s.maps \cup {<<Server, s.bufs + 1>>}
    /\ t.slot = s.slot /\ t.focused = s.focused
    /\ t.pipe = s.pipe /\ t.missed = s.missed /\ t.full = s.full

LEMMA CreateIs ==
    ASSUME NEW s, DOMAIN s = Fields, NEW c
    PROVE  Creates(s, server_window_create(s, c), c, s.wids + 1)
<1>1. PICK w : w = s.wids + 1
  OBVIOUS
<1>2. PICK b : b = s.bufs + 1
  OBVIOUS
<1>3. PICK W : W = Put(s.windows, w, NewWindow(c, b))
  OBVIOUS
<1>4. PICK M : M = s.maps \cup {<<Server, b>>}
  OBVIOUS
<1>5. PICK t : t = server_window_create(s, c)
  OBVIOUS
<1>6. t = [s EXCEPT !.wids = w, !.bufs = b, !.windows = W, !.clients[c] = @ \cup {w},
                    !.stack["mid"] = Append(@, w), !.maps = M]
  BY <1>1, <1>2, <1>3, <1>4, <1>5 DEF server_window_create, NewWindow, Fields
<1>7. /\ DOMAIN t = Fields /\ t.up = s.up /\ t.wids = w /\ t.bufs = b /\ t.windows = W
      /\ t.clients = [s.clients EXCEPT ![c] = @ \cup {w}]
      /\ t.stack = [s.stack EXCEPT !["mid"] = Append(@, w)]
      /\ t.maps = M
      /\ t.slot = s.slot /\ t.focused = s.focused
      /\ t.pipe = s.pipe /\ t.missed = s.missed /\ t.full = s.full
  BY <1>6 DEF Fields
<1>8. Creates(s, t, c, w)
  BY <1>1, <1>2, <1>3, <1>4, <1>7, Zenon DEF Creates
<1> QED BY <1>1, <1>5, <1>8

\* It is in the order like the others.
LEMMA CreateDesk ==
    ASSUME NEW s, DeskOf(s), s.bufs \in Nat, NEW c \in Client, NEW t, NEW w, Creates(s, t, c, w)
    PROVE  /\ DeskOf(t) /\ w \notin DOMAIN s.windows /\ w \in Nat
           /\ DOMAIN t.windows = DOMAIN s.windows \cup {w}
           /\ t.windows[w] = NewWindow(c, s.bufs + 1)
           /\ \A v \in DOMAIN s.windows : t.windows[v] = s.windows[v]
<1>1. PICK W : W = s.windows
  OBVIOUS
<1>2. PICK n : n = s.wids
  OBVIOUS
<1>3. PICK st : st = s.stack
  OBVIOUS
<1>4. PICK r : r = NewWindow(c, s.bufs + 1)
  OBVIOUS
<1>5. /\ n \in Nat /\ W \in [DOMAIN W -> Window] /\ DOMAIN W \subseteq 1..n
      /\ st \in [Lists -> Seq(Nat)] /\ s.slot \in [Slots -> Nat \cup {None}]
      /\ \A z \in Lists : IsInjective(st[z]) /\ Range(st[z]) = {v \in DOMAIN W : W[v].z = z}
      /\ \A z \in Slots : s.slot[z] # None => s.slot[z] \in DOMAIN W /\ W[s.slot[z]].z = z
      /\ s.focused # None => s.focused \in DOMAIN W
  BY <1>1, <1>2, <1>3 DEF DeskOf, Desk
<1>6. /\ w = n + 1 /\ t.wids = w /\ t.windows = Put(W, w, r)
      /\ t.stack = [st EXCEPT !["mid"] = Append(@, w)]
      /\ t.slot = s.slot /\ t.focused = s.focused
  BY <1>1, <1>2, <1>3, <1>4 DEF Creates
<1>7. w \in Nat /\ w \notin DOMAIN W /\ w \in 1..w /\ DOMAIN W \subseteq 1..w
  BY <1>5, <1>6
<1>8. r \in Window /\ r.z = "mid"
  <2>1. s.bufs + 1 \in Nat /\ "mid" \in Lists
    BY DEF Lists
  <2> QED BY <1>4, <2>1 DEF Window, NewWindow
<1>9. PICK V : V = t.windows
  OBVIOUS
<1>10. DOMAIN V = DOMAIN W \cup {w} /\ V[w] = r /\ \A v \in DOMAIN W : V[v] = W[v]
  BY <1>6, <1>7, <1>9 DEF Put
<1>11. V \in [DOMAIN V -> Window]
  BY <1>5, <1>6, <1>8, <1>9, <1>10 DEF Put
<1>12. "mid" \in Lists /\ w \notin Range(st["mid"]) /\ st["mid"] \in Seq(Nat) /\ IsInjective(st["mid"])
  BY <1>5, <1>7 DEF Lists
<1>13. /\ Append(st["mid"], w) \in Seq(Nat) /\ IsInjective(Append(st["mid"], w))
       /\ Range(Append(st["mid"], w)) = Range(st["mid"]) \cup {w}
  BY <1>7, <1>12, AppendElems
<1>14. PICK su : su = t.stack /\ su = [st EXCEPT !["mid"] = Append(st["mid"], w)]
  BY <1>6
<1>15. /\ su \in [Lists -> Seq(Nat)] /\ su["mid"] = Append(st["mid"], w)
       /\ \A z \in Lists : z # "mid" => su[z] = st[z]
  BY <1>5, <1>12, <1>13, <1>14
<1>16. \A z \in Lists : IsInjective(su[z]) /\ Range(su[z]) = {v \in DOMAIN V : V[v].z = z}
  <2> SUFFICES ASSUME NEW z \in Lists
               PROVE  IsInjective(su[z]) /\ Range(su[z]) = {v \in DOMAIN V : V[v].z = z}
    OBVIOUS
  <2>1. IsInjective(st[z]) /\ Range(st[z]) = {v \in DOMAIN W : W[v].z = z}
    BY <1>5
  <2>2. CASE z = "mid"
    BY <1>8, <1>10, <1>13, <1>15, <2>1, <2>2
  <2>3. CASE z # "mid"
    BY <1>8, <1>10, <1>15, <2>1, <2>3
  <2> QED BY <2>2, <2>3
<1>17. Desk(V, su, s.slot, s.focused, w)
  BY <1>5, <1>7, <1>10, <1>11, <1>15, <1>16 DEF Desk
<1> QED BY <1>1, <1>4, <1>6, <1>7, <1>9, <1>10, <1>14, <1>17 DEF DeskOf

\* What becomes of the compositor when client h gets the new window w.
Creating(h, w) ==
    /\ w = wids + 1 /\ wids' = w /\ bufs' = bufs + 1
    /\ w \notin DOMAIN windows /\ DOMAIN windows' = DOMAIN windows \cup {w}
    /\ windows'[w] = NewWindow(h, bufs + 1)
    /\ \A v \in DOMAIN windows : windows'[v] = windows[v]
    /\ clients' = [clients EXCEPT ![h] = @ \cup {w}]
    /\ maps' = maps \cup {<<Server, bufs + 1>>}

LEMMA CreatingBuffers ==
    ASSUME Core, NEW h, NEW w, Creating(h, w)
    PROVE  Buffers'
<1>1. Buffers /\ bufs \in Nat /\ bufs' = bufs + 1
  BY DEF Core, Buffers, Creating
<1>2. PICK b : b = bufs + 1 /\ b \in Nat /\ b # 0 /\ b = bufs'
  BY <1>1
<1>3. /\ windows'[w].buf = b /\ windows'[w].new = 0 /\ <<Server, b>> \in maps'
      /\ DOMAIN windows' = DOMAIN windows \cup {w} /\ w \notin DOMAIN windows
  BY <1>2 DEF Creating, NewWindow
<1>4. ASSUME NEW v \in DOMAIN windows
      PROVE  /\ windows'[v].buf \in 1..bufs' /\ windows'[v].new \in 0..bufs'
             /\ windows'[v].buf # b /\ windows'[v].new # b /\ windows'[v].buf # 0
             /\ windows'[v].new # windows'[v].buf
             /\ <<Server, windows'[v].buf>> \in maps'
             /\ windows'[v].new # 0 => <<Server, windows'[v].new>> \in maps'
  <2>1. windows'[v] = windows[v] /\ maps \subseteq maps'
    BY DEF Creating
  <2>2. /\ windows[v].buf \in 1..bufs /\ windows[v].new \in 0..bufs
        /\ windows[v].new # windows[v].buf
        /\ <<Server, windows[v].buf>> \in maps
        /\ windows[v].new # 0 => <<Server, windows[v].new>> \in maps
    BY <1>1 DEF Buffers
  <2>3. /\ windows[v].buf \in 1..bufs' /\ windows[v].new \in 0..bufs'
        /\ windows[v].buf # b /\ windows[v].new # b /\ windows[v].buf # 0
    BY <1>1, <1>2, <2>2
  <2> QED BY <2>1, <2>2, <2>3
<1>5. \A v \in DOMAIN windows' :
        /\ windows'[v].buf \in 1..bufs' /\ windows'[v].new \in 0..bufs'
        /\ windows'[v].new # windows'[v].buf
        /\ <<Server, windows'[v].buf>> \in maps'
        /\ windows'[v].new # 0 => <<Server, windows'[v].new>> \in maps'
  <2>1. b \in 1..bufs' /\ 0 \in 0..bufs'
    BY <1>1, <1>2
  <2> QED BY <1>2, <1>3, <1>4, <2>1
<1>6. \A v, x \in DOMAIN windows : v # x =>
        /\ windows'[v].buf # windows'[x].buf /\ windows'[v].buf # windows'[x].new
        /\ windows'[v].new = windows'[x].new => windows'[v].new = 0
  BY <1>1 DEF Buffers, Creating
<1>7. \A v, x \in DOMAIN windows' : v # x =>
        /\ windows'[v].buf # windows'[x].buf /\ windows'[v].buf # windows'[x].new
        /\ windows'[v].new = windows'[x].new => windows'[v].new = 0
  BY <1>2, <1>3, <1>4, <1>6
<1> QED BY <1>1, <1>5, <1>7 DEF Buffers

LEMMA CreatingBelongs ==
    ASSUME Core, NEW h \in DOMAIN clients, NEW w, Creating(h, w)
    PROVE  Belongs' /\ DOMAIN clients' = DOMAIN clients
<1>1. Belongs
  BY DEF Core
<1>2. /\ DOMAIN clients' = DOMAIN clients /\ clients'[h] = clients[h] \cup {w}
      /\ clients' = [c \in DOMAIN clients' |-> clients'[c]]
      /\ \A c \in DOMAIN clients : c # h => clients'[c] = clients[c]
  BY <1>1 DEF Creating, Belongs
<1>3. /\ windows'[w].owner = h /\ ~windows'[w].closing
      /\ DOMAIN windows' = DOMAIN windows \cup {w} /\ w \notin DOMAIN windows
      /\ \A v \in DOMAIN windows : windows'[v] = windows[v]
  BY DEF Creating, NewWindow
<1>4. \A c \in DOMAIN clients :
        clients'[c] = {v \in DOMAIN windows' : windows'[v].owner = c /\ ~windows'[v].closing}
  <2> SUFFICES ASSUME NEW c \in DOMAIN clients
               PROVE  clients'[c] = {v \in DOMAIN windows' : windows'[v].owner = c /\ ~windows'[v].closing}
    OBVIOUS
  <2>1. clients[c] = {v \in DOMAIN windows : windows[v].owner = c /\ ~windows[v].closing}
    BY <1>1 DEF Belongs
  <2>2. CASE c = h
    BY <1>2, <1>3, <2>1, <2>2
  <2>3. CASE c # h
    BY <1>2, <1>3, <2>1, <2>3
  <2> QED BY <2>2, <2>3
<1>5. \A v \in DOMAIN windows' : ~windows'[v].closing => windows'[v].owner \in DOMAIN clients
  BY <1>1, <1>3 DEF Belongs
<1> QED BY <1>1, <1>2, <1>4, <1>5 DEF Belongs

LEMMA CreatingSpares ==
    ASSUME Core, NEW h \in DOMAIN clients, NEW w, Creating(h, w), missed \subseteq missed'
    PROVE  Spares(h) /\ \A v \in DOMAIN windows : Kept(v)
<1>1. wids \in Nat /\ wids' \in Nat /\ wids <= wids' /\ w \notin 1..wids
  BY DEF Core, Desk, Creating
<1>2. \A v \in DOMAIN windows : Kept(v)
  BY DEF Creating, Kept
<1>3. DOMAIN clients' = DOMAIN clients /\ maps \subseteq maps'
  BY CreatingBelongs DEF Creating
<1> QED BY <1>1, <1>2, <1>3 DEF Spares, Creating

LEMMA NewStep ==
    ASSUME Core, NEW full, NEW s, s = Now(full), NEW m, m = Head(toServer),
           NEW h, h # Server, Reads(h),
           m.type = "NEW", NEW t, t = Handled(s, m), Becomes(t)
    PROVE  Core'
<1>1. /\ DOMAIN s = Fields /\ s.full = full
      /\ s.up = up /\ s.clients = clients /\ s.windows = windows
      /\ s.stack = stack /\ s.slot = slot /\ s.focused = focused
      /\ s.bufs = bufs /\ s.wids = wids
      /\ s.pipe = pipe /\ s.missed = missed /\ s.maps = maps
  BY NowIs
<1>2. /\ m.from = h /\ h \in Client /\ pc[h].at # "off" /\ h \in DOMAIN clients
      /\ h \notin gone => pc[h].at = "wait" /\ pc[h].type = "INIT"
  BY HeadIs DEF Requests, PacketOk
<1>3. PICK a, w : a = server_window_create(s, h) /\ w = s.wids + 1
  OBVIOUS
<1>4. Creates(s, a, h, w) /\ DeskOf(s) /\ bufs \in Nat
  BY <1>1, <1>3, CreateIs DEF DeskOf, Core, Buffers
<1>5. /\ DeskOf(a) /\ w \notin DOMAIN windows /\ w \in Nat
      /\ DOMAIN a.windows = DOMAIN windows \cup {w}
      /\ a.windows[w] = NewWindow(h, bufs + 1)
      /\ \A v \in DOMAIN windows : a.windows[v] = windows[v]
  BY <1>1, <1>2, <1>4, CreateDesk
<1>6. PICK r : r = [type |-> "INIT", wid |-> w, buf |-> bufs + 1]
  OBVIOUS
<1>7. r \in Answer /\ r.type = "INIT" /\ r.wid = w /\ r.buf = bufs + 1
  <2>1. bufs + 1 \in Nat
    BY <1>4
  <2> QED BY <1>5, <1>6, <2>1 DEF Answer
<1>8. PICK u : u = Send(a, h, r)
  OBVIOUS
<1>9. t = IF m.steal THEN set_focused_window(u, w) ELSE u
  <2>1. t = WindowNew(s, h, m.steal)
    BY <1>2 DEF Handled
  <2>2. a.wids = w /\ a.windows[w].buf = bufs + 1
    BY <1>4, <1>5 DEF Creates, NewWindow
  <2>3. u = Send(a, h, [type |-> "INIT", wid |-> a.wids, buf |-> a.windows[a.wids].buf])
    BY <1>6, <1>8, <2>2
  <2> QED BY <1>3, <2>1, <2>2, <2>3 DEF WindowNew
<1>10. Delivers(a, u, h, r)
  <2>1. a.pipe \in [Client -> Seq(Answer)] /\ DOMAIN a = Fields
    BY <1>1, <1>4 DEF Core, Typed, Creates
  <2> QED BY <1>2, <1>7, <1>8, <2>1, SendIs, Zenon
<1>11. DeskOf(u) /\ DOMAIN u = Fields /\ w \in DOMAIN u.windows
  BY <1>5, <1>10 DEF Delivers, DeskOf
<1>12. /\ DeskOf(t) /\ t.windows = u.windows
       /\ t.clients = u.clients /\ t.wids = u.wids /\ t.bufs = u.bufs
       /\ t.pipe = u.pipe /\ t.missed = u.missed /\ t.maps = u.maps
  <2>1. CASE m.steal
    BY <1>9, <1>11, <2>1, FocusDesk
  <2>2. CASE ~m.steal
    BY <1>9, <1>11, <2>2
  <2> QED BY <2>1, <2>2
<1>13. /\ windows' = a.windows /\ clients' = a.clients /\ wids' = a.wids /\ bufs' = a.bufs
       /\ maps' = a.maps /\ pipe' = u.pipe /\ missed' = u.missed
       /\ Desk(windows', stack', slot', focused', wids')
  BY <1>10, <1>12 DEF Becomes, Delivers, DeskOf
<1>14. Creating(h, w)
  BY <1>1, <1>3, <1>4, <1>5, <1>13 DEF Creating, Creates
<1>15. missed \subseteq missed' /\ pipe' \in [Client -> Seq(Answer)]
  BY <1>1, <1>4, <1>10, <1>13 DEF Delivers, Creates
<1>16. Spares(h) /\ (\A v \in DOMAIN windows : Kept(v)) /\ Buffers' /\ Belongs'
       /\ DOMAIN clients' = DOMAIN clients
  BY <1>2, <1>14, <1>15, CreatingSpares, CreatingBuffers, CreatingBelongs
<1>17. h \notin gone => Fits(h, r)'
  <2>1. pc' = pc /\ held' = held
    BY DEF Reads
  <2>2. h \notin gone => \A p \in Range(toServer') : p.from # h
    BY NothingBehind DEF Requests
  <2>3. w \notin DOMAIN held[h]
    BY <1>2, <1>5 DEF Core, ClientOk, Holds
  <2>4. /\ w \in DOMAIN windows' /\ windows'[w].owner = h /\ ~windows'[w].closing
        /\ windows'[w].buf = bufs + 1 /\ windows'[w].new = 0
    BY <1>14 DEF Creating, NewWindow
  <2> QED BY <1>2, <1>7, <2>1, <2>2, <2>3, <2>4 DEF Fits
<1>18. \A d \in Client : Gets(d, h)
  <2>1. a.pipe = pipe
    BY <1>1, <1>4 DEF Creates
  <2> QED BY <1>2, <1>7, <1>10, <1>13, <1>17, <2>1 DEF Gets, Delivers
<1>19. h \notin gone => h \in missed' \/ \E x \in Range(pipe'[h]) : x.type = pc[h].type
  <2> SUFFICES ASSUME h \notin gone, h \notin missed'
               PROVE  \E x \in Range(pipe'[h]) : x.type = pc[h].type
    OBVIOUS
  <2>0. a.pipe = pipe
    BY <1>1, <1>4 DEF Creates
  <2>1. pipe'[h] = Append(pipe[h], r) /\ pipe[h] \in Seq(Answer)
    BY <1>2, <1>7, <1>10, <1>13, <2>0 DEF Delivers, Core, Typed
  <2>2. r \in Range(pipe'[h])
    BY <1>7, <2>1, AppendElems
  <2> QED BY <1>2, <1>7, <2>2
<1>20. ClientOk(h)'
  BY <1>2, <1>16, <1>18, <1>19, SenderKeeps
<1>21. \A v \in DOMAIN windows' : v \notin 1..wids => windows'[v].owner = h
  BY <1>14 DEF Creating, NewWindow, Core, Desk
<1> QED BY <1>2, <1>13, <1>15, <1>16, <1>18, <1>20, <1>21, Served

\* A client that is gone has nothing.
LEMMA GoneHasNothing ==
    ASSUME Core, NEW c \in Client, c \in gone
    PROVE  DOMAIN held[c] = {} /\ pc[c].at = "gone" /\ pipe[c] = <<>>
BY DEF Core, ClientOk, Session

\* From W to V, window w has got buffers b and n.
NewBuffers(W, V, w, b, n) == V = [W EXCEPT ![w] = [[W[w] EXCEPT !.buf = b] EXCEPT !.new = n]]

\* Nothing else of the window changes then.
LEMMA SetBuffers ==
    ASSUME NEW W, W \in [DOMAIN W -> Window], NEW w \in DOMAIN W, NEW b \in Nat, NEW n \in Nat,
           NEW V, NewBuffers(W, V, w, b, n),
           NEW st, NEW sl, NEW foc, NEW k, Desk(W, st, sl, foc, k)
    PROVE  /\ Desk(V, st, sl, foc, k) /\ DOMAIN V = DOMAIN W
           /\ V[w].buf = b /\ V[w].new = n
           /\ V[w].owner = W[w].owner /\ (V[w].closing <=> W[w].closing)
           /\ \A v \in DOMAIN W : v # w => V[v] = W[v]
<1>1. W[w] \in Window /\ V[w] = [[W[w] EXCEPT !.buf = b] EXCEPT !.new = n]
  BY DEF NewBuffers
<1>2. /\ V[w] \in Window /\ V[w].z = W[w].z /\ V[w].owner = W[w].owner
      /\ V[w].buf = b /\ V[w].new = n /\ V[w].closing = W[w].closing
  BY <1>1 DEF Window
<1>3. DOMAIN V = DOMAIN W /\ \A v \in DOMAIN W : v # w => V[v] = W[v]
  BY DEF NewBuffers
<1>4. V \in [DOMAIN V -> Window]
  BY <1>2, <1>3 DEF NewBuffers
<1>5. \A v \in DOMAIN W : V[v].z = W[v].z
  BY <1>2, <1>3
<1>6. Desk(V, st, sl, foc, k)
  BY <1>3, <1>4, <1>5 DEF Desk
<1> QED BY <1>2, <1>3, <1>6

\* A window w of client h gets buffers b and n; the window and its owner stay.
Rebuffers(w, b, n) ==
    /\ DOMAIN windows' = DOMAIN windows /\ w \in DOMAIN windows
    /\ windows'[w].buf = b /\ windows'[w].new = n
    /\ windows'[w].owner = windows[w].owner /\ (windows'[w].closing <=> windows[w].closing)
    /\ \A v \in DOMAIN windows : v # w => windows'[v] = windows[v]
    /\ clients' = clients /\ wids' = wids

LEMMA RebuffersSpares ==
    ASSUME Core, NEW w, NEW b, NEW n, Rebuffers(w, b, n), missed \subseteq missed',
           \A c \in Client : \A x : <<c, x>> \in maps => <<c, x>> \in maps'
    PROVE  /\ Spares(windows[w].owner) /\ Belongs'
           /\ \A v \in DOMAIN windows : v # w => Kept(v)
<1>1. wids \in Nat /\ wids' = wids /\ clients' = clients
  BY DEF Core, Desk, Rebuffers
<1>2. \A v \in DOMAIN windows : v # w => Kept(v)
  BY DEF Rebuffers, Kept
<1>3. \A v \in DOMAIN windows : windows'[v].owner = windows[v].owner
                               /\ (windows'[v].closing <=> windows[v].closing)
  BY DEF Rebuffers
<1>4. Belongs'
  <2>1. Belongs /\ DOMAIN windows' = DOMAIN windows
    BY DEF Core, Rebuffers
  <2>2. \A c \in DOMAIN clients : {v \in DOMAIN windows : windows[v].owner = c /\ ~windows[v].closing}
            = {v \in DOMAIN windows' : windows'[v].owner = c /\ ~windows'[v].closing}
    BY <1>3, <2>1
  <2> QED BY <1>1, <1>3, <2>1, <2>2 DEF Belongs
<1> QED BY <1>1, <1>2, <1>3, <1>4 DEF Spares, Rebuffers

\* The compositor gives up the old buffer of a window that has got a new one.
LEMMA FinishBuffers ==
    ASSUME Core, NEW w \in DOMAIN windows, windows[w].new # 0,
           Rebuffers(w, windows[w].new, 0), bufs' = bufs,
           maps' = maps \ {<<Server, windows[w].buf>>}
    PROVE  Buffers'
<1>1. Buffers /\ bufs \in Nat
  BY DEF Core, Buffers
<1>2. PICK b, n : b = windows[w].buf /\ n = windows[w].new
  OBVIOUS
<1>3. /\ b \in 1..bufs /\ n \in 1..bufs /\ n # b /\ n # 0 /\ b # 0 /\ 0 \in 0..bufs
      /\ <<Server, n>> \in maps'
      /\ windows'[w].buf = n /\ windows'[w].new = 0
  <2>1. b \in 1..bufs /\ n \in 0..bufs /\ n # b /\ n # 0 /\ <<Server, n>> \in maps
    BY <1>1, <1>2 DEF Buffers
  <2>2. n \in 1..bufs /\ b # 0 /\ 0 \in 0..bufs
    BY <1>1, <2>1
  <2>3. <<Server, n>> \in maps'
    BY <1>2, <2>1
  <2>4. windows'[w].buf = n /\ windows'[w].new = 0
    BY <1>2 DEF Rebuffers
  <2> QED BY <2>1, <2>2, <2>3, <2>4
<1>4. ASSUME NEW v \in DOMAIN windows, v # w
      PROVE  /\ windows'[v].buf \in 1..bufs /\ windows'[v].new \in 0..bufs
             /\ windows'[v].new # windows'[v].buf
             /\ windows'[v].buf # n /\ windows'[v].new # n
             /\ <<Server, windows'[v].buf>> \in maps'
             /\ windows'[v].new # 0 => <<Server, windows'[v].new>> \in maps'
  <2>1. windows'[v] = windows[v]
    BY <1>4 DEF Rebuffers
  <2>2. /\ windows[v].buf \in 1..bufs /\ windows[v].new \in 0..bufs
        /\ windows[v].new # windows[v].buf
        /\ <<Server, windows[v].buf>> \in maps
        /\ windows[v].new # 0 => <<Server, windows[v].new>> \in maps
    BY <1>1 DEF Buffers
  <2>3. /\ windows[v].buf # b /\ windows[v].new # b
        /\ windows[v].buf # n /\ windows[v].new # n
    BY <1>1, <1>2, <1>3, <1>4 DEF Buffers
  <2> QED BY <1>2, <2>1, <2>2, <2>3
<1>5. \A v, x \in DOMAIN windows : v # x /\ v # w /\ x # w =>
        /\ windows'[v].buf # windows'[x].buf /\ windows'[v].buf # windows'[x].new
        /\ windows'[v].new = windows'[x].new => windows'[v].new = 0
  BY <1>1 DEF Buffers, Rebuffers
<1>6. \A v \in DOMAIN windows : v # w => windows'[v].buf # 0
  <2>1. 0 \notin 1..bufs
    BY <1>1
  <2> QED BY <1>4, <2>1
<1>7. \A v, x \in DOMAIN windows : v # x =>
        /\ windows'[v].buf # windows'[x].buf /\ windows'[v].buf # windows'[x].new
        /\ windows'[v].new = windows'[x].new => windows'[v].new = 0
  BY <1>3, <1>4, <1>5, <1>6
<1>8. \A v \in DOMAIN windows :
        /\ windows'[v].buf \in 1..bufs /\ windows'[v].new \in 0..bufs
        /\ windows'[v].new # windows'[v].buf
        /\ <<Server, windows'[v].buf>> \in maps'
        /\ windows'[v].new # 0 => <<Server, windows'[v].new>> \in maps'
  BY <1>3, <1>4
<1>9. DOMAIN windows' = DOMAIN windows
  BY DEF Rebuffers
<1> QED BY <1>1, <1>7, <1>8, <1>9 DEF Buffers

\* The compositor makes a buffer for the new size.
LEMMA ResizeBuffers ==
    ASSUME Core, NEW w \in DOMAIN windows,
           Rebuffers(w, windows[w].buf, bufs + 1), bufs' = bufs + 1,
           maps' = maps \cup {<<Server, bufs + 1>>}
    PROVE  Buffers'
<1>1. Buffers /\ bufs \in Nat
  BY DEF Core, Buffers
<1>2. PICK n : n = bufs + 1 /\ n \in Nat /\ n # 0 /\ n \in 0..bufs' /\ bufs' \in Nat
  BY <1>1
<1>3. <<Server, n>> \in maps' /\ windows'[w].buf = windows[w].buf /\ windows'[w].new = n
  BY <1>2 DEF Rebuffers
<1>4. ASSUME NEW v \in DOMAIN windows
      PROVE  /\ windows'[v].buf \in 1..bufs' /\ windows'[v].buf = windows[v].buf
             /\ windows'[v].buf # n
             /\ <<Server, windows'[v].buf>> \in maps'
             /\ v # w => windows'[v].new \in 0..bufs' /\ windows'[v].new # n
                         /\ windows'[v].new = windows[v].new
  <2>1. windows[v].buf \in 1..bufs /\ windows[v].new \in 0..bufs /\ <<Server, windows[v].buf>> \in maps
    BY <1>1 DEF Buffers
  <2>2. windows'[v].buf = windows[v].buf /\ (v # w => windows'[v].new = windows[v].new)
    BY <1>3 DEF Rebuffers
  <2>3. /\ windows[v].buf \in 1..bufs' /\ windows[v].buf # n
        /\ windows[v].new \in 0..bufs' /\ windows[v].new # n
    BY <1>1, <1>2, <2>1
  <2> QED BY <2>1, <2>2, <2>3
<1>5. \A v \in DOMAIN windows :
        /\ windows'[v].buf \in 1..bufs' /\ windows'[v].new \in 0..bufs'
        /\ windows'[v].new # windows'[v].buf
        /\ <<Server, windows'[v].buf>> \in maps'
        /\ windows'[v].new # 0 => <<Server, windows'[v].new>> \in maps'
  BY <1>1, <1>2, <1>3, <1>4 DEF Buffers
<1>6. \A v, x \in DOMAIN windows : v # x =>
        /\ windows'[v].buf # windows'[x].buf /\ windows'[v].buf # windows'[x].new
        /\ windows'[v].new = windows'[x].new => windows'[v].new = 0
  <2> SUFFICES ASSUME NEW v \in DOMAIN windows, NEW x \in DOMAIN windows, v # x
               PROVE  /\ windows'[v].buf # windows'[x].buf /\ windows'[v].buf # windows'[x].new
                      /\ windows'[v].new = windows'[x].new => windows'[v].new = 0
    OBVIOUS
  <2>1. /\ windows[v].buf # windows[x].buf /\ windows[v].buf # windows[x].new
        /\ windows[v].new = windows[x].new => windows[v].new = 0
    BY <1>1 DEF Buffers
  <2>2. CASE x = w
    BY <1>3, <1>4, <2>1, <2>2
  <2>3. CASE x # w
    BY <1>3, <1>4, <2>1, <2>3
  <2> QED BY <2>2, <2>3
<1>7. DOMAIN windows' = DOMAIN windows
  BY DEF Rebuffers
<1> QED BY <1>2, <1>5, <1>6, <1>7 DEF Buffers

\* From s to t, window w has got buffers b and n.
Rebuffered(s, t, w, b, n) ==
    /\ DeskOf(t) /\ DOMAIN t = Fields /\ t.up = s.up
    /\ DOMAIN t.windows = DOMAIN s.windows /\ w \in DOMAIN s.windows
    /\ t.windows[w].buf = b /\ t.windows[w].new = n
    /\ t.windows[w].owner = s.windows[w].owner
    /\ t.windows[w].closing <=> s.windows[w].closing
    /\ \A v \in DOMAIN s.windows : v # w => t.windows[v] = s.windows[v]
    /\ t.clients = s.clients /\ t.wids = s.wids
    /\ t.pipe = s.pipe /\ t.missed = s.missed

\* server_window_resize_finish, when there is a new buffer.
LEMMA FinishIs ==
    ASSUME NEW s, DOMAIN s = Fields, DeskOf(s), NEW w \in DOMAIN s.windows, s.windows[w].new # 0,
           NEW t, t = server_window_resize_finish(s, w)
    PROVE  /\ Rebuffered(s, t, w, s.windows[w].new, 0)
           /\ t.maps = s.maps \ {<<Server, s.windows[w].buf>>} /\ t.bufs = s.bufs
<1>1. PICK n, M : n = s.windows[w].new /\ M = s.maps \ {<<Server, s.windows[w].buf>>}
  OBVIOUS
<1>2. t = [s EXCEPT !.windows[w].buf = n, !.windows[w].new = 0, !.maps = M]
  BY <1>1 DEF server_window_resize_finish
<1>3. /\ t.windows = [[s.windows EXCEPT ![w].buf = n] EXCEPT ![w].new = 0]
      /\ DOMAIN t = Fields /\ t.maps = M /\ t.up = s.up /\ t.clients = s.clients
      /\ t.stack = s.stack /\ t.slot = s.slot /\ t.focused = s.focused
      /\ t.bufs = s.bufs /\ t.wids = s.wids /\ t.pipe = s.pipe /\ t.missed = s.missed
  BY <1>2 DEF Fields
<1>4. PICK W : /\ W = s.windows /\ W \in [DOMAIN W -> Window] /\ w \in DOMAIN W
               /\ Desk(W, s.stack, s.slot, s.focused, s.wids)
  BY DEF DeskOf, Desk
<1>5. PICK V : V = t.windows /\ V = [[W EXCEPT ![w].buf = n] EXCEPT ![w].new = 0]
  BY <1>3, <1>4
<1>6. NewBuffers(W, V, w, n, 0)
  BY <1>4, <1>5 DEF NewBuffers
<1>7. n \in Nat /\ 0 \in Nat
  BY <1>1, <1>4 DEF Window
<1>8. /\ Desk(V, s.stack, s.slot, s.focused, s.wids) /\ DOMAIN V = DOMAIN W
      /\ V[w].buf = n /\ V[w].new = 0
      /\ V[w].owner = W[w].owner /\ (V[w].closing <=> W[w].closing)
      /\ \A v \in DOMAIN W : v # w => V[v] = W[v]
  BY <1>4, <1>6, <1>7, SetBuffers
<1>9. DeskOf(t)
  BY <1>3, <1>5, <1>8 DEF DeskOf
<1> QED BY <1>1, <1>3, <1>4, <1>5, <1>8, <1>9 DEF Rebuffered

\* The client draws into the new buffer, and the compositor now uses it too.
LEMMA DoneStep ==
    ASSUME Core, NEW full, NEW s, s = Now(full), NEW m, m = Head(toServer),
           NEW h, h # Server, Reads(h),
           m.type = "DONE", NEW t, t = Handled(s, m), Becomes(t), m.wid \in DOMAIN windows
    PROVE  Core'
<1>1. /\ DOMAIN s = Fields /\ s.clients = clients /\ s.windows = windows
      /\ s.stack = stack /\ s.slot = slot /\ s.focused = focused
      /\ s.bufs = bufs /\ s.wids = wids
      /\ s.pipe = pipe /\ s.missed = missed /\ s.maps = maps
  BY NowIs
<1>2. PICK w : w = m.wid /\ w \in DOMAIN windows
  OBVIOUS
<1>3. /\ m.from = h /\ h \in Client /\ h \in DOMAIN clients /\ windows[w].owner = h
      /\ m \in Range(toServer) /\ ClientOk(h)
  BY <1>2, HeadIs, ReadsLeaves DEF PacketOk, AboutWindow
<1>4. t = server_window_resize_finish(s, w)
  BY <1>1, <1>2 DEF Handled
<1>5. Desk(windows, stack, slot, focused, wids) /\ windows \in [DOMAIN windows -> Window]
  BY DEF Core, Desk
<1>6. Sent("DONE", w)
  BY <1>2, <1>3 DEF Sent
<1>7. CASE windows[w].new = 0
  <2>1. t = s
    BY <1>1, <1>4, <1>7 DEF server_window_resize_finish
  <2>2. /\ clients' = clients /\ windows' = windows
        /\ stack' = stack /\ slot' = slot /\ focused' = focused
        /\ bufs' = bufs /\ wids' = wids /\ maps' = maps /\ missed' = missed /\ pipe' = pipe
    BY <1>1, <2>1 DEF Becomes
  <2>3. Rebuffers(w, windows[w].buf, windows[w].new)
    BY <1>2, <2>2 DEF Rebuffers
  <2>4. Spares(h) /\ Belongs' /\ \A v \in DOMAIN windows : v # w => Kept(v)
    BY <1>3, <2>2, <2>3, RebuffersSpares
  <2>5. Buffers' /\ Desk(windows', stack', slot', focused', wids') /\ pipe' \in [Client -> Seq(Answer)]
    BY <1>5, <2>2 DEF Core, Buffers, Typed
  <2>6. \A c : Gets(c, h)
    BY <2>2 DEF Gets
  <2>7. ASSUME NEW v \in DOMAIN held[h] PROVE Holds(h, v)'
    <3>1. v # w
      BY <1>3, <1>6, <1>7 DEF ClientOk, Holds, Resize
    <3>2. v \in DOMAIN windows
      BY <1>3 DEF ClientOk, Holds
    <3> QED BY <1>2, <1>3, <2>4, <3>1, <3>2, HoldsServed
  <2>8. ClientOk(h)'
    BY <2>2, <2>4, <2>6, <2>7, SenderServed DEF Requests
  <2>9. DOMAIN windows' \subseteq 1..wids
    BY <1>5, <2>2 DEF Desk
  <2> QED BY <2>2, <2>4, <2>5, <2>6, <2>8, <2>9, Served
<1>8. CASE windows[w].new # 0
  <2>0. DeskOf(s)
    BY <1>1, <1>5 DEF DeskOf
  <2>1. /\ Rebuffered(s, t, w, s.windows[w].new, 0)
        /\ t.maps = s.maps \ {<<Server, s.windows[w].buf>>} /\ t.bufs = s.bufs
    BY <1>1, <1>2, <1>4, <1>8, <2>0, FinishIs
  <2>2. /\ clients' = clients /\ windows' = t.windows
        /\ bufs' = bufs /\ wids' = wids /\ missed' = missed /\ pipe' = pipe
        /\ maps' = maps \ {<<Server, windows[w].buf>>}
    BY <1>1, <2>1 DEF Becomes, Rebuffered
  <2>3. Desk(windows', stack', slot', focused', wids')
    BY <2>1 DEF Becomes, Rebuffered, DeskOf
  <2>4. /\ DOMAIN windows' = DOMAIN windows
        /\ windows'[w].buf = windows[w].new /\ windows'[w].new = 0
        /\ windows'[w].owner = windows[w].owner /\ (windows'[w].closing <=> windows[w].closing)
        /\ \A v \in DOMAIN windows : v # w => windows'[v] = windows[v]
    BY <1>1, <2>1, <2>2 DEF Rebuffered
  <2>5. Rebuffers(w, windows[w].new, 0)
    BY <1>2, <2>2, <2>4 DEF Rebuffers
  <2>6. \A c \in Client : \A x : <<c, x>> \in maps => <<c, x>> \in maps'
    BY <2>2, YutaniAssumption
  <2>7. Spares(h) /\ Belongs' /\ \A v \in DOMAIN windows : v # w => Kept(v)
    BY <1>3, <2>2, <2>5, <2>6, RebuffersSpares
  <2>8. Buffers' /\ pipe' \in [Client -> Seq(Answer)]
    BY <1>2, <1>8, <2>2, <2>5, FinishBuffers DEF Core, Typed
  <2>9. \A c : Gets(c, h)
    BY <2>2 DEF Gets
  <2>10. ASSUME w \in DOMAIN held[h] PROVE Holds(h, w)'
    <3>1. Holds(h, w) /\ pc' = pc /\ held' = held /\ Range(toServer') \subseteq Range(toServer)
      BY <1>3, <2>10, ReadsLeaves DEF ClientOk, Reads
    <3>2. ~Draws(h, w) /\ held[h][w].buf = windows[w].new
      BY <1>6, <3>1 DEF Holds, Resize
    <3>3. ~Sent("DONE", w)'
      <4> SUFFICES ASSUME NEW p \in Range(toServer'), p.type = "DONE", p.wid = w PROVE FALSE
        BY DEF Sent
      <4>1. PacketOk(p)
        BY <3>1 DEF Core, Queue
      <4>2. p.from = h
        BY <1>2, <1>3, <4>1 DEF PacketOk, AboutWindow
      <4> QED BY <1>2, <4>2, ReadsLeaves
    <3>4. ~Draws(h, w)'
      BY <3>1, <3>2 DEF Draws
    <3>5. Resize(h, w)'
      BY <2>4, <3>1, <3>2, <3>3, <3>4 DEF Resize
    <3>6. ~Sent("CLOSE", w)' /\ <<h, held[h][w].buf>> \in maps'
      BY <1>3, <2>6, <3>1 DEF Sent, Holds
    <3> QED BY <2>4, <3>1, <3>5, <3>6 DEF Holds
  <2>11. ASSUME NEW v \in DOMAIN held[h] PROVE Holds(h, v)'
    <3>1. CASE v = w
      BY <2>10, <3>1
    <3>2. CASE v # w
      <4>1. v \in DOMAIN windows
        BY <1>3 DEF ClientOk, Holds
      <4> QED BY <1>2, <1>3, <2>7, <3>2, <4>1, HoldsServed
    <3> QED BY <3>1, <3>2
  <2>12. ClientOk(h)'
    BY <2>2, <2>7, <2>9, <2>11, SenderServed DEF Requests
  <2>13. DOMAIN windows' \subseteq 1..wids
    BY <1>5, <2>4 DEF Desk
  <2> QED BY <2>2, <2>3, <2>4, <2>7, <2>8, <2>9, <2>12, <2>13, Served
<1> QED BY <1>7, <1>8

\* server_window_resize, when there is no new buffer yet.
LEMMA ResizeIs ==
    ASSUME NEW s, DOMAIN s = Fields, DeskOf(s), NEW w \in DOMAIN s.windows, s.windows[w].new = 0,
           s.bufs \in Nat, NEW t, t = server_window_resize(s, w)
    PROVE  /\ Rebuffered(s, t, w, s.windows[w].buf, s.bufs + 1)
           /\ t.maps = s.maps \cup {<<Server, s.bufs + 1>>} /\ t.bufs = s.bufs + 1
           /\ t.full = s.full
<1>1. PICK n, M : n = s.bufs + 1 /\ M = s.maps \cup {<<Server, n>>}
  OBVIOUS
<1>2. t = [s EXCEPT !.bufs = n, !.windows[w].new = n, !.maps = M]
  BY <1>1 DEF server_window_resize, Fields
<1>3. /\ t.windows = [s.windows EXCEPT ![w].new = n]
      /\ DOMAIN t = Fields /\ t.maps = M /\ t.up = s.up /\ t.clients = s.clients
      /\ t.stack = s.stack /\ t.slot = s.slot /\ t.focused = s.focused
      /\ t.bufs = n /\ t.wids = s.wids /\ t.pipe = s.pipe /\ t.missed = s.missed
      /\ t.full = s.full
  BY <1>2 DEF Fields
<1>4. PICK W : /\ W = s.windows /\ W \in [DOMAIN W -> Window] /\ w \in DOMAIN W
               /\ Desk(W, s.stack, s.slot, s.focused, s.wids)
  BY DEF DeskOf, Desk
<1>5. PICK V : V = t.windows /\ V = [W EXCEPT ![w].new = n]
  BY <1>3, <1>4
<1>6. PICK b : b = W[w].buf /\ b \in Nat
  BY <1>4 DEF Window
<1>7. NewBuffers(W, V, w, b, n)
  <2>1. W[w] \in Window
    BY <1>4
  <2>2. [W[w] EXCEPT !.buf = b] = W[w]
    BY <1>6, <2>1 DEF Window
  <2> QED BY <1>4, <1>5, <2>2 DEF NewBuffers
<1>8. n \in Nat
  BY <1>1
<1>9. /\ Desk(V, s.stack, s.slot, s.focused, s.wids) /\ DOMAIN V = DOMAIN W
      /\ V[w].buf = b /\ V[w].new = n
      /\ V[w].owner = W[w].owner /\ (V[w].closing <=> W[w].closing)
      /\ \A v \in DOMAIN W : v # w => V[v] = W[v]
  BY <1>4, <1>6, <1>7, <1>8, SetBuffers
<1>10. DeskOf(t)
  BY <1>3, <1>5, <1>9 DEF DeskOf
<1> QED BY <1>1, <1>3, <1>4, <1>5, <1>6, <1>9, <1>10 DEF Rebuffered

\* Nothing about a window that is held is left behind a request of its owner.
LEMMA OnlyRequest ==
    ASSUME Core, NEW h, h # Server, Reads(h), Head(toServer).type \in Requests, h \notin gone,
           NEW w \in DOMAIN windows, windows[w].owner = h
    PROVE  \A type \in AboutWindow : ~Sent(type, w)'
<1> SUFFICES ASSUME NEW type \in AboutWindow, NEW p \in Range(toServer'), p.type = type, p.wid = w
             PROVE  FALSE
  BY DEF Sent
<1>1. p.from # h /\ p \in Range(toServer)
  BY NothingBehind, ReadsLeaves
<1>2. PacketOk(p)
  BY <1>1 DEF Core, Queue
<1> QED BY <1>1, <1>2 DEF PacketOk

\* There is no new buffer yet when the owner of a window accepts a size.
LEMMA AcceptFirst ==
    ASSUME Core, NEW h, h # Server, Reads(h), h \notin gone,
           Head(toServer).type = "ACCEPT"
    PROVE  windows[Head(toServer).wid].new = 0
<1>1. PICK m : m = Head(toServer) /\ m.type = "ACCEPT" /\ m.type \in Requests
  BY DEF Requests
<1>2. /\ h \in Client /\ ClientOk(h) /\ m.wid \in DOMAIN held[h] /\ m.wid \in DOMAIN windows
      /\ pc[h].at = "wait"
  BY <1>1, HeadIs
<1>3. PICK w : w = m.wid /\ Holds(h, w)
  BY <1>2 DEF ClientOk
<1>4. Sent("ACCEPT", w)
  BY <1>1, <1>3, ReadsLeaves DEF Sent
<1>5. ~Draws(h, w)
  BY <1>2 DEF Draws
<1>6. ~Sent("DONE", w)
  <2>1. ~Sent("DONE", w)'
    <3>1. windows[w].owner = h
      BY <1>3 DEF Holds
    <3>2. "DONE" \in AboutWindow
      BY DEF AboutWindow
    <3> QED BY <1>1, <1>2, <1>3, <3>1, <3>2, OnlyRequest
  <2>2. \A p \in Range(toServer) : p.type = "DONE" => p \in Range(toServer')
    BY <1>1, ReadsLeaves
  <2> QED BY <2>1, <2>2 DEF Sent
<1> QED BY <1>1, <1>3, <1>4, <1>5, <1>6 DEF Holds, Resize

\* A size that a client accepts: there is a buffer for it, and the client hears of it.
LEMMA AcceptStep ==
    ASSUME Core, NEW full, NEW s, s = Now(full), NEW m, m = Head(toServer),
           NEW h, h # Server, Reads(h),
           m.type = "ACCEPT", NEW t, t = Handled(s, m), Becomes(t), m.wid \in DOMAIN windows
    PROVE  Core'
<1>1. /\ DOMAIN s = Fields /\ s.clients = clients /\ s.windows = windows
      /\ s.stack = stack /\ s.slot = slot /\ s.focused = focused
      /\ s.bufs = bufs /\ s.wids = wids
      /\ s.pipe = pipe /\ s.missed = missed /\ s.maps = maps
  BY NowIs
<1>2. PICK w : w = m.wid /\ w \in DOMAIN windows
  OBVIOUS
<1>3. /\ m.from = h /\ h \in Client /\ h \in DOMAIN clients /\ windows[w].owner = h
      /\ m \in Range(toServer) /\ ClientOk(h) /\ pc[h].at # "off" /\ m.type \in Requests
      /\ h \notin gone => pc[h].at = "wait" /\ pc[h].type = "BUFID" /\ w = pc[h].wid
  BY <1>2, HeadIs, ReadsLeaves DEF PacketOk, AboutWindow, Requests
<1>4. PICK a : a = server_window_resize(s, w)
  OBVIOUS
<1>5. PICK r : r = [type |-> "BUFID", wid |-> w, buf |-> a.windows[w].new]
  OBVIOUS
<1>6. t = Send(a, h, r)
  BY <1>1, <1>2, <1>3, <1>4, <1>5 DEF Handled, Accept
<1>7. /\ Desk(windows, stack, slot, focused, wids) /\ windows \in [DOMAIN windows -> Window]
      /\ DeskOf(s) /\ w \in Nat /\ bufs \in Nat
  BY <1>1, <1>2 DEF Core, Desk, DeskOf, Buffers
<1>8. CASE windows[w].new # 0
  <2>1. h \in gone
    BY <1>2, <1>8, AcceptFirst
  <2>2. t = s
    BY <1>1, <1>4, <1>6, <1>8, <2>1 DEF server_window_resize, Send
  <2>3. /\ clients' = clients /\ windows' = windows
        /\ stack' = stack /\ slot' = slot /\ focused' = focused
        /\ bufs' = bufs /\ wids' = wids /\ maps' = maps /\ missed' = missed /\ pipe' = pipe
    BY <1>1, <2>2 DEF Becomes
  <2>4. Rebuffers(w, windows[w].buf, windows[w].new)
    BY <1>2, <2>3 DEF Rebuffers
  <2>5. Spares(h) /\ Belongs'
    BY <1>3, <2>3, <2>4, RebuffersSpares
  <2>6. Buffers' /\ Desk(windows', stack', slot', focused', wids') /\ pipe' \in [Client -> Seq(Answer)]
    BY <1>7, <2>3 DEF Core, Buffers, Typed
  <2>7. \A c : Gets(c, h)
    BY <2>3 DEF Gets
  <2>8. DOMAIN held[h] = {}
    BY <1>3, <2>1, GoneHasNothing
  <2>9. ClientOk(h)'
    BY <2>1, <2>3, <2>5, <2>7, <2>8, SenderServed
  <2>10. DOMAIN windows' \subseteq 1..wids
    BY <1>7, <2>3 DEF Desk
  <2> QED BY <2>3, <2>5, <2>6, <2>7, <2>9, <2>10, Served
<1>9. CASE windows[w].new = 0
  <2>1. /\ Rebuffered(s, a, w, s.windows[w].buf, s.bufs + 1)
        /\ a.maps = s.maps \cup {<<Server, s.bufs + 1>>} /\ a.bufs = s.bufs + 1
    BY <1>1, <1>2, <1>4, <1>7, <1>9, ResizeIs
  <2>2. /\ r \in Answer /\ r.type = "BUFID" /\ r.wid = w /\ r.buf = bufs + 1 /\ r.buf # 0
    <3>1. a.windows[w].new = bufs + 1 /\ bufs + 1 \in Nat /\ bufs + 1 # 0
      BY <1>1, <1>7, <2>1 DEF Rebuffered
    <3> QED BY <1>5, <1>7, <3>1 DEF Answer
  <2>3. Delivers(a, t, h, r)
    <3>1. a.pipe \in [Client -> Seq(Answer)] /\ DOMAIN a = Fields
      BY <1>1, <2>1 DEF Core, Typed, Rebuffered
    <3> QED BY <1>3, <1>6, <2>2, <3>1, SendIs, Zenon
  <2>4. /\ clients' = clients /\ windows' = a.windows
        /\ bufs' = bufs + 1 /\ wids' = wids /\ missed \subseteq missed'
        /\ maps' = maps \cup {<<Server, bufs + 1>>}
        /\ pipe' = t.pipe /\ missed' = t.missed /\ a.pipe = pipe
        /\ Desk(windows', stack', slot', focused', wids')
    BY <1>1, <2>1, <2>3 DEF Becomes, Rebuffered, Delivers, DeskOf
  <2>5. /\ DOMAIN windows' = DOMAIN windows
        /\ windows'[w].buf = windows[w].buf /\ windows'[w].new = bufs + 1
        /\ windows'[w].owner = windows[w].owner /\ (windows'[w].closing <=> windows[w].closing)
        /\ \A v \in DOMAIN windows : v # w => windows'[v] = windows[v]
    BY <1>1, <2>1, <2>4 DEF Rebuffered
  <2>6. Rebuffers(w, windows[w].buf, bufs + 1)
    BY <1>2, <2>4, <2>5 DEF Rebuffers
  <2>7. Spares(h) /\ Belongs' /\ \A v \in DOMAIN windows : v # w => Kept(v)
    BY <1>3, <2>4, <2>6, RebuffersSpares
  <2>8. Buffers' /\ pipe' \in [Client -> Seq(Answer)]
    BY <1>2, <2>3, <2>4, <2>6, ResizeBuffers DEF Delivers
  <2>9. pc' = pc /\ held' = held /\ gone' = gone
    BY DEF Reads
  <2>10. h \notin gone => Fits(h, r)'
    <3>1. h \notin gone => \A p \in Range(toServer') : p.from # h
      BY <1>3, NothingBehind
    <3> QED BY <1>3, <2>2, <2>5, <2>9, <3>1 DEF Fits
  <2>11. \A d \in Client : Gets(d, h)
    BY <1>3, <2>2, <2>3, <2>4, <2>10 DEF Gets, Delivers
  <2>12. h \notin gone => h \in missed' \/ \E x \in Range(pipe'[h]) : x.type = pc[h].type
    <3> SUFFICES ASSUME h \notin gone, h \notin missed'
                 PROVE  \E x \in Range(pipe'[h]) : x.type = pc[h].type
      OBVIOUS
    <3>1. pipe'[h] = Append(pipe[h], r) /\ pipe[h] \in Seq(Answer)
      BY <1>3, <2>2, <2>3, <2>4 DEF Delivers, Core, Typed
    <3>2. r \in Range(pipe'[h])
      BY <2>2, <3>1, AppendElems
    <3> QED BY <1>3, <2>2, <3>2
  <2>13. ASSUME w \in DOMAIN held[h] PROVE Holds(h, w)'
    <3>1. Holds(h, w) /\ h \notin gone
      BY <1>3, <2>13, GoneHasNothing DEF ClientOk
    <3>2. \A type \in AboutWindow : ~Sent(type, w)'
      BY <1>2, <1>3, <3>1, OnlyRequest
    <3>3. ~Sent("ACCEPT", w)' /\ ~Sent("DONE", w)' /\ ~Sent("CLOSE", w)'
      BY <3>2 DEF AboutWindow
    <3>4. ~Draws(h, w) /\ ~Draws(h, w)'
      BY <1>3, <2>9, <3>1 DEF Draws
    <3>5. held[h][w].buf = windows[w].buf
      BY <1>9, <3>1, <3>4 DEF Holds, Resize
    <3>6. Resize(h, w)'
      BY <1>3, <2>5, <2>9, <3>1, <3>3, <3>4, <3>5 DEF Resize
    <3>7. <<h, held[h][w].buf>> \in maps'
      BY <2>4, <3>1 DEF Holds
    <3> QED BY <2>5, <2>9, <3>1, <3>3, <3>6, <3>7 DEF Holds
  <2>14. ASSUME NEW v \in DOMAIN held[h] PROVE Holds(h, v)'
    <3>1. CASE v = w
      BY <2>13, <3>1
    <3>2. CASE v # w
      <4>1. v \in DOMAIN windows
        BY <1>3 DEF ClientOk, Holds
      <4> QED BY <1>2, <1>3, <2>7, <3>2, <4>1, HoldsServed
    <3> QED BY <3>1, <3>2
  <2>15. ClientOk(h)'
    BY <1>3, <2>4, <2>7, <2>11, <2>12, <2>14, SenderServed
  <2>16. DOMAIN windows' \subseteq 1..wids
    BY <1>7, <2>5 DEF Desk
  <2> QED BY <1>3, <2>4, <2>7, <2>8, <2>11, <2>15, <2>16, Served
<1> QED BY <1>8, <1>9

LEMMA CloseStep ==
    ASSUME Core, up' = "up", NEW full, NEW s, s = Now(full), NEW m, m = Head(toServer),
           NEW h, h # Server, Reads(h),
           m.type = "CLOSE", NEW t, t = Handled(s, m), Becomes(t), m.wid \in DOMAIN windows
    PROVE  Core'
<1>1. /\ DOMAIN s = Fields /\ s.clients = clients /\ s.windows = windows /\ DeskOf(s)
  BY NowIs DEF Core, DeskOf
<1>2. PICK w : w = m.wid /\ w \in DOMAIN windows
  OBVIOUS
<1>3. /\ m.from = h /\ h \in Client /\ h \in DOMAIN clients /\ windows[w].owner = h
      /\ m \in Range(toServer) /\ ClientOk(h)
  BY <1>2, HeadIs, ReadsLeaves DEF PacketOk, AboutWindow
<1>4. PICK a : a = window_mark_for_close(s, w) /\ DOMAIN a = Fields
  BY <1>1, CloseUp
<1>5. t = window_remove_from_client(a, h, w)
  BY <1>1, <1>2, <1>3, <1>4 DEF Handled, Close
<1>6. /\ t.up = a.up /\ t.windows = a.windows
      /\ t.stack = a.stack /\ t.slot = a.slot /\ t.focused = a.focused
      /\ t.bufs = a.bufs /\ t.wids = a.wids
      /\ t.pipe = a.pipe /\ t.missed = a.missed /\ t.maps = a.maps
      /\ h \in DOMAIN a.clients => t.clients = [a.clients EXCEPT ![h] = @ \ {w}]
  <2>1. CASE h \in DOMAIN a.clients
    <3>1. t = [a EXCEPT !.clients[h] = @ \ {w}]
      BY <1>5, <2>1 DEF window_remove_from_client
    <3> QED BY <1>4, <3>1 DEF Fields
  <2>2. CASE h \notin DOMAIN a.clients
    BY <1>5, <2>2 DEF window_remove_from_client
  <2> QED BY <2>1, <2>2
<1>7. a.up = "up"
  BY <1>6 DEF Becomes
<1>8. DeskOf(a) /\ Closes(s, a, {w})
  BY <1>1, <1>2, <1>4, <1>7, MarkDesk
<1>9. clients' = [clients EXCEPT ![h] = @ \ {w}]
  BY <1>1, <1>3, <1>6, <1>8 DEF Becomes, Closes
<1>10. Closing({w}) /\ Desk(windows', stack', slot', focused', wids')
  <2>1. /\ a.wids = wids' /\ a.bufs = bufs' /\ a.pipe = pipe' /\ a.missed = missed'
        /\ a.windows = windows' /\ a.maps = maps'
        /\ a.stack = stack' /\ a.slot = slot' /\ a.focused = focused'
    BY <1>6 DEF Becomes
  <2>2. Closing({w})
    BY <1>8, <2>1, ClosesClosing
  <2> QED BY <1>8, <2>1, <2>2 DEF DeskOf
<1>11. /\ DOMAIN clients' = DOMAIN clients /\ clients'[h] = clients[h] \ {w}
       /\ clients' = [c \in DOMAIN clients' |-> clients'[c]]
       /\ \A c \in DOMAIN clients : c # h => clients'[c] = clients[c]
  BY <1>3, <1>9
<1>12. Belongs'
  <2>1. Belongs
    BY DEF Core
  <2>2. \A c \in DOMAIN clients :
          clients'[c] = {v \in DOMAIN windows' : windows'[v].owner = c /\ ~windows'[v].closing}
    <3> SUFFICES ASSUME NEW c \in DOMAIN clients
                 PROVE  clients'[c] = {v \in DOMAIN windows' : windows'[v].owner = c /\ ~windows'[v].closing}
      OBVIOUS
    <3>1. clients[c] = {v \in DOMAIN windows : windows[v].owner = c /\ ~windows[v].closing}
      BY <2>1 DEF Belongs
    <3>2. CASE c = h
      BY <1>10, <1>11, <3>1, <3>2 DEF Closing
    <3>3. CASE c # h
      BY <1>3, <1>10, <1>11, <3>1, <3>3 DEF Closing
    <3> QED BY <3>2, <3>3
  <2>3. \A v \in DOMAIN windows' : ~windows'[v].closing => windows'[v].owner \in DOMAIN clients
    BY <1>10, <2>1 DEF Closing, Belongs
  <2> QED BY <1>11, <2>1, <2>2, <2>3 DEF Belongs
<1>13. Spares(h) /\ Buffers'
  BY <1>3, <1>10, <1>11, ClosingSpares, ClosingBuffers
<1>14. \A v \in DOMAIN windows : v # w => Kept(v)
  BY <1>10 DEF Closing, Kept
<1>15. pipe' = pipe /\ pipe' \in [Client -> Seq(Answer)] /\ DOMAIN windows' \subseteq 1..wids
  BY <1>10 DEF Closing, Core, Typed, Desk
<1>16. \A c : Gets(c, h)
  BY <1>15 DEF Gets
<1>17. ASSUME NEW v \in DOMAIN held[h] PROVE Holds(h, v)'
  <2>1. v # w /\ v \in DOMAIN windows
    BY <1>2, <1>3 DEF ClientOk, Holds, Sent
  <2> QED BY <1>3, <1>13, <1>14, <2>1, HoldsServed
<1>18. ClientOk(h)'
  BY <1>11, <1>13, <1>16, <1>17, SenderServed DEF Requests
<1> QED BY <1>10, <1>11, <1>12, <1>13, <1>15, <1>16, <1>18, Served

\* The compositor hears that a client is gone.
LEMMA GoneStep ==
    ASSUME Core, up' = "up", NEW full, NEW s, s = Now(full), NEW m, m = Head(toServer),
           NEW h, h # Server, Reads(h),
           m.type = "GONE", NEW t, t = Handled(s, m), Becomes(t)
    PROVE  Core'
<1>1. /\ DOMAIN s = Fields /\ s.clients = clients /\ s.windows = windows /\ DeskOf(s)
  BY NowIs DEF Core, DeskOf
<1>2. m.from = h /\ h \in Client /\ h \in gone /\ ClientOk(h)
  BY HeadIs DEF PacketOk
<1>3. PICK a : a = IF h \in DOMAIN s.clients THEN CloseAll(s, s.clients[h]) ELSE s
  OBVIOUS
<1>4. PICK u : u = [a EXCEPT !.clients = Del(@, h)]
  OBVIOUS
<1>5. t = IF DOMAIN u.clients = {} /\ u.up = "up" THEN [u EXCEPT !.up = "exited"] ELSE u
  BY <1>2, <1>3, <1>4 DEF Handled, Disconnected
<1>6. PICK X : X = IF h \in DOMAIN clients THEN clients[h] ELSE {}
  OBVIOUS
<1>7. /\ X \subseteq DOMAIN windows /\ \A v \in X : windows[v].owner = h
      /\ \A v \in DOMAIN windows : windows[v].owner = h => windows[v].closing \/ v \in X
  BY <1>6 DEF Core, Belongs
<1>8. DOMAIN a = Fields /\ (a.up = "up" => DeskOf(a) /\ Closes(s, a, X))
  <2>1. CASE h \in DOMAIN clients
    BY <1>1, <1>3, <1>6, <1>7, <2>1, CloseAllDesk
  <2>2. CASE h \notin DOMAIN clients
    <3>1. Closes(s, s, {})
      BY DEF Closes
    <3> QED BY <1>1, <1>3, <1>6, <2>2, <3>1
  <2> QED BY <2>1, <2>2
<1>9. /\ DOMAIN u = Fields /\ u.up = a.up /\ u.windows = a.windows
      /\ u.stack = a.stack /\ u.slot = a.slot /\ u.focused = a.focused
      /\ u.bufs = a.bufs /\ u.wids = a.wids
      /\ u.pipe = a.pipe /\ u.missed = a.missed /\ u.maps = a.maps
      /\ u.clients = Del(a.clients, h)
  BY <1>4, <1>8 DEF Fields
<1>10. t = u
  <2> SUFFICES ASSUME t = [u EXCEPT !.up = "exited"] PROVE FALSE
    BY <1>5
  <2>1. t.up = "exited"
    BY <1>9 DEF Fields
  <2> QED BY <2>1 DEF Becomes
<1>11. /\ DeskOf(a) /\ Closes(s, a, X)
       /\ a.wids = wids' /\ a.bufs = bufs' /\ a.pipe = pipe' /\ a.missed = missed'
       /\ a.windows = windows' /\ a.maps = maps'
       /\ a.stack = stack' /\ a.slot = slot' /\ a.focused = focused'
       /\ clients' = Del(a.clients, h)
  BY <1>8, <1>9, <1>10 DEF Becomes
<1>12. Closing(X) /\ Desk(windows', stack', slot', focused', wids')
  <2>1. Closing(X)
    BY <1>11, ClosesClosing
  <2> QED BY <1>11, <2>1 DEF DeskOf
<1>13. /\ DOMAIN clients' = DOMAIN clients \ {h} /\ clients' = [c \in DOMAIN clients' |-> clients'[c]]
       /\ \A c \in DOMAIN clients' : clients'[c] = clients[c]
  BY <1>1, <1>11 DEF Closes, Del
<1>14. Belongs'
  <2>1. Belongs
    BY DEF Core
  <2>2. \A c \in DOMAIN clients' :
          clients'[c] = {v \in DOMAIN windows' : windows'[v].owner = c /\ ~windows'[v].closing}
    <3> SUFFICES ASSUME NEW c \in DOMAIN clients'
                 PROVE  clients'[c] = {v \in DOMAIN windows' : windows'[v].owner = c /\ ~windows'[v].closing}
      OBVIOUS
    <3>1. clients'[c] = {v \in DOMAIN windows : windows[v].owner = c /\ ~windows[v].closing} /\ c # h
      BY <1>13, <2>1 DEF Belongs
    <3> QED BY <1>7, <1>12, <3>1 DEF Closing
  <2>3. \A v \in DOMAIN windows' : ~windows'[v].closing => windows'[v].owner \in DOMAIN clients'
    BY <1>7, <1>12, <1>13, <2>1 DEF Closing, Belongs
  <2> QED BY <1>13, <2>1, <2>2, <2>3 DEF Belongs
<1>15. Spares(h) /\ Buffers'
  BY <1>7, <1>12, <1>13, ClosingSpares, ClosingBuffers
<1>16. pipe' = pipe /\ pipe' \in [Client -> Seq(Answer)] /\ DOMAIN windows' \subseteq 1..wids
  BY <1>12 DEF Closing, Core, Typed, Desk
<1>17. \A c : Gets(c, h)
  BY <1>16 DEF Gets
<1>18. DOMAIN held[h] = {}
  BY <1>2, GoneHasNothing
<1>19. ClientOk(h)'
  BY <1>2, <1>15, <1>17, <1>18, SenderServed
<1>20. \A v \in DOMAIN windows' : windows'[v].owner = h => windows'[v].closing
  BY <1>7, <1>12 DEF Closing
<1> QED BY <1>12, <1>14, <1>15, <1>16, <1>17, <1>19, <1>20, Served

\* Whatever the compositor reads, the invariant holds after it.
LEMMA HandleStep ==
    ASSUME Core, up' = "up", Handle
    PROVE  Core'
<1>1. PICK full : Becomes(Handled(Now(full), Head(toServer)))
  BY DEF Handle
<1>2. PICK s : s = Now(full)
  OBVIOUS
<1>3. PICK m : m = Head(toServer)
  OBVIOUS
<1>4. PICK t : t = Handled(s, m) /\ Becomes(t)
  BY <1>1, <1>2, <1>3
<1>5. toServer # <<>> /\ toServer' = Tail(toServer) /\ UNCHANGED <<pc, held, aside, gone>>
  BY DEF Handle, local
<1>6. m \in Packet
  BY <1>3, <1>5, HeadTail DEF Core, Queue
<1>7. PICK h : h = m.from /\ h \in Client /\ h # Server
  <2>1. m.from \in Client
    BY <1>6 DEF Packet
  <2> QED BY <2>1, YutaniAssumption
<1>8. Reads(h)
  BY <1>3, <1>5, <1>7 DEF Reads
<1>9. m.type \in {"GONE", "HELLO", "NEW"} \/ m.type \in AboutWindow
  BY <1>6 DEF Packet, AboutWindow
<1>10. CASE m.type = "GONE"
  BY <1>2, <1>3, <1>4, <1>7, <1>8, <1>10, GoneStep
<1>11. CASE m.type = "HELLO"
  BY <1>2, <1>3, <1>4, <1>7, <1>8, <1>11, HelloStep
<1>12. CASE m.type = "NEW"
  BY <1>2, <1>3, <1>4, <1>7, <1>8, <1>12, NewStep
<1>13. CASE m.type \in AboutWindow /\ (m.type \in {"FLIP", "STACK", "FOCUS"} \/ m.wid \notin DOMAIN windows)
  BY <1>2, <1>3, <1>4, <1>7, <1>8, <1>13, OrderStep
<1>14. CASE m.wid \in DOMAIN windows /\ m.type = "REQUEST"
  BY <1>2, <1>3, <1>4, <1>7, <1>8, <1>14, RequestStep
<1>15. CASE m.wid \in DOMAIN windows /\ m.type = "ACCEPT"
  BY <1>2, <1>3, <1>4, <1>7, <1>8, <1>15, AcceptStep
<1>16. CASE m.wid \in DOMAIN windows /\ m.type = "DONE"
  BY <1>2, <1>3, <1>4, <1>7, <1>8, <1>16, DoneStep
<1>17. CASE m.wid \in DOMAIN windows /\ m.type = "CLOSE"
  BY <1>2, <1>3, <1>4, <1>7, <1>8, <1>17, CloseStep
<1> QED BY <1>9, <1>10, <1>11, <1>12, <1>13, <1>14, <1>15, <1>16, <1>17 DEF AboutWindow

----------------------------------------------------------------------------
(* A step of a client, and what it leaves alone *)

\* Client c writes packet m.
Writes(c, m) ==
    /\ toServer' = Append(toServer, m)
    /\ m \in Packet /\ m.from = c /\ (m.type \in AboutWindow => m.wid \in DOMAIN held[c])

Moves(c) ==
    /\ UNCHANGED yg
    /\ \A d \in Client : d # c =>
        /\ pc'[d] = pc[d] /\ held'[d] = held[d] /\ aside'[d] = aside[d] /\ pipe'[d] = pipe[d]
        /\ d \in gone' <=> d \in gone
        /\ d \in missed' <=> d \in missed
    /\ toServer' = toServer \/ \E m : Writes(c, m)
    /\ \A d, b : d # c /\ <<d, b>> \in maps => <<d, b>> \in maps'

\* What is in the server's pipe then.
LEMMA MovesAdds ==
    ASSUME Core, NEW c \in Client, Moves(c)
    PROVE  /\ Range(toServer) \subseteq Range(toServer')
           /\ \A p \in Range(toServer') : p \in Range(toServer) \/ p.from = c
           /\ \A w \in DOMAIN windows : windows[w].owner # c =>
                \A type \in AboutWindow : Sent(type, w)' <=> Sent(type, w)
<1>1. toServer \in Seq(Packet)
  BY DEF Core, Queue
<1>2. CASE toServer' = toServer
  BY <1>2 DEF Sent
<1>3. CASE \E m : Writes(c, m)
  <2>1. PICK m : Writes(c, m)
    BY <1>3
  <2>2. /\ m.from = c /\ (m.type \in AboutWindow => m.wid \in DOMAIN held[c])
        /\ Range(toServer') = Range(toServer) \cup {m}
    BY <1>1, <2>1, AppendElems DEF Writes
  <2>3. ASSUME NEW w \in DOMAIN windows, windows[w].owner # c, NEW type \in AboutWindow
        PROVE  Sent(type, w)' <=> Sent(type, w)
    <3>1. m.type = type => m.wid # w
      BY <2>2, <2>3 DEF Core, ClientOk, Holds
    <3> QED BY <2>2, <3>1 DEF Sent
  <2> QED BY <2>2, <2>3
<1> QED BY <1>2, <1>3 DEF Moves

\* The compositor's books do not change.
LEMMA MovesBooks ==
    ASSUME Core, NEW c \in Client, Moves(c)
    PROVE  /\ Desk(windows', stack', slot', focused', wids') /\ Belongs' /\ Buffers'
           /\ windows' = windows /\ clients' = clients /\ wids' = wids
<1>1. /\ windows' = windows /\ clients' = clients /\ wids' = wids /\ bufs' = bufs
      /\ stack' = stack /\ slot' = slot /\ focused' = focused
  BY DEF Moves, yg
<1>2. \A b : <<Server, b>> \in maps => <<Server, b>> \in maps'
  BY YutaniAssumption DEF Moves
<1>3. Buffers'
  BY <1>1, <1>2 DEF Core, Buffers
<1> QED BY <1>1, <1>3 DEF Core, Belongs

\* Nor does anything for another client.
LEMMA OthersStay ==
    ASSUME Core, NEW c \in Client, Moves(c), NEW d \in Client, d # c
    PROVE  ClientOk(d)'
<1>1. /\ pc'[d] = pc[d] /\ held'[d] = held[d] /\ aside'[d] = aside[d] /\ pipe'[d] = pipe[d]
      /\ d \in gone' <=> d \in gone
      /\ d \in missed' <=> d \in missed
      /\ windows' = windows /\ clients' = clients
  BY MovesBooks DEF Moves
<1>2. ClientOk(d)
  BY DEF Core
<1>3. \A m : Fits(d, m) => Fits(d, m)'
  BY <1>1, MovesAdds DEF Fits
<1>4. Session(d)'
  BY <1>1, <1>2, <1>3 DEF ClientOk, Session
<1>5. Answered(d)'
  BY <1>1, <1>2, MovesAdds DEF ClientOk, Answered
<1>6. ASSUME NEW w \in DOMAIN held[d] PROVE Holds(d, w)'
  <2>1. Holds(d, w)
    BY <1>2 DEF ClientOk
  <2>2. w \in DOMAIN windows /\ windows[w].owner # c
    BY <2>1 DEF Holds
  <2>3. \A type \in AboutWindow : Sent(type, w)' <=> Sent(type, w)
    BY <2>2, MovesAdds
  <2>4. /\ Sent("DONE", w)' <=> Sent("DONE", w)
        /\ Sent("ACCEPT", w)' <=> Sent("ACCEPT", w)
        /\ Sent("CLOSE", w)' <=> Sent("CLOSE", w)
    BY <2>3 DEF AboutWindow
  <2>5. Draws(d, w)' <=> Draws(d, w)
    BY <1>1 DEF Draws
  <2>6. Resize(d, w)'
    BY <1>1, <2>1, <2>4, <2>5 DEF Holds, Resize
  <2>7. <<d, held[d][w].buf>> \in maps'
    BY <2>1 DEF Holds, Moves
  <2> QED BY <1>1, <2>1, <2>4, <2>6, <2>7 DEF Holds
<1> QED BY <1>1, <1>4, <1>5, <1>6 DEF ClientOk

\* A packet of another client in the server's pipe is as good as before.
LEMMA OtherPackets ==
    ASSUME Core, NEW c \in Client, Moves(c), NEW p \in Range(toServer), p.from # c
    PROVE  PacketOk(p)'
<1>1. PacketOk(p) /\ p.from \in Client
  <2>1. p \in Packet
    BY RangeOf DEF Core, Queue
  <2> QED BY <2>1 DEF Core, Queue, Packet
<1>2. /\ pc'[p.from] = pc[p.from] /\ (p.from \in gone' <=> p.from \in gone)
      /\ windows' = windows /\ clients' = clients /\ wids' = wids
  BY <1>1, MovesBooks DEF Moves
<1> QED BY <1>1, <1>2, MovesAdds DEF PacketOk

\* Steps after which client c is still there.
LEMMA Moved ==
    ASSUME Core, NEW c \in Client, Moves(c), Typed', Queue', ClientOk(c)',
           gone' = gone, pc[c].at # "off" => pc'[c].at # "off"
    PROVE  Core'
<1>1. windows' = windows
  BY MovesBooks
<1>2. Orphans'
  <2> SUFFICES ASSUME NEW w \in DOMAIN windows
               PROVE  /\ pc'[windows[w].owner].at # "off"
                      /\ windows[w].owner \in gone =>
                          \/ windows[w].closing
                          \/ \E m \in Range(toServer') : m.type = "GONE" /\ m.from = windows[w].owner
    BY <1>1 DEF Orphans
  <2>1. windows[w].owner \in Client
    BY DEF Core, Desk, Window
  <2>2. pc'[windows[w].owner].at # "off"
    BY <2>1 DEF Core, Orphans, Moves
  <2> QED BY <2>2, MovesAdds DEF Core, Orphans
<1> QED BY <1>2, MovesBooks, OthersStay DEF Core

\* Client c writes packet m, when it waits for nothing.
LEMMA QueueWrite ==
    ASSUME Core, NEW c \in Client, Moves(c), NEW m, Writes(c, m),
           pc[c].at \notin {"wait", "gone"}, pc'[c].at # "off", gone' = gone,
           m.type # "GONE", m.type # "HELLO" => pc[c].at # "off",
           m.type = "DONE" => ~Sent("DONE", m.wid),
           m.type \in Requests =>
              /\ pc'[c].at = "wait" /\ m.type = Request(pc'[c].type)
              /\ m.type = "ACCEPT" => m.wid = pc'[c].wid
    PROVE  Queue'
<1>1. /\ toServer \in Seq(Packet) /\ InOrder(toServer) /\ Session(c)
      /\ \A p \in Range(toServer) : PacketOk(p)
  BY DEF Core, Queue, ClientOk
<1>2. /\ m \in Packet /\ m.from = c /\ (m.type \in AboutWindow => m.wid \in DOMAIN held[c])
      /\ toServer' = Append(toServer, m)
  BY DEF Writes
<1>3. c \notin gone /\ (pc[c].at # "off" => c \in DOMAIN clients)
  <2>1. pc[c] \in Where
    BY DEF Core, Typed
  <2>2. pc[c].at \in {"off", "run", "drawing"}
    BY <2>1 DEF Where
  <2> QED BY <1>1, <2>2 DEF Session
<1>4. \A p \in Range(toServer) : p.from = c => p.type # "GONE" /\ p.type \notin Requests
  BY <1>1, <1>3 DEF PacketOk
<1>5. /\ toServer' \in Seq(Packet) /\ Range(toServer') = Range(toServer) \cup {m}
  BY <1>1, <1>2, AppendElems
<1>6. InOrder(toServer')
  <2>1. \A p \in Range(toServer) : p.from = m.from =>
              /\ p.type # "GONE"
              /\ p.type \in Requests => m.type = "GONE"
              /\ ~(p.type = "DONE" /\ m.type = "DONE" /\ p.wid = m.wid)
    BY <1>2, <1>4 DEF Sent
  <2> QED BY <1>1, <1>2, <2>1, InOrderAppend
<1>7. windows' = windows /\ clients' = clients /\ wids' = wids
  BY MovesBooks
<1>8. \A p \in Range(toServer) : PacketOk(p)'
  <2> SUFFICES ASSUME NEW p \in Range(toServer) PROVE PacketOk(p)'
    OBVIOUS
  <2>1. CASE p.from # c
    BY <2>1, OtherPackets
  <2>2. CASE p.from = c
    BY <1>1, <1>3, <1>4, <1>7, <2>2 DEF PacketOk
  <2> QED BY <2>1, <2>2
<1>9. PacketOk(m)'
  <2>1. ASSUME m.type \in AboutWindow
        PROVE  m.wid \in 1..wids /\ m.wid \in DOMAIN windows /\ windows[m.wid].owner = c
    <3>1. Holds(c, m.wid)
      BY <1>2, <2>1 DEF Core, ClientOk
    <3> QED BY <3>1 DEF Holds, Core, Desk
  <2> QED BY <1>2, <1>3, <1>7, <2>1 DEF PacketOk
<1> QED BY <1>5, <1>6, <1>8, <1>9 DEF Queue

\* Client c writes nothing; and either does not change its state, or waits for no packet.
LEMMA QueueStays ==
    ASSUME Core, NEW c \in Client, Moves(c), toServer' = toServer, gone' = gone,
           pc'[c] = pc[c] \/ \A p \in Range(toServer) : p.from # c
    PROVE  Queue'
<1>1. windows' = windows /\ clients' = clients /\ wids' = wids
  BY MovesBooks
<1>2. \A p \in Range(toServer) : PacketOk(p)'
  <2> SUFFICES ASSUME NEW p \in Range(toServer) PROVE PacketOk(p)'
    OBVIOUS
  <2>1. CASE p.from # c
    BY <2>1, OtherPackets
  <2>2. CASE p.from = c
    <3>1. PacketOk(p) /\ pc'[c] = pc[c]
      BY <2>2 DEF Core, Queue
    <3> QED BY <1>1, <2>2, <3>1 DEF PacketOk
  <2> QED BY <2>1, <2>2
<1> QED BY <1>2 DEF Core, Queue

\* Client c goes on holding window w, unless it waits for an answer about it.
LEMMA HoldsMoved ==
    ASSUME Core, NEW c \in Client, Moves(c), NEW w \in DOMAIN held[c],
           held'[c][w] = held[c][w], <<c, held[c][w].buf>> \in maps',
           ~Sent("CLOSE", w)', Sent("DONE", w)' <=> Sent("DONE", w), Draws(c, w)' <=> Draws(c, w),
           \/ ~(pc[c].at = "wait" /\ pc[c].type = "BUFID" /\ pc[c].wid = w)
           \/ pc'[c] = pc[c] /\ (Sent("ACCEPT", w)' <=> Sent("ACCEPT", w))
    PROVE  Holds(c, w)'
<1>1. Holds(c, w) /\ windows' = windows
  BY MovesBooks DEF Core, ClientOk
<1>2. Resize(c, w)
  BY <1>1 DEF Holds
<1>3. Resize(c, w)'
  BY <1>1, <1>2 DEF Resize
<1> QED BY <1>1, <1>3 DEF Holds

\* What is said of the windows that client c holds, after it has written m.
LEMMA SentMoved ==
    ASSUME Core, NEW c \in Client, NEW m, Writes(c, m), NEW w \in DOMAIN held[c],
           NEW type, m.type = type => m.wid # w
    PROVE  Sent(type, w)' <=> Sent(type, w)
<1>1. Range(toServer') = Range(toServer) \cup {m}
  BY AppendElems DEF Core, Queue, Writes
<1> QED BY <1>1 DEF Sent

\* Client c asks for something, and waits for the answer if there is one.
LEMMA RequestWrites ==
    ASSUME Core, NEW c \in Client, Moves(c), NEW m, Writes(c, m),
           pc[c].at \in {"off", "run"}, gone' = gone, Typed',
           held' = held, maps' = maps, missed' = missed,
           pipe' = pipe \/ \A x \in Range(pipe'[c]) : x.type = "OFFER",
           \A x \in Range(aside'[c]) : x.type = "OFFER",
           \/ /\ pc'[c].at = "wait" /\ m.type \in Requests /\ m.type = Request(pc'[c].type)
              /\ m.type = "ACCEPT" => m.wid = pc'[c].wid
              /\ m.type = "HELLO" => pc'[c].type = "WELCOME"
              /\ pc'[c].type = "BUFID" => m.type = "ACCEPT"
           \/ pc'[c] = pc[c] /\ pc[c].at = "run" /\ m.type \in {"FLIP", "FOCUS", "REQUEST", "STACK"},
           m.type = "HELLO" <=> pc[c].at = "off"
    PROVE  Core'
<1>1. Session(c) /\ Answered(c) /\ pipe[c] \in Seq(Answer)
  BY DEF Core, ClientOk, Typed
<1>2. Queue'
  <2>1. m.type # "GONE" /\ m.type # "DONE" /\ (m.type \in Requests => pc'[c].at = "wait")
    BY DEF Requests
  <2>2. pc'[c].at # "off" /\ pc[c].at \notin {"wait", "gone"}
    OBVIOUS
  <2> QED BY <2>1, <2>2, QueueWrite DEF Requests
<1>3. windows' = windows /\ clients' = clients
  BY MovesBooks
<1>4. \A x \in Range(pipe[c]) : x.type = "OFFER"
  BY <1>1 DEF Session, Fits
<1>5. \A x \in Range(pipe'[c]) : x.type = "OFFER"
  BY <1>4
<1>6. Session(c)'
  <2>1. OneReply(pipe'[c])
    <3>1. pipe'[c] \in Seq(Answer)
      BY DEF Typed
    <3>2. \A i \in 1..Len(pipe'[c]) : pipe'[c][i].type = "OFFER"
      BY <1>5, <3>1 DEF Range
    <3> QED BY <3>2 DEF OneReply
  <2>2. c \notin gone /\ pc'[c].at \in {"wait", "run"}
    BY <1>1 DEF Session
  <2>3. pc[c].at = "run" => c \in DOMAIN clients
    BY <1>1 DEF Session
  <2>4. pc'[c].at = "wait" /\ pc'[c].type = "BUFID" => pc'[c].wid \in DOMAIN held[c]
    BY <2>2 DEF Writes, AboutWindow
  <2>5. pc'[c].at = "wait" /\ pc'[c].type # "WELCOME" => c \in DOMAIN clients
    BY <2>3
  <2> QED BY <1>3, <1>5, <2>1, <2>2, <2>3, <2>4, <2>5 DEF Session
<1>7. Answered(c)'
  <2>1. m \in Range(toServer') /\ m.from = c
    BY AppendElems DEF Core, Queue, Writes
  <2> QED BY <2>1 DEF Answered
<1>8. ASSUME NEW w \in DOMAIN held[c] PROVE Holds(c, w)'
  <2>1. Holds(c, w)
    BY DEF Core, ClientOk
  <2>2. m.type \notin {"DONE", "CLOSE"}
    BY DEF Requests
  <2>3. /\ Sent("CLOSE", w)' <=> Sent("CLOSE", w)
        /\ Sent("DONE", w)' <=> Sent("DONE", w)
    BY <2>2, SentMoved
  <2>4. ~Draws(c, w) /\ ~Draws(c, w)'
    BY DEF Draws
  <2> QED BY <2>1, <2>3, <2>4, HoldsMoved DEF Holds
<1>9. ClientOk(c)'
  BY <1>6, <1>7, <1>8 DEF ClientOk
<1> QED BY <1>2, <1>9, Moved

----------------------------------------------------------------------------
(* The steps of the clients *)

LEMMA ConnectStep ==
    ASSUME Core, NEW c \in Client, Connect(c)
    PROVE  Core'
<1>1. PICK m : m = [from |-> c, type |-> "HELLO"]
  OBVIOUS
<1>2. /\ pc[c].at = "off" /\ toServer' = Append(toServer, m) /\ UNCHANGED <<pipe, gone, missed>>
      /\ pc' = [pc EXCEPT ![c] = WaitFor("WELCOME", None)]
      /\ UNCHANGED <<held, aside, yg, maps>>
  BY <1>1 DEF Connect, At, Write, Goto
<1>3. m \in Packet /\ m.from = c /\ m.type = "HELLO"
  BY <1>1 DEF Packet
<1>4. Writes(c, m)
  BY <1>2, <1>3 DEF Writes, AboutWindow
<1>5. pc \in [Client -> Where] /\ WaitFor("WELCOME", None) \in Where
  BY DEF Core, Typed, Where, WaitFor
<1>6. pc' \in [Client -> Where] /\ pc'[c] = WaitFor("WELCOME", None) /\ \A d \in Client : d # c => pc'[d] = pc[d]
  BY <1>2, <1>5
<1>7. pc'[c].at = "wait" /\ pc'[c].type = "WELCOME"
  BY <1>6 DEF WaitFor
<1>8. Moves(c)
  BY <1>2, <1>4, <1>6 DEF Moves
<1>9. Typed'
  BY <1>2, <1>6 DEF Core, Typed
<1>10. \A x \in Range(aside'[c]) : x.type = "OFFER"
  BY <1>2 DEF Core, ClientOk, Session
<1> QED BY <1>2, <1>3, <1>4, <1>7, <1>8, <1>9, <1>10, RequestWrites DEF Requests, Request

LEMMA CreateStep ==
    ASSUME Core, NEW c \in Client, Create(c)
    PROVE  Core'
<1>0. PICK steal \in BOOLEAN : Write(c, [from |-> c, type |-> "NEW", steal |-> steal])
  BY DEF Create
<1>1. PICK m : m = [from |-> c, type |-> "NEW", steal |-> steal]
  OBVIOUS
<1>2. /\ pc[c].at = "run" /\ toServer' = Append(toServer, m) /\ UNCHANGED <<pipe, gone, missed>>
      /\ pc' = [pc EXCEPT ![c] = WaitFor("INIT", None)]
      /\ UNCHANGED <<held, aside, yg, maps>>
  BY <1>0, <1>1 DEF Create, At, Write, Goto
<1>3. m \in Packet /\ m.from = c /\ m.type = "NEW"
  BY <1>1 DEF Packet
<1>4. Writes(c, m)
  BY <1>2, <1>3 DEF Writes, AboutWindow
<1>5. pc \in [Client -> Where] /\ WaitFor("INIT", None) \in Where
  BY DEF Core, Typed, Where, WaitFor
<1>6. pc' \in [Client -> Where] /\ pc'[c] = WaitFor("INIT", None) /\ \A d \in Client : d # c => pc'[d] = pc[d]
  BY <1>2, <1>5
<1>7. pc'[c].at = "wait" /\ pc'[c].type = "INIT"
  BY <1>6 DEF WaitFor
<1>8. Moves(c)
  BY <1>2, <1>4, <1>6 DEF Moves
<1>9. Typed'
  BY <1>2, <1>6 DEF Core, Typed
<1>10. \A x \in Range(aside'[c]) : x.type = "OFFER"
  BY <1>2 DEF Core, ClientOk, Session
<1> QED BY <1>2, <1>3, <1>4, <1>7, <1>8, <1>9, <1>10, RequestWrites DEF Requests, Request

\* Calls that do not wait.
LEMMA AskStep ==
    ASSUME Core, NEW c \in Client, NEW w \in DOMAIN held[c], NEW m \in Packet,
           m.from = c, m.type \in {"FLIP", "FOCUS", "REQUEST", "STACK"}, m.wid = w,
           pc[c].at = "run", Write(c, m), UNCHANGED <<local, yg, maps>>
    PROVE  Core'
<1>2. /\ toServer' = Append(toServer, m) /\ UNCHANGED <<pipe, gone, missed>>
      /\ UNCHANGED <<pc, held, aside, yg, maps>>
  BY DEF Write, local
<1>4. Writes(c, m)
  BY <1>2 DEF Writes
<1>8. Moves(c)
  BY <1>2, <1>4 DEF Moves
<1>9. Typed'
  BY <1>2 DEF Core, Typed
<1>10. \A x \in Range(aside'[c]) : x.type = "OFFER"
  BY <1>2 DEF Core, ClientOk, Session
<1> QED BY <1>2, <1>4, <1>8, <1>9, <1>10, RequestWrites

LEMMA WindowIsNat ==
    ASSUME Core, NEW c \in Client, NEW w \in DOMAIN held[c]
    PROVE  w \in Nat
<1>1. w \in DOMAIN windows
  BY DEF Core, ClientOk, Holds
<1>2. DOMAIN windows \subseteq 1..wids /\ wids \in Nat
  BY DEF Core, Desk
<1> QED BY <1>1, <1>2

LEMMA AsksStep ==
    ASSUME Core, NEW c \in Client, NEW w \in DOMAIN held[c],
           \/ \E type \in {"FLIP", "FOCUS", "REQUEST"} : Ask(c, w, type)
           \/ \E z \in ZOrders : SetStack(c, w, z)
    PROVE  Core'
<1>0. w \in Nat
  BY WindowIsNat
<1>1. CASE \E type \in {"FLIP", "FOCUS", "REQUEST"} : Ask(c, w, type)
  <2>1. PICK type \in {"FLIP", "FOCUS", "REQUEST"} : Ask(c, w, type)
    BY <1>1
  <2>2. PICK m : m = Msg(c, type, w)
    OBVIOUS
  <2>3. m \in Packet /\ m.from = c /\ m.type = type /\ m.wid = w
    BY <1>0, <2>2 DEF Msg, Packet, AboutWindow
  <2>4. pc[c].at = "run" /\ Write(c, m) /\ UNCHANGED <<local, yg, maps>>
    BY <2>1, <2>2 DEF Ask, At
  <2> QED BY <2>3, <2>4, AskStep
<1>2. CASE \E z \in ZOrders : SetStack(c, w, z)
  <2>1. PICK z \in ZOrders : SetStack(c, w, z)
    BY <1>2
  <2>2. PICK m : m = [from |-> c, type |-> "STACK", wid |-> w, z |-> z]
    OBVIOUS
  <2>3. m \in Packet /\ m.from = c /\ m.type = "STACK" /\ m.wid = w
    <3>1. z \in Lists \cup Slots
      BY YutaniAssumption
    <3> QED BY <1>0, <2>2, <3>1 DEF Packet
  <2>4. pc[c].at = "run" /\ Write(c, m) /\ UNCHANGED <<local, yg, maps>>
    BY <2>1, <2>2 DEF SetStack, At
  <2> QED BY <2>3, <2>4, AskStep
<1> QED BY <1>1, <1>2

\* yutani_poll takes an offer from what was put aside, or from the pipe.
LEMMA PolledIs ==
    ASSUME Core, NEW c \in Client, pc[c].at = "run", TakePolled(c)
    PROVE  /\ aside' \in [Client -> Seq(Answer)] /\ pipe' \in [Client -> Seq(Answer)]
           /\ \A d \in Client : d # c => aside'[d] = aside[d] /\ pipe'[d] = pipe[d]
           /\ \A x \in Range(aside'[c]) : x.type = "OFFER"
           /\ \A x \in Range(pipe'[c]) : x.type = "OFFER"
           /\ Polled(c) \in Answer
<1>1. /\ aside \in [Client -> Seq(Answer)] /\ pipe \in [Client -> Seq(Answer)]
      /\ aside[c] \in Seq(Answer) /\ pipe[c] \in Seq(Answer) /\ Session(c)
  BY DEF Core, Typed, ClientOk
<1>2. /\ \A x \in Range(aside[c]) : x.type = "OFFER"
      /\ \A x \in Range(pipe[c]) : x.type = "OFFER"
  BY <1>1 DEF Session, Fits
<1>3. CASE aside[c] # <<>>
  <2>1. aside' = [aside EXCEPT ![c] = Tail(aside[c])] /\ pipe' = [pipe EXCEPT ![c] = pipe[c]]
    BY <1>3 DEF TakePolled
  <2>2. /\ Tail(aside[c]) \in Seq(Answer) /\ Head(aside[c]) \in Answer
        /\ Range(Tail(aside[c])) \subseteq Range(aside[c])
    BY <1>1, <1>3, HeadTail
  <2>3. pipe' = pipe /\ aside'[c] = Tail(aside[c])
    BY <1>1, <2>1
  <2>4. Polled(c) \in Answer
    BY <1>3, <2>2 DEF Polled
  <2> QED BY <1>1, <1>2, <2>1, <2>2, <2>3, <2>4
<1>4. CASE aside[c] = <<>>
  <2>1. pipe[c] # <<>> /\ aside' = [aside EXCEPT ![c] = aside[c]] /\ pipe' = [pipe EXCEPT ![c] = Tail(pipe[c])]
    BY <1>4 DEF TakePolled
  <2>2. /\ Tail(pipe[c]) \in Seq(Answer) /\ Head(pipe[c]) \in Answer
        /\ Range(Tail(pipe[c])) \subseteq Range(pipe[c])
    BY <1>1, <2>1, HeadTail
  <2>3. aside' = aside /\ pipe'[c] = Tail(pipe[c])
    BY <1>1, <2>1
  <2>4. Polled(c) \in Answer
    BY <1>4, <2>2 DEF Polled
  <2> QED BY <1>1, <1>2, <2>1, <2>2, <2>3, <2>4
<1> QED BY <1>3, <1>4

LEMMA ResizeAcceptStep ==
    ASSUME Core, NEW c \in Client, ResizeAccept(c)
    PROVE  Core'
<1>1. PICK w : /\ w = Polled(c).wid /\ w \in DOMAIN held[c]
               /\ toServer' = Append(toServer, Msg(c, "ACCEPT", w))
               /\ pc' = [pc EXCEPT ![c] = WaitFor("BUFID", w)]
  BY DEF ResizeAccept, Goto
<1>2. pc[c].at = "run" /\ TakePolled(c) /\ UNCHANGED <<held, gone, missed, yg, maps>>
  BY DEF ResizeAccept, At
<1>3. w \in Nat
  BY <1>1, WindowIsNat
<1>4. PICK m : m = Msg(c, "ACCEPT", w) /\ toServer' = Append(toServer, m)
  BY <1>1
<1>5. m \in Packet /\ m.from = c /\ m.type = "ACCEPT" /\ m.wid = w
  BY <1>3, <1>4 DEF Msg, Packet, AboutWindow
<1>6. Writes(c, m)
  BY <1>1, <1>4, <1>5 DEF Writes
<1>7. pc \in [Client -> Where] /\ WaitFor("BUFID", w) \in Where
  BY <1>3 DEF Core, Typed, Where, WaitFor
<1>8. pc' \in [Client -> Where] /\ pc'[c] = WaitFor("BUFID", w) /\ \A d \in Client : d # c => pc'[d] = pc[d]
  BY <1>1, <1>7
<1>9. pc'[c].at = "wait" /\ pc'[c].type = "BUFID" /\ pc'[c].wid = w
  BY <1>8 DEF WaitFor
<1>10. /\ aside' \in [Client -> Seq(Answer)] /\ pipe' \in [Client -> Seq(Answer)]
       /\ \A d \in Client : d # c => aside'[d] = aside[d] /\ pipe'[d] = pipe[d]
       /\ \A x \in Range(aside'[c]) : x.type = "OFFER"
       /\ \A x \in Range(pipe'[c]) : x.type = "OFFER"
  BY <1>2, PolledIs
<1>11. Moves(c)
  BY <1>2, <1>6, <1>8, <1>10 DEF Moves
<1>12. Typed'
  BY <1>2, <1>8, <1>10 DEF Core, Typed
<1> QED BY <1>2, <1>5, <1>6, <1>9, <1>10, <1>11, <1>12, RequestWrites DEF Requests, Request

\* Only offers: so no more than one reply.
LEMMA OffersOneReply ==
    ASSUME NEW p \in Seq(Answer), \A x \in Range(p) : x.type = "OFFER"
    PROVE  OneReply(p)
<1>1. \A i \in 1..Len(p) : p[i].type = "OFFER"
  BY DEF Range
<1> QED BY <1>1 DEF OneReply

LEMMA PollStep ==
    ASSUME Core, NEW c \in Client, Poll(c)
    PROVE  Core'
<1>1. pc[c].at = "run" /\ TakePolled(c) /\ UNCHANGED <<pc, held, toServer, gone, missed, yg, maps>>
  BY DEF Poll, At
<1>2. /\ aside' \in [Client -> Seq(Answer)] /\ pipe' \in [Client -> Seq(Answer)]
      /\ \A d \in Client : d # c => aside'[d] = aside[d] /\ pipe'[d] = pipe[d]
      /\ \A x \in Range(aside'[c]) : x.type = "OFFER"
      /\ \A x \in Range(pipe'[c]) : x.type = "OFFER"
  BY <1>1, PolledIs
<1>3. Moves(c)
  BY <1>1, <1>2 DEF Moves
<1>4. Typed'
  BY <1>1, <1>2 DEF Core, Typed
<1>5. Queue'
  BY <1>1, <1>3, QueueStays
<1>6. windows' = windows /\ clients' = clients /\ Session(c)
  BY <1>3, MovesBooks DEF Core, ClientOk
<1>7. Session(c)'
  <2>1. OneReply(pipe'[c])
    BY <1>2, OffersOneReply
  <2> QED BY <1>1, <1>2, <1>6, <2>1 DEF Session
<1>8. Answered(c)'
  BY <1>1 DEF Answered
<1>9. ASSUME NEW w \in DOMAIN held[c] PROVE Holds(c, w)'
  <2>1. Holds(c, w)
    BY DEF Core, ClientOk
  <2>2. \A type : Sent(type, w)' <=> Sent(type, w)
    BY <1>1 DEF Sent
  <2>3. Draws(c, w)' <=> Draws(c, w)
    BY <1>1 DEF Draws
  <2> QED BY <1>1, <1>3, <2>1, <2>2, <2>3, HoldsMoved DEF Holds
<1>10. ClientOk(c)'
  BY <1>1, <1>7, <1>8, <1>9 DEF ClientOk
<1> QED BY <1>1, <1>3, <1>4, <1>5, <1>10, Moved

LEMMA ExitStep ==
    ASSUME Core, NEW c \in Client, Exit(c)
    PROVE  Core'
<1>1. PICK m : m = [from |-> c, type |-> "GONE"]
  OBVIOUS
<1>2. /\ pc[c].at \notin {"off", "gone"}
      /\ toServer' = Append(toServer, m)
      /\ pipe' = [pipe EXCEPT ![c] = <<>>] /\ aside' = [aside EXCEPT ![c] = <<>>]
      /\ held' = [held EXCEPT ![c] = <<>>]
      /\ gone' = gone \cup {c} /\ missed' = missed \ {c}
      /\ pc' = [pc EXCEPT ![c] = [at |-> "gone"]]
      /\ maps' = {x \in maps : x[1] # c} /\ UNCHANGED yg
  BY <1>1 DEF Exit, Goto
<1>3. m \in Packet /\ m.from = c /\ m.type = "GONE"
  BY <1>1 DEF Packet
<1>4. Writes(c, m)
  BY <1>2, <1>3 DEF Writes, AboutWindow
<1>5. /\ pc \in [Client -> Where] /\ gone \subseteq Client
      /\ pipe \in [Client -> Seq(Answer)] /\ aside \in [Client -> Seq(Answer)]
      /\ held = [d \in Client |-> held[d]]
      /\ \A d \in Client : held[d] \in [DOMAIN held[d] -> [buf : Nat, old : Nat]]
      /\ Session(c) /\ Queue
  BY DEF Core, Typed, ClientOk
<1>6. /\ pc' \in [Client -> Where] /\ pc'[c].at = "gone" /\ \A d \in Client : d # c => pc'[d] = pc[d]
  <2>1. [at |-> "gone"] \in Where
    BY DEF Where
  <2> QED BY <1>2, <1>5, <2>1
<1>7. /\ pipe' \in [Client -> Seq(Answer)] /\ pipe'[c] = <<>>
      /\ aside' \in [Client -> Seq(Answer)] /\ aside'[c] = <<>>
      /\ \A d \in Client : d # c => pipe'[d] = pipe[d] /\ aside'[d] = aside[d]
  <2>1. <<>> \in Seq(Answer)
    OBVIOUS
  <2> QED BY <1>2, <1>5, <2>1
<1>8. /\ held' = [d \in Client |-> held'[d]] /\ held'[c] = <<>>
      /\ \A d \in Client : d # c => held'[d] = held[d]
  BY <1>2, <1>5
<1>9. DOMAIN held'[c] = {} /\ held'[c] \in [DOMAIN held'[c] -> [buf : Nat, old : Nat]]
  <2>1. PICK e : e = held'[c] /\ e = <<>>
    BY <1>8
  <2>2. DOMAIN e = {} /\ e \in [DOMAIN e -> [buf : Nat, old : Nat]]
    BY <2>1
  <2> QED BY <2>1, <2>2
<1>10. Typed'
  <2>1. \A d \in Client : held'[d] \in [DOMAIN held'[d] -> [buf : Nat, old : Nat]]
    BY <1>5, <1>8, <1>9
  <2>2. gone' \subseteq Client
    BY <1>2, <1>5
  <2> QED BY <1>6, <1>7, <1>8, <2>1, <2>2 DEF Typed
<1>11. Moves(c)
  <2>1. \A d, b : d # c /\ <<d, b>> \in maps => <<d, b>> \in maps'
    BY <1>2
  <2> QED BY <1>2, <1>4, <1>6, <1>7, <1>8, <2>1 DEF Moves
<1>12. c \notin gone
  BY <1>2, <1>5 DEF Session
<1>13. toServer' \in Seq(Packet) /\ Range(toServer') = Range(toServer) \cup {m}
  BY <1>2, <1>3, <1>5, AppendElems DEF Queue
<1>14. windows' = windows /\ clients' = clients /\ wids' = wids
  BY <1>11, MovesBooks
<1>15. Queue'
  <2>1. \A p \in Range(toServer) : p.from = m.from =>
              /\ p.type # "GONE"
              /\ p.type \in Requests => m.type = "GONE"
              /\ ~(p.type = "DONE" /\ m.type = "DONE" /\ p.wid = m.wid)
    BY <1>3, <1>5, <1>12 DEF Queue, PacketOk
  <2>2. InOrder(toServer')
    BY <1>2, <1>3, <1>5, <2>1, InOrderAppend DEF Queue
  <2>3. \A p \in Range(toServer) : PacketOk(p)'
    <3> SUFFICES ASSUME NEW p \in Range(toServer) PROVE PacketOk(p)'
      OBVIOUS
    <3>1. CASE p.from # c
      BY <1>11, <3>1, OtherPackets
    <3>2. CASE p.from = c
      <4>1. PacketOk(p)
        BY <1>5 DEF Queue
      <4>2. c \in gone' /\ m \in Range(toServer')
        BY <1>2, <1>13
      <4> QED BY <1>3, <1>6, <1>14, <3>2, <4>1, <4>2 DEF PacketOk
    <3> QED BY <3>1, <3>2
  <2>4. PacketOk(m)'
    <3>1. c \in gone' /\ m \in Range(toServer')
      BY <1>2, <1>13
    <3> QED BY <1>3, <1>6, <3>1 DEF PacketOk, AboutWindow, Requests
  <2> QED BY <1>13, <2>2, <2>3, <2>4 DEF Queue
<1>16. Orphans'
  <2> SUFFICES ASSUME NEW w \in DOMAIN windows
               PROVE  /\ pc'[windows[w].owner].at # "off"
                      /\ windows[w].owner \in gone' =>
                          \/ windows[w].closing
                          \/ \E g \in Range(toServer') : g.type = "GONE" /\ g.from = windows[w].owner
    BY <1>14 DEF Orphans
  <2>1. windows[w].owner \in Client
    BY DEF Core, Desk, Window
  <2>2. pc'[windows[w].owner].at # "off"
    BY <1>6, <2>1 DEF Core, Orphans
  <2> QED BY <1>2, <1>3, <1>13, <2>2 DEF Core, Orphans
<1>17. ClientOk(c)'
  <2>1. Session(c)'
    <3>1. c \in gone' /\ OneReply(pipe'[c]) /\ Range(pipe'[c]) = {} /\ Range(aside'[c]) = {}
      BY <1>2, <1>7 DEF OneReply, Range
    <3> QED BY <1>6, <1>7, <1>9, <3>1 DEF Session
  <2>2. Answered(c)'
    BY <1>6 DEF Answered
  <2> QED BY <1>9, <2>1, <2>2 DEF ClientOk
<1> QED BY <1>10, <1>11, <1>15, <1>16, <1>17, MovesBooks, OthersStay DEF Core

\* A client draws into a different buffer for every window.
LEMMA OwnBuffers ==
    ASSUME Core, NEW c \in Client, NEW v \in DOMAIN held[c], NEW w \in DOMAIN held[c], v # w
    PROVE  held[c][v].buf # held[c][w].buf /\ held[c][v].buf # windows[w].buf
<1>1. Holds(c, v) /\ Holds(c, w)
  BY DEF Core, ClientOk
<1>2. /\ v \in DOMAIN windows /\ w \in DOMAIN windows
      /\ held[c][v].buf = windows[v].buf \/ (held[c][v].buf = windows[v].new /\ windows[v].new # 0)
      /\ held[c][w].buf = windows[w].buf \/ (held[c][w].buf = windows[w].new /\ windows[w].new # 0)
  BY <1>1 DEF Holds, Resize
<1> QED BY <1>2 DEF Core, Buffers

LEMMA CloseWindowStep ==
    ASSUME Core, NEW c \in Client, NEW w \in DOMAIN held[c], CloseWindow(c, w)
    PROVE  Core'
<1>1. PICK m : m = Msg(c, "CLOSE", w)
  OBVIOUS
<1>2. /\ pc[c].at = "run" /\ toServer' = Append(toServer, m) /\ UNCHANGED <<pipe, gone, missed>>
      /\ held' = [held EXCEPT ![c] = Del(held[c], w)]
      /\ maps' = maps \ {<<c, held[c][w].buf>>}
      /\ UNCHANGED <<pc, aside, yg>>
  BY <1>1 DEF CloseWindow, At, Write
<1>3. m \in Packet /\ m.from = c /\ m.type = "CLOSE" /\ m.wid = w
  <2>1. w \in Nat
    BY WindowIsNat
  <2> QED BY <1>1, <2>1 DEF Msg, Packet, AboutWindow
<1>4. Writes(c, m)
  BY <1>2, <1>3 DEF Writes
<1>5. /\ held = [d \in Client |-> held[d]]
      /\ \A d \in Client : held[d] \in [DOMAIN held[d] -> [buf : Nat, old : Nat]]
      /\ Session(c)
  BY DEF Core, Typed, ClientOk
<1>6. /\ held' = [d \in Client |-> held'[d]] /\ held'[c] = Del(held[c], w)
      /\ \A d \in Client : d # c => held'[d] = held[d]
  BY <1>2, <1>5
<1>7. /\ DOMAIN held'[c] = DOMAIN held[c] \ {w}
      /\ \A v \in DOMAIN held[c] : v # w => held'[c][v] = held[c][v]
      /\ held'[c] \in [DOMAIN held'[c] -> [buf : Nat, old : Nat]]
  <2>1. PICK f, g : f = held[c] /\ g = held'[c] /\ g = Del(f, w) /\ f \in [DOMAIN f -> [buf : Nat, old : Nat]]
    BY <1>5, <1>6
  <2>2. /\ DOMAIN g = DOMAIN f \ {w} /\ \A v \in DOMAIN f : v # w => g[v] = f[v]
        /\ g \in [DOMAIN g -> [buf : Nat, old : Nat]]
    BY <2>1 DEF Del
  <2> QED BY <2>1, <2>2
<1>8. Typed'
  <2>1. \A d \in Client : held'[d] \in [DOMAIN held'[d] -> [buf : Nat, old : Nat]]
    BY <1>5, <1>6, <1>7
  <2> QED BY <1>2, <1>6, <2>1 DEF Core, Typed
<1>9. Moves(c)
  <2>1. \A d, b : d # c /\ <<d, b>> \in maps => <<d, b>> \in maps'
    BY <1>2
  <2> QED BY <1>2, <1>4, <1>6, <2>1 DEF Moves
<1>10. Queue'
  BY <1>2, <1>3, <1>4, <1>9, QueueWrite DEF Requests
<1>11. windows' = windows /\ clients' = clients
  BY <1>9, MovesBooks
<1>12. Session(c)'
  <2>1. \A x \in Range(pipe[c]) : x.type = "OFFER"
    BY <1>2, <1>5 DEF Session, Fits
  <2> QED BY <1>2, <1>5, <1>11, <2>1 DEF Session
<1>13. Answered(c)'
  BY <1>2 DEF Answered
<1>14. ASSUME NEW v \in DOMAIN held'[c] PROVE Holds(c, v)'
  <2>1. v \in DOMAIN held[c] /\ v # w /\ held'[c][v] = held[c][v]
    BY <1>7
  <2>2. Holds(c, v)
    BY <2>1 DEF Core, ClientOk
  <2>3. \A type : Sent(type, v)' <=> Sent(type, v)
    BY <1>3, <1>4, <2>1, SentMoved
  <2>4. ~Draws(c, v) /\ ~Draws(c, v)'
    BY <1>2 DEF Draws
  <2>5. <<c, held[c][v].buf>> \in maps'
    BY <1>2, <2>1, <2>2, OwnBuffers DEF Holds
  <2> QED BY <1>2, <1>9, <2>1, <2>2, <2>3, <2>4, <2>5, HoldsMoved DEF Holds
<1>15. ClientOk(c)'
  BY <1>12, <1>13, <1>14 DEF ClientOk
<1> QED BY <1>2, <1>8, <1>9, <1>10, <1>15, Moved

LEMMA ResizeDoneStep ==
    ASSUME Core, NEW c \in Client, ResizeDone(c)
    PROVE  Core'
<1>0. PICK w : w = pc[c].wid
  OBVIOUS
<1>1. PICK m : m = Msg(c, "DONE", w)
  OBVIOUS
<1>2. /\ pc[c].at = "drawing" /\ toServer' = Append(toServer, m) /\ UNCHANGED <<pipe, gone, missed>>
      /\ maps' = maps \ {<<c, held[c][w].old>>}
      /\ pc' = [pc EXCEPT ![c] = Running]
      /\ UNCHANGED <<held, aside, yg>>
  BY <1>0, <1>1 DEF ResizeDone, At, Write, Goto
<1>3. /\ Session(c) /\ w \in DOMAIN held[c] /\ Draws(c, w)
  BY <1>0, <1>2 DEF Core, ClientOk, Session, Draws
<1>4. m \in Packet /\ m.from = c /\ m.type = "DONE" /\ m.wid = w
  <2>1. w \in Nat
    BY <1>3, WindowIsNat
  <2> QED BY <1>1, <2>1 DEF Msg, Packet, AboutWindow
<1>5. Writes(c, m)
  BY <1>2, <1>3, <1>4 DEF Writes
<1>6. /\ pc' \in [Client -> Where] /\ pc'[c].at = "run" /\ \A d \in Client : d # c => pc'[d] = pc[d]
  <2>1. Running \in Where /\ pc \in [Client -> Where]
    BY DEF Core, Typed, Where, Running
  <2>2. pc' \in [Client -> Where] /\ pc'[c] = Running /\ \A d \in Client : d # c => pc'[d] = pc[d]
    BY <1>2, <2>1
  <2> QED BY <2>2 DEF Running
<1>7. Typed'
  BY <1>2, <1>6 DEF Core, Typed
<1>8. Moves(c)
  <2>1. \A d, b : d # c /\ <<d, b>> \in maps => <<d, b>> \in maps'
    BY <1>2
  <2> QED BY <1>2, <1>5, <1>6, <2>1 DEF Moves
<1>9. /\ Holds(c, w) /\ Resize(c, w) /\ held[c][w].old = windows[w].buf /\ ~Sent("DONE", w)
      /\ held[c][w].buf = windows[w].new /\ windows[w].new # 0
  BY <1>3 DEF Core, ClientOk, Holds, Resize
<1>10. Queue'
  BY <1>2, <1>4, <1>5, <1>6, <1>8, <1>9, QueueWrite DEF Requests
<1>11. windows' = windows /\ clients' = clients
  BY <1>8, MovesBooks
<1>12. Session(c)'
  <2>1. \A x \in Range(pipe[c]) : x.type = "OFFER"
    BY <1>2, <1>3 DEF Session, Fits
  <2> QED BY <1>2, <1>3, <1>6, <1>11, <2>1 DEF Session
<1>13. Answered(c)'
  BY <1>6 DEF Answered
<1>14. Holds(c, w)'
  <2>1. Sent("DONE", w)'
    <3>1. m \in Range(toServer')
      BY <1>2, <1>4, AppendElems DEF Core, Queue
    <3> QED BY <1>4, <3>1 DEF Sent
  <2>2. ~Draws(c, w)'
    BY <1>6 DEF Draws
  <2>3. Sent("CLOSE", w)' <=> Sent("CLOSE", w)
    BY <1>3, <1>4, <1>5, SentMoved
  <2>4. <<c, held[c][w].buf>> \in maps'
    <3>1. w \in DOMAIN windows
      BY <1>9 DEF Holds
    <3>2. windows[w].new # windows[w].buf
      BY <3>1 DEF Core, Buffers
    <3> QED BY <1>2, <1>9, <3>2 DEF Holds
  <2>5. Resize(c, w)'
    BY <1>2, <1>9, <1>11, <2>1, <2>2 DEF Resize
  <2> QED BY <1>2, <1>9, <1>11, <2>3, <2>4, <2>5 DEF Holds
<1>15. ASSUME NEW v \in DOMAIN held[c], v # w PROVE Holds(c, v)'
  <2>2. Holds(c, v)
    BY DEF Core, ClientOk
  <2>3. \A type : Sent(type, v)' <=> Sent(type, v)
    BY <1>4, <1>5, <1>15, SentMoved
  <2>4. ~Draws(c, v) /\ ~Draws(c, v)'
    BY <1>0, <1>6, <1>15 DEF Draws
  <2>5. <<c, held[c][v].buf>> \in maps'
    BY <1>2, <1>3, <1>9, <1>15, <2>2, OwnBuffers DEF Holds
  <2> QED BY <1>2, <1>8, <2>2, <2>3, <2>4, <2>5, HoldsMoved DEF Holds
<1>16. ClientOk(c)'
  BY <1>2, <1>12, <1>13, <1>14, <1>15 DEF ClientOk
<1> QED BY <1>2, <1>6, <1>7, <1>8, <1>10, <1>16, Moved

\* Client c has got the reply that it waited for: it runs or draws, and holds the windows
\* it held, with m.wid added or its buffer changed.
LEMMA ReplyStep ==
    ASSUME Core, NEW c \in Client, pc[c].at = "wait", pipe[c] # <<>>,
           NEW m, m = Head(pipe[c]), m.type = pc[c].type,
           pipe' = [pipe EXCEPT ![c] = Tail(pipe[c])],
           UNCHANGED <<aside, toServer, gone, missed, yg>>, Reply(c, m)
    PROVE  Core'
<1>1. /\ pc \in [Client -> Where] /\ pc[c] \in Where /\ Session(c)
      /\ pipe \in [Client -> Seq(Answer)] /\ pipe[c] \in Seq(Answer)
      /\ held = [d \in Client |-> held[d]]
      /\ \A d \in Client : held[d] \in [DOMAIN held[d] -> [buf : Nat, old : Nat]]
  BY DEF Core, Typed, ClientOk
<1>2. /\ m \in Answer /\ m \in Range(pipe[c]) /\ Tail(pipe[c]) \in Seq(Answer)
      /\ Range(Tail(pipe[c])) \subseteq Range(pipe[c])
  BY <1>1, HeadTail
<1>3. m.type \in {"WELCOME", "INIT", "BUFID"} /\ m.type # "OFFER"
  BY <1>1 DEF Where
<1>4. Fits(c, m) /\ \A p \in Range(toServer) : p.from # c
  BY <1>1, <1>2, <1>3 DEF Session, Fits
<1>5. OneReply(Tail(pipe[c])) /\ \A x \in Range(Tail(pipe[c])) : x.type = "OFFER"
  BY <1>1, <1>3, OneReplyTail DEF Session
<1>6. /\ pipe' \in [Client -> Seq(Answer)] /\ pipe'[c] = Tail(pipe[c])
      /\ \A d \in Client : d # c => pipe'[d] = pipe[d]
  BY <1>1, <1>2
<1>7. \A w \in DOMAIN windows : windows[w].owner = c => \A type \in AboutWindow : ~Sent(type, w)
  BY <1>4 DEF Sent, Core, Queue, PacketOk
<1>8. \A type, w : Sent(type, w)' <=> Sent(type, w)
  BY DEF Sent
<1>9. Running \in Where /\ Running.at = "run"
  BY DEF Where, Running
\* What is left to show: the windows that c holds.
<1>10. ASSUME Moves(c), pc' \in [Client -> Where],
              \/ pc'[c].at = "run"
              \/ pc'[c].at = "drawing" /\ pc'[c].wid \in DOMAIN held'[c],
              held' = [d \in Client |-> held'[d]],
              held'[c] \in [DOMAIN held'[c] -> [buf : Nat, old : Nat]],
              \A w \in DOMAIN held'[c] : Holds(c, w)'
       PROVE  Core'
  <2>1. Typed'
    <3>1. \A d \in Client : held'[d] \in [DOMAIN held'[d] -> [buf : Nat, old : Nat]]
      BY <1>1, <1>10 DEF Moves
    <3> QED BY <1>6, <1>10, <3>1 DEF Core, Typed
  <2>2. Queue'
    BY <1>4, <1>10, QueueStays
  <2>3. clients' = clients
    BY <1>10, MovesBooks
  <2>4. c \in DOMAIN clients /\ c \notin gone
    BY <1>1, <1>3, <1>4 DEF Session, Fits
  <2>5. Session(c)'
    BY <1>1, <1>5, <1>6, <1>10, <2>3, <2>4 DEF Session
  <2>6. Answered(c)'
    BY <1>10 DEF Answered
  <2>7. ClientOk(c)'
    BY <1>10, <2>5, <2>6 DEF ClientOk
  <2> QED BY <1>10, <2>1, <2>2, <2>7, Moved
<1>11. CASE m.type = "WELCOME"
  <2>1. pc' = [pc EXCEPT ![c] = Running] /\ held' = held /\ maps' = maps
    BY <1>11 DEF Reply, Goto
  <2>2. /\ pc' \in [Client -> Where] /\ pc'[c] = Running /\ \A d \in Client : d # c => pc'[d] = pc[d]
    BY <1>1, <1>9, <2>1
  <2>3. pc'[c].at = "run"
    BY <1>9, <2>2
  <2>4. Moves(c)
    BY <1>6, <2>1, <2>2 DEF Moves
  <2>5. ASSUME NEW w \in DOMAIN held[c] PROVE Holds(c, w)'
    <3>1. Holds(c, w)
      BY DEF Core, ClientOk
    <3>2. ~Draws(c, w) /\ ~Draws(c, w)'
      BY <2>3 DEF Draws
    <3> QED BY <1>8, <1>11, <2>1, <2>4, <3>1, <3>2, HoldsMoved DEF Holds
  <2> QED BY <1>1, <1>10, <2>1, <2>2, <2>3, <2>4, <2>5
<1>12. CASE m.type = "INIT"
  <2>0. PICK n : n = m.wid
    OBVIOUS
  <2>1. /\ pc' = [pc EXCEPT ![c] = Running]
        /\ held' = [held EXCEPT ![c] = Put(held[c], n, [buf |-> m.buf, old |-> 0])]
        /\ maps' = maps \cup {<<c, m.buf>>}
    BY <1>12, <2>0 DEF Reply, Goto
  <2>2. /\ pc' \in [Client -> Where] /\ pc'[c] = Running /\ \A d \in Client : d # c => pc'[d] = pc[d]
    BY <1>1, <1>9, <2>1
  <2>3. pc'[c].at = "run"
    BY <1>9, <2>2
  <2>4. /\ held' = [d \in Client |-> held'[d]]
        /\ held'[c] = Put(held[c], n, [buf |-> m.buf, old |-> 0])
        /\ \A d \in Client : d # c => held'[d] = held[d]
    BY <1>1, <2>1
  <2>5. /\ n \in DOMAIN windows /\ n \notin DOMAIN held[c]
        /\ windows[n].owner = c /\ ~windows[n].closing
        /\ windows[n].buf = m.buf /\ windows[n].new = 0
    BY <1>4, <1>12, <2>0 DEF Fits
  <2>6. m.buf \in Nat
    BY <1>2, <1>12 DEF Answer
  <2>7. /\ DOMAIN held'[c] = DOMAIN held[c] \cup {n} /\ held'[c][n].buf = m.buf
        /\ \A w \in DOMAIN held[c] : held'[c][w] = held[c][w]
        /\ held'[c] \in [DOMAIN held'[c] -> [buf : Nat, old : Nat]]
    <3>1. PICK f, g, r : /\ f = held[c] /\ g = held'[c] /\ r = [buf |-> m.buf, old |-> 0] /\ g = Put(f, n, r)
                         /\ f \in [DOMAIN f -> [buf : Nat, old : Nat]]
      BY <1>1, <2>4
    <3>2. r \in [buf : Nat, old : Nat] /\ r.buf = m.buf
      BY <2>6, <3>1
    <3>3. /\ DOMAIN g = DOMAIN f \cup {n} /\ g[n] = r /\ \A w \in DOMAIN f : w # n => g[w] = f[w]
          /\ g \in [DOMAIN g -> [buf : Nat, old : Nat]]
      BY <3>1, <3>2 DEF Put
    <3> QED BY <2>5, <3>1, <3>2, <3>3
  <2>8. Moves(c)
    BY <1>6, <2>1, <2>2, <2>4 DEF Moves
  <2>9. ASSUME NEW w \in DOMAIN held[c] PROVE Holds(c, w)'
    <3>1. Holds(c, w)
      BY DEF Core, ClientOk
    <3>2. ~Draws(c, w) /\ ~Draws(c, w)'
      BY <2>3 DEF Draws
    <3>3. <<c, held[c][w].buf>> \in maps'
      BY <2>1, <3>1 DEF Holds
    <3> QED BY <1>8, <1>12, <2>7, <2>8, <3>1, <3>2, <3>3, HoldsMoved DEF Holds
  <2>10. Holds(c, n)'
    <3>1. windows' = windows
      BY <2>8, MovesBooks
    <3>2. ~Sent("DONE", n)' /\ ~Sent("CLOSE", n)'
      BY <1>7, <1>8, <2>5 DEF AboutWindow
    <3>3. ~Draws(c, n)'
      BY <2>3 DEF Draws
    <3>4. Resize(c, n)'
      BY <2>5, <2>7, <3>1, <3>2, <3>3 DEF Resize
    <3> QED BY <2>1, <2>5, <2>7, <3>1, <3>2, <3>4 DEF Holds
  <2> QED BY <1>10, <2>2, <2>3, <2>4, <2>7, <2>8, <2>9, <2>10
<1>13. CASE m.type = "BUFID"
  <2>0. PICK n : n = pc[c].wid /\ n = m.wid /\ m.buf = windows[n].new /\ m.buf # 0 /\ n \in DOMAIN held[c]
    BY <1>1, <1>4, <1>13 DEF Fits, Session
  <2>1. /\ pc' = [pc EXCEPT ![c] = [at |-> "drawing", wid |-> n]]
        /\ held' = [held EXCEPT ![c][n] = [buf |-> m.buf, old |-> held[c][n].buf]]
        /\ maps' = maps \cup {<<c, m.buf>>}
    BY <1>1, <1>13, <2>0 DEF Reply, Goto
  <2>2. n \in Nat /\ m.buf \in Nat
    BY <1>2, <1>13, <2>0 DEF Answer
  <2>3. /\ pc' \in [Client -> Where] /\ pc'[c].at = "drawing" /\ pc'[c].wid = n
        /\ \A d \in Client : d # c => pc'[d] = pc[d]
    <3>1. [at |-> "drawing", wid |-> n] \in Where
      BY <2>2 DEF Where
    <3>2. pc' \in [Client -> Where] /\ pc'[c] = [at |-> "drawing", wid |-> n]
          /\ \A d \in Client : d # c => pc'[d] = pc[d]
      BY <1>1, <2>1, <3>1
    <3> QED BY <3>2
  <2>4. PICK r : r = [buf |-> m.buf, old |-> held[c][n].buf]
    OBVIOUS
  <2>5. /\ held' = [d \in Client |-> held'[d]]
        /\ held'[c] = [held[c] EXCEPT ![n] = r]
        /\ \A d \in Client : d # c => held'[d] = held[d]
    BY <1>1, <2>1, <2>4
  <2>6. /\ DOMAIN held'[c] = DOMAIN held[c]
        /\ held'[c][n].buf = m.buf /\ held'[c][n].old = held[c][n].buf
        /\ \A w \in DOMAIN held[c] : w # n => held'[c][w] = held[c][w]
        /\ held'[c] \in [DOMAIN held'[c] -> [buf : Nat, old : Nat]]
    <3>1. PICK f, g : /\ f = held[c] /\ g = held'[c] /\ g = [f EXCEPT ![n] = r]
                      /\ f \in [DOMAIN f -> [buf : Nat, old : Nat]] /\ n \in DOMAIN f
      BY <1>1, <2>0, <2>5
    <3>2. f[n].buf \in Nat
      BY <3>1
    <3>3. r \in [buf : Nat, old : Nat] /\ r.buf = m.buf /\ r.old = f[n].buf
      BY <2>2, <2>4, <3>1, <3>2
    <3>4. /\ DOMAIN g = DOMAIN f /\ g[n] = r /\ \A w \in DOMAIN f : w # n => g[w] = f[w]
          /\ g \in [DOMAIN g -> [buf : Nat, old : Nat]]
      BY <3>1, <3>3
    <3> QED BY <3>1, <3>3, <3>4
  <2>7. Moves(c)
    BY <1>6, <2>1, <2>3, <2>5 DEF Moves
  <2>8. ASSUME NEW w \in DOMAIN held[c], w # n PROVE Holds(c, w)'
    <3>1. Holds(c, w)
      BY DEF Core, ClientOk
    <3>2. ~Draws(c, w) /\ ~Draws(c, w)'
      BY <2>3, <2>8 DEF Draws
    <3>3. <<c, held[c][w].buf>> \in maps'
      BY <2>1, <3>1 DEF Holds
    <3> QED BY <1>8, <2>0, <2>6, <2>7, <2>8, <3>1, <3>2, <3>3, HoldsMoved DEF Holds
  <2>9. Holds(c, n)'
    <3>1. windows' = windows
      BY <2>7, MovesBooks
    <3>2. Holds(c, n)
      BY <2>0 DEF Core, ClientOk
    <3>3. ~Sent("DONE", n) /\ ~Sent("DONE", n)' /\ ~Sent("CLOSE", n)'
      BY <1>7, <1>8, <3>2 DEF AboutWindow, Holds
    <3>4. Draws(c, n)' /\ ~Draws(c, n)
      BY <2>3 DEF Draws
    <3>5. held[c][n].buf = windows[n].buf
      BY <3>2, <3>3, <3>4 DEF Holds, Resize
    <3>6. Resize(c, n)'
      BY <2>0, <2>6, <3>1, <3>3, <3>4, <3>5 DEF Resize
    <3> QED BY <2>1, <2>6, <3>1, <3>2, <3>3, <3>6 DEF Holds
  <2> QED BY <1>10, <2>0, <2>3, <2>5, <2>6, <2>7, <2>8, <2>9
<1> QED BY <1>3, <1>11, <1>12, <1>13

\* Anything else it puts aside.
LEMMA AsideStep ==
    ASSUME Core, NEW c \in Client, pc[c].at = "wait", pipe[c] # <<>>,
           NEW m, m = Head(pipe[c]), m.type # pc[c].type,
           pipe' = [pipe EXCEPT ![c] = Tail(pipe[c])],
           aside' = [aside EXCEPT ![c] = Append(aside[c], m)],
           UNCHANGED <<pc, held, maps, toServer, gone, missed, yg>>
    PROVE  Core'
<1>1. /\ Session(c) /\ Answered(c) /\ aside \in [Client -> Seq(Answer)] /\ aside[c] \in Seq(Answer)
      /\ pipe \in [Client -> Seq(Answer)] /\ pipe[c] \in Seq(Answer)
  BY DEF Core, Typed, ClientOk
<1>2. /\ m \in Answer /\ m \in Range(pipe[c]) /\ Tail(pipe[c]) \in Seq(Answer)
      /\ Range(pipe[c]) = {m} \cup Range(Tail(pipe[c]))
  BY <1>1, HeadTail
<1>3. m.type = "OFFER"
  BY <1>1, <1>2 DEF Session, Fits
<1>4. /\ pipe' \in [Client -> Seq(Answer)] /\ pipe'[c] = Tail(pipe[c])
      /\ \A d \in Client : d # c => pipe'[d] = pipe[d]
  BY <1>1, <1>2
<1>5. Append(aside[c], m) \in Seq(Answer) /\ Range(Append(aside[c], m)) = Range(aside[c]) \cup {m}
  BY <1>1, <1>2, AppendElems
<1>6. /\ aside' \in [Client -> Seq(Answer)] /\ aside'[c] = Append(aside[c], m)
      /\ \A d \in Client : d # c => aside'[d] = aside[d]
  BY <1>1, <1>5
<1>7. Moves(c)
  BY <1>4, <1>6 DEF Moves
<1>8. Typed'
  BY <1>4, <1>6 DEF Core, Typed
<1>9. Queue'
  BY <1>7, QueueStays
<1>10. windows' = windows /\ clients' = clients
  BY <1>7, MovesBooks
<1>11. Session(c)'
  <2>1. OneReply(pipe'[c])
    BY <1>1, <1>4, OneReplyTail DEF Session
  <2>2. \A x : Fits(c, x) => Fits(c, x)'
    BY <1>10 DEF Fits
  <2>3. \A x \in Range(pipe'[c]) : x.type # "OFFER" => Fits(c, x)'
    BY <1>1, <1>2, <1>4, <2>2 DEF Session
  <2>4. \A x \in Range(aside'[c]) : x.type = "OFFER"
    BY <1>1, <1>3, <1>5, <1>6 DEF Session
  <2> QED BY <1>1, <1>10, <2>1, <2>3, <2>4 DEF Session
<1>12. Answered(c)'
  BY <1>1, <1>2, <1>4 DEF Answered
<1>13. ASSUME NEW w \in DOMAIN held[c] PROVE Holds(c, w)'
  <2>1. Holds(c, w)
    BY DEF Core, ClientOk
  <2>2. \A type : Sent(type, w)' <=> Sent(type, w)
    BY DEF Sent
  <2>3. Draws(c, w)' <=> Draws(c, w)
    BY DEF Draws
  <2> QED BY <1>7, <2>1, <2>2, <2>3, HoldsMoved DEF Holds
<1>14. ClientOk(c)'
  BY <1>11, <1>12, <1>13 DEF ClientOk
<1> QED BY <1>7, <1>8, <1>9, <1>14, Moved

LEMMA WaitForReplyStep ==
    ASSUME Core, NEW c \in Client, WaitForReply(c)
    PROVE  Core'
<1>1. /\ pc[c].at = "wait" /\ pipe[c] # <<>>
      /\ pipe' = [pipe EXCEPT ![c] = Tail(pipe[c])]
      /\ UNCHANGED <<toServer, gone, missed, yg>>
  BY DEF WaitForReply, At
<1>2. PICK m : m = Head(pipe[c])
  OBVIOUS
<1>3. CASE m.type = pc[c].type
  <2>1. Reply(c, m) /\ UNCHANGED aside
    BY <1>2, <1>3 DEF WaitForReply
  <2> QED BY <1>1, <1>2, <1>3, <2>1, ReplyStep
<1>4. CASE m.type # pc[c].type
  <2>1. aside' = [aside EXCEPT ![c] = Append(aside[c], m)] /\ UNCHANGED <<pc, held, maps>>
    BY <1>2, <1>4 DEF WaitForReply
  <2> QED BY <1>1, <1>2, <1>4, <2>1, AsideStep
<1> QED BY <1>3, <1>4

----------------------------------------------------------------------------
(* The invariant, and what follows from it *)

LEMMA InitYInv ==
    ASSUME Init
    PROVE  YInv
<1>1. /\ pc = [c \in Client |-> [at |-> "off"]] /\ toServer = <<>>
      /\ held = [c \in Client |-> <<>>] /\ aside = [c \in Client |-> <<>>]
      /\ pipe = [c \in Client |-> <<>>] /\ gone = {} /\ missed = {}
      /\ clients = <<>> /\ windows = <<>>
      /\ stack = [z \in Lists |-> <<>>] /\ slot = [z \in Slots |-> None]
      /\ focused = None /\ bufs = 0 /\ wids = 0
  BY DEF Init
<1>2. /\ DOMAIN windows = {} /\ DOMAIN clients = {} /\ Range(toServer) = {}
      /\ \A c \in Client : DOMAIN held[c] = {} /\ pipe[c] = <<>> /\ aside[c] = <<>> /\ pc[c].at = "off"
  BY <1>1 DEF Range
<1>3. Desk(windows, stack, slot, focused, wids)
  <2>1. windows \in [DOMAIN windows -> Window] /\ DOMAIN windows \subseteq 1..wids /\ wids \in Nat
    BY <1>1, <1>2
  <2>2. stack \in [Lists -> Seq(Nat)] /\ slot \in [Slots -> Nat \cup {None}]
    BY <1>1
  <2>3. \A z \in Lists : IsInjective(stack[z]) /\ Range(stack[z]) = {}
    BY <1>1 DEF IsInjective, Range
  <2>4. \A z \in Slots : slot[z] = None
    BY <1>1
  <2> QED BY <1>1, <1>2, <2>1, <2>2, <2>3, <2>4 DEF Desk
<1>4. Buffers
  BY <1>1, <1>2 DEF Buffers
<1>5. Belongs
  BY <1>1, <1>2 DEF Belongs
<1>6. Queue
  BY <1>1, <1>2 DEF Queue, InOrder
<1>7. Orphans
  BY <1>2 DEF Orphans
<1>8. Typed
  <2>1. pc \in [Client -> Where]
    <3>1. [at |-> "off"] \in Where
      BY DEF Where
    <3> QED BY <1>1, <3>1
  <2>2. held = [c \in Client |-> held[c]] /\ \A c \in Client : held[c] \in [DOMAIN held[c] -> [buf : Nat, old : Nat]]
    <3>1. PICK e : e = <<>> /\ \A c \in Client : held[c] = e
      BY <1>1
    <3>2. e \in [DOMAIN e -> [buf : Nat, old : Nat]]
      BY <3>1
    <3> QED BY <1>1, <3>1, <3>2
  <2>3. pipe \in [Client -> Seq(Answer)] /\ aside \in [Client -> Seq(Answer)]
    BY <1>1
  <2> QED BY <1>1, <2>1, <2>2, <2>3 DEF Typed
<1>9. ASSUME NEW c \in Client PROVE ClientOk(c)
  <2>1. Range(pipe[c]) = {} /\ Range(aside[c]) = {} /\ OneReply(pipe[c])
    BY <1>2 DEF Range, OneReply
  <2>2. Session(c)
    BY <1>1, <1>2, <2>1 DEF Session
  <2>3. Answered(c)
    BY <1>2 DEF Answered
  <2> QED BY <1>2, <2>2, <2>3 DEF ClientOk
<1> QED BY <1>3, <1>4, <1>5, <1>6, <1>7, <1>8, <1>9 DEF Core, YInv

LEMMA NextYInv ==
    ASSUME YInv, [Next]_vars
    PROVE  YInv'
<1> SUFFICES ASSUME up' = "up" PROVE Core'
  BY DEF YInv
<1>1. CASE UNCHANGED vars
  <2>1. Core
    BY <1>1 DEF YInv, vars, yg
  <2>2. /\ UNCHANGED <<pc, held, aside, toServer, pipe, gone, missed, maps>>
        /\ UNCHANGED <<clients, windows, stack, slot, focused, bufs, wids>>
    BY <1>1 DEF vars, local, exchange, yg
  <2>3. /\ Desk(windows', stack', slot', focused', wids') /\ Buffers' /\ Belongs' /\ Orphans' /\ Typed'
    BY <2>1, <2>2 DEF Core, Buffers, Belongs, Orphans, Typed
  <2>4. Queue'
    <3>1. \A m : PacketOk(m) => PacketOk(m)'
      BY <2>2 DEF PacketOk
    <3> QED BY <2>1, <2>2, <3>1 DEF Core, Queue
  <2>5. \A c \in Client : ClientOk(c)'
    <3> SUFFICES ASSUME NEW c \in Client PROVE ClientOk(c)'
      OBVIOUS
    <3>1. ClientOk(c)
      BY <2>1 DEF Core
    <3>2. \A m : Fits(c, m) => Fits(c, m)'
      BY <2>2 DEF Fits
    <3>3. Session(c)'
      BY <2>2, <3>1, <3>2 DEF ClientOk, Session
    <3>4. Answered(c)'
      BY <2>2, <3>1 DEF ClientOk, Answered
    <3>5. \A type, w : Sent(type, w)' <=> Sent(type, w)
      BY <2>2 DEF Sent
    <3>6. \A w \in DOMAIN held[c] : Holds(c, w)'
      BY <2>2, <3>1, <3>5 DEF ClientOk, Holds, Resize, Draws
    <3> QED BY <2>2, <3>3, <3>4, <3>6 DEF ClientOk
  <2> QED BY <2>3, <2>4, <2>5 DEF Core
<1>2. CASE Handle
  <2>1. Core
    BY <1>2 DEF YInv, Handle
  <2> QED BY <1>2, <2>1, HandleStep
<1>3. CASE User
  <2>1. CASE \E w \in DOMAIN windows \cup {None} : Click(w)
    <3>1. PICK w \in DOMAIN windows \cup {None} : Click(w)
      BY <2>1
    <3>2. Core
      BY <3>1 DEF YInv, Click
    <3> QED BY <3>1, <3>2, ClickStep
  <2>2. CASE \E w \in DOMAIN windows : UserResize(w)
    <3>1. PICK w \in DOMAIN windows : UserResize(w)
      BY <2>2
    <3>2. Core
      BY <3>1 DEF YInv, UserResize
    <3> QED BY <3>1, <3>2, UserResizeStep
  <2> QED BY <1>3, <2>1, <2>2 DEF User
<1>4. CASE \E w \in DOMAIN windows : Redraw(w)
  <2>1. PICK w \in DOMAIN windows : Redraw(w)
    BY <1>4
  <2>2. Core
    BY <2>1 DEF YInv, Redraw
  <2> QED BY <2>1, <2>2, RedrawStep
<1>5. ASSUME NEW c \in Client,
             \/ Connect(c) \/ Create(c) \/ Asks(c) \/ ResizeAccept(c) \/ ResizeDone(c)
             \/ WaitForReply(c) \/ Poll(c) \/ Exit(c)
      PROVE  Core'
  <2>1. CASE Connect(c)
    <3>1. Core
      BY <2>1 DEF YInv, Connect, At
    <3> QED BY <2>1, <3>1, ConnectStep
  <2>2. CASE Create(c)
    <3>1. Core
      BY <2>2 DEF YInv, Create, At
    <3> QED BY <2>2, <3>1, CreateStep
  <2>3. CASE Asks(c)
    <3>1. PICK w \in DOMAIN held[c] :
            \/ \E type \in {"FLIP", "FOCUS", "REQUEST"} : Ask(c, w, type)
            \/ \E z \in ZOrders : SetStack(c, w, z)
            \/ CloseWindow(c, w)
      BY <2>3 DEF Asks
    <3>2. Core
      BY <3>1 DEF YInv, Ask, SetStack, CloseWindow, At
    <3> QED BY <3>1, <3>2, AsksStep, CloseWindowStep
  <2>4. CASE ResizeAccept(c)
    <3>1. Core
      BY <2>4 DEF YInv, ResizeAccept, At
    <3> QED BY <2>4, <3>1, ResizeAcceptStep
  <2>5. CASE ResizeDone(c)
    <3>1. Core
      BY <2>5 DEF YInv, ResizeDone, At
    <3> QED BY <2>5, <3>1, ResizeDoneStep
  <2>6. CASE WaitForReply(c)
    <3>1. Core
      BY <2>6 DEF YInv, WaitForReply, At
    <3> QED BY <2>6, <3>1, WaitForReplyStep
  <2>7. CASE Poll(c)
    <3>1. Core
      BY <2>7 DEF YInv, Poll, At
    <3> QED BY <2>7, <3>1, PollStep
  <2>8. CASE Exit(c)
    <3>1. Core
      BY <2>8 DEF YInv, Exit
    <3> QED BY <2>8, <3>1, ExitStep
  <2> QED BY <1>5, <2>1, <2>2, <2>3, <2>4, <2>5, <2>6, <2>7, <2>8
<1> QED BY <1>1, <1>2, <1>3, <1>4, <1>5 DEF Next

\* The inductive invariant: as long as the compositor is up, its books are in order, every
\* packet in its pipe makes sense, and what a client holds, what it waits for and what is on
\* its way to it fit together.
THEOREM YutaniInvariance == Spec => []YInv
<1>1. Init => YInv
  BY InitYInv
<1>2. YInv /\ [Next]_vars => YInv'
  BY NextYInv
<1> QED BY <1>1, <1>2, PTL DEF Spec

\* Client and compositor draw from the same buffer, through any number of resizes: whatever
\* a client draws into is the buffer that the compositor uses for the window, or will use
\* once the resize is done, and both have it mapped.
THEOREM BuffersAlwaysShared == Spec => []BuffersShared
<1>1. YInv => BuffersShared
  <2> SUFFICES ASSUME YInv, up = "up", NEW c \in Client, NEW w \in DOMAIN held[c]
               PROVE  /\ w \in DOMAIN windows
                      /\ held[c][w].buf \in {windows[w].buf, windows[w].new}
                      /\ {<<c, held[c][w].buf>>, <<Server, held[c][w].buf>>, <<Server, windows[w].buf>>} \subseteq maps
    BY DEF BuffersShared
  <2>1. Core
    BY DEF YInv
  <2>2. Holds(c, w)
    BY <2>1 DEF Core, ClientOk
  <2>3. /\ w \in DOMAIN windows /\ <<c, held[c][w].buf>> \in maps
        /\ held[c][w].buf = windows[w].buf \/ (held[c][w].buf = windows[w].new /\ windows[w].new # 0)
    BY <2>2 DEF Holds, Resize
  <2>4. /\ <<Server, windows[w].buf>> \in maps
        /\ windows[w].new # 0 => <<Server, windows[w].new>> \in maps
    BY <2>1, <2>3 DEF Core, Buffers
  <2> QED BY <2>3, <2>4
<1> QED BY <1>1, YutaniInvariance, PTL

\* The focus and the order of the windows never refer to a window that is gone, whatever is
\* closed, raised or moved between the orders.
THEOREM FocusAlwaysAlive == Spec => []FocusAlive
<1>1. YInv => FocusAlive
  BY DEF YInv, Core, Desk, FocusAlive
<1> QED BY <1>1, YutaniInvariance, PTL

\* A client that waits for an answer gets it, unless its pipe was full when it came: the
\* request is not lost, nor is an answer put aside.
THEOREM AnswersComeBack == Spec => []AnswerOnTheWay
<1>1. YInv => AnswerOnTheWay
  BY DEF YInv, Core, ClientOk, Answered, AnswerOnTheWay
<1> QED BY <1>1, YutaniInvariance, PTL

\* No window outlives its owner for good: each is closing, or the compositor has yet to read
\* that its owner is gone.
THEOREM OrphansAlwaysClose == Spec => []OrphansClose
<1>1. YInv => OrphansClose
  BY DEF YInv, Core, Orphans, OrphansClose
<1> QED BY <1>1, YutaniInvariance, PTL
=============================================================================
