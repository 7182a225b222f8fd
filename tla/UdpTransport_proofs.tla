------------------------- MODULE UdpTransport_proofs -------------------------
(***************************************************************************)
(* Proofs about UdpTransport: for every set of reader threads and any      *)
(* number of sockets, the type invariant and LossToldOnce.                 *)
(*                                                                         *)
(* LossToldOnce is not inductive: that nothing overwrites a socket before  *)
(* the transport is restarted rests on FirstSession, which says that there *)
(* is one reader then and that who is about to open a socket finds none.   *)
(***************************************************************************)
EXTENDS UdpTransport, TLAPS

\* Who announces an opening has the socket in hand; a number not yet given has no
\* history.
Numbered ==
  /\ \A t \in Threads : at[t] = "announces" => has[t] # 0
  /\ \A k \in Sockets : k > opened => downs[k] = 0

\* Before a restart at most one reader was made, after the owner opened the first
\* socket, and who opens a socket finds none.
FirstSession ==
  ~restarted =>
    /\ at["owner"] \in {"idle", "opens"} => socket = 0
    /\ \A r \in Readers : at[r] \in {"waits", "opens"} => socket = 0
    /\ \A r \in Readers :
         at[r] # "none" => at["owner"] \in {"up", "fails", "loses", "joins", "stopped"}
    /\ \A r, q \in Readers : at[r] # "none" /\ at[q] # "none" => r = q

Inv == TypeOK /\ Numbered /\ FirstSession /\ LossToldOnce

\* The threads that are about to tell a loss, spelled out.
LEMMA ClosingDef ==
  ASSUME NEW k, NEW t
  PROVE  t \in Closing(k) <=> t \in Threads /\ at[t] = "loses" /\ has[t] = k
  BY DEF Closing

LEMMA ClosingDefNext ==
  ASSUME NEW k, NEW t
  PROVE  t \in Closing(k)' <=> t \in Threads /\ at'[t] = "loses" /\ has'[t] = k
  BY DEF Closing

\* A step that moves threads between other places and touches no socket.
Quiet ==
  /\ UNCHANGED <<socket, opened, has, told>>
  /\ \A t \in Threads : at'[t] = "loses" <=> at[t] = "loses"
  /\ restarted => restarted'

LEMMA QuietKeeps ==
  ASSUME LossToldOnce, Quiet
  PROVE  LossToldOnce'
<1>1. ASSUME NEW k PROVE Closing(k)' = Closing(k)
  BY ClosingDef, ClosingDefNext DEF Quiet, Closing
<1> QED  BY <1>1 DEF LossToldOnce, Quiet, told

\* The new socket was nobody's; before a restart there was none to forget.
LEMMA OpensKeeps ==
  ASSUME Inv, NEW t \in Threads, Opens(t), at[t] # "loses", NEW s, s # "loses",
         Goes(t, s), ~restarted => socket = 0
  PROVE  LossToldOnce'
<1>1. ASSUME NEW k \in 1 .. opened PROVE Closing(k)' = Closing(k)
  BY DEF Inv, TypeOK, Opens, Keeps, Goes, Closing
<1>2. ASSUME NEW k, k = opened + 1 PROVE Closing(k)' = {}
  <2>1. ASSUME NEW u \in Threads, at'[u] = "loses" PROVE has'[u] # opened + 1
    BY <2>1 DEF Inv, TypeOK, Opens, Keeps, Goes
  <2> QED  BY <1>2, <2>1, ClosingDefNext
<1>3. /\ opened \in Nat /\ opened + 1 \in Sockets
      /\ opened' = opened + 1 /\ socket' = opened + 1 /\ downs' = downs
      /\ restarted' = restarted
  BY UdpAssumption DEF Inv, TypeOK, Opens, Sockets, told, UdpAssumption
<1>4. downs[opened + 1] = 0
  BY <1>3 DEF Inv, Numbered
<1>5. ASSUME NEW k \in 1 .. opened'
      PROVE  /\ socket' = k => downs'[k] = 0 /\ Closing(k)' = {}
             /\ downs'[k] # 0 => downs'[k] = 1 /\ Closing(k)' = {}
             /\ \A u, v \in Closing(k)' : u = v
             /\ ~restarted' => socket' = k \/ downs'[k] = 1 \/ Closing(k)' # {}
  <2>1. CASE k = opened + 1
    BY <2>1, <1>2, <1>3, <1>4
  <2>2. CASE k # opened + 1
    <3>1. k \in 1 .. opened
      BY <2>2, <1>3, <1>5
    <3> QED  BY <2>2, <3>1, <1>1, <1>3 DEF Inv, LossToldOnce
  <2> QED  BY <2>1, <2>2
<1> QED  BY <1>5 DEF LossToldOnce

LEMMA OpenFailsKeeps ==
  ASSUME Inv, NEW t \in Threads, OpenFails, at[t] # "loses", NEW s, s # "loses",
         Goes(t, s), ~restarted => socket = 0
  PROVE  LossToldOnce'
<1>1. ASSUME NEW k PROVE Closing(k)' = Closing(k)
  BY DEF Inv, TypeOK, OpenFails, Goes, Closing
<1> QED  BY <1>1 DEF Inv, TypeOK, LossToldOnce, OpenFails, told

LEMMA TellsUpKeeps ==
  ASSUME Inv, NEW t \in Threads, TellsUp(t), at[t] # "loses", NEW s, s # "loses",
         Goes(t, s)
  PROVE  LossToldOnce'
<1>1. ASSUME NEW k PROVE Closing(k)' = Closing(k)
  BY DEF Inv, TypeOK, TellsUp, Keeps, Goes, Closing
<1> QED  BY <1>1 DEF Inv, LossToldOnce, TellsUp

\* The current socket becomes the loss t is about to tell, and nobody else's.
LEMMA TakesKeeps ==
  ASSUME Inv, NEW t \in Threads, Takes(t), at[t] # "loses", Goes(t, "loses")
  PROVE  LossToldOnce'
<1>1. ASSUME NEW k \in 1 .. opened, k # socket PROVE Closing(k)' = Closing(k)
  BY <1>1 DEF Inv, TypeOK, Takes, Keeps, Goes, Closing
<1>2. ASSUME NEW k \in 1 .. opened, k = socket PROVE Closing(k)' = {t} /\ downs[k] = 0
  <2>1. Closing(k) = {} /\ downs[k] = 0
    BY <1>2 DEF Inv, LossToldOnce
  <2>2. at'[t] = "loses" /\ has'[t] = k
    BY <1>2 DEF Inv, TypeOK, Takes, Keeps, Goes
  <2>3. ASSUME NEW u \in Threads, u # t, at'[u] = "loses", has'[u] = k PROVE FALSE
    <3>1. at[u] = "loses" /\ has[u] = k
      BY <2>3 DEF Inv, TypeOK, Takes, Keeps, Goes
    <3> QED  BY <2>1, <3>1 DEF Closing
  <2> QED  BY <2>1, <2>2, <2>3, ClosingDefNext
<1>3. socket' = 0 /\ opened' = opened /\ downs' = downs /\ restarted' = restarted
  BY DEF Takes, told
<1>4. opened \in Nat /\ 0 \notin 1 .. opened
  BY DEF Inv, TypeOK
<1>5. ASSUME NEW k \in 1 .. opened
      PROVE  /\ downs'[k] # 0 => downs'[k] = 1 /\ Closing(k)' = {}
             /\ \A u, v \in Closing(k)' : u = v
             /\ ~restarted' => socket' = k \/ downs'[k] = 1 \/ Closing(k)' # {}
  <2>1. CASE k = socket
    <3>1. Closing(k)' = {t} /\ downs[k] = 0
      BY <2>1, <1>2
    <3> QED  BY <3>1, <1>3
  <2>2. CASE k # socket
    BY <2>2, <1>1, <1>3 DEF Inv, LossToldOnce
  <2> QED  BY <2>1, <2>2
<1> QED  BY <1>3, <1>4, <1>5 DEF LossToldOnce

\* The loss t tells is nobody else's and was not told before.
LEMMA TellsDownKeeps ==
  ASSUME Inv, NEW t \in Threads, TellsDown(t), at[t] = "loses", NEW s, s # "loses",
         Goes(t, s)
  PROVE  LossToldOnce' /\ downs' \in [Sockets -> 0 .. 1]
<1> SUFFICES ASSUME NEW n, n = has[t]
             PROVE  LossToldOnce' /\ downs' \in [Sockets -> 0 .. 1]
  OBVIOUS
<1>1. n \in 0 .. opened /\ opened \in Nat /\ opened \in 0 .. MaxOpens
  BY DEF Inv, TypeOK
<1>2. ASSUME NEW k \in 1 .. opened, k # n PROVE Closing(k)' = Closing(k)
  BY <1>2 DEF Inv, TypeOK, TellsDown, Keeps, Goes, Closing
<1>3. ASSUME n # 0
      PROVE  n \in Sockets /\ downs[n] = 0 /\ socket # n /\ Closing(n)' = {}
  <2>1. n \in 1 .. opened /\ n \in Sockets
    BY <1>1, <1>3, UdpAssumption DEF Sockets, UdpAssumption
  <2>2. t \in Closing(n)
    BY DEF Closing
  <2>3. downs[n] = 0 /\ socket # n /\ (\A u \in Closing(n) : u = t)
    BY <2>1, <2>2 DEF Inv, LossToldOnce
  <2>4. ASSUME NEW u \in Threads, at'[u] = "loses", has'[u] = n PROVE FALSE
    <3>1. u # t
      BY <2>4 DEF Goes, Inv, TypeOK
    <3>2. at[u] = "loses" /\ has[u] = n
      BY <2>4, <3>1 DEF Goes, TellsDown, Keeps, Inv, TypeOK
    <3> QED  BY <2>3, <3>1, <3>2 DEF Closing
  <2>5. Closing(n)' = {}
    BY <2>4, ClosingDefNext
  <2> QED  BY <2>1, <2>3, <2>5
<1>4. downs \in [Sockets -> 0 .. 1]
  BY DEF Inv, TypeOK
<1>5. /\ n # 0 => downs' = [downs EXCEPT ![n] = 1]
      /\ n = 0 => downs' = downs
  <2>1. n # 0 => downs' = [downs EXCEPT ![n] = downs[n] + 1]
    BY DEF TellsDown
  <2>2. n # 0 => downs[n] + 1 = 1
    BY <1>3
  <2>3. n = 0 => downs' = downs
    BY DEF TellsDown
  <2> QED  BY <2>1, <2>2, <2>3
<1>6. downs' \in [Sockets -> 0 .. 1]
  BY <1>4, <1>5
<1>7. socket' = socket /\ opened' = opened /\ restarted' = restarted
  BY DEF TellsDown
<1>8. ASSUME NEW k \in 1 .. opened
      PROVE  /\ socket' = k => downs'[k] = 0 /\ Closing(k)' = {}
             /\ downs'[k] # 0 => downs'[k] = 1 /\ Closing(k)' = {}
             /\ \A u, v \in Closing(k)' : u = v
             /\ ~restarted' => socket' = k \/ downs'[k] = 1 \/ Closing(k)' # {}
  <2>1. CASE k = n
    <3>1. n # 0
      BY <2>1, <1>1
    <3>2. downs'[n] = 1
      BY <3>1, <1>3, <1>4, <1>5
    <3> QED  BY <2>1, <3>1, <3>2, <1>3, <1>7
  <2>2. CASE k # n
    <3>1. k \in Sockets
      BY <1>1, UdpAssumption DEF Sockets, UdpAssumption
    <3>2. downs'[k] = downs[k]
      BY <2>2, <3>1, <1>4, <1>5
    <3> QED  BY <2>2, <3>2, <1>2, <1>7 DEF Inv, LossToldOnce
  <2> QED  BY <2>1, <2>2
<1> QED  BY <1>6, <1>7, <1>8 DEF LossToldOnce

----------------------------------------------------------------------------
Places == {"none", "idle", "top", "waits", "opens", "announces", "takes", "receives",
           "delivers", "sends", "fails", "loses", "spawns", "up", "joins", "stopped",
           "ended", "crashed"}

\* What a step may do to the sockets: nothing, open, fail to, announce, take or tell.
Touches(t, s) ==
  \/ at[t] # "loses" /\ s \notin {"loses", "announces"} /\ UNCHANGED <<socket, opened, has, told>>
  \/ at[t] # "loses" /\ s = "announces" /\ Opens(t) /\ (~restarted => socket = 0)
  \/ at[t] # "loses" /\ s \notin {"loses", "announces"} /\ OpenFails /\ (~restarted => socket = 0)
  \/ at[t] = "announces" /\ s \notin {"loses", "announces"} /\ TellsUp(t)
  \/ at[t] # "loses" /\ s = "loses" /\ Takes(t)
  \/ at[t] = "loses" /\ s \notin {"loses", "announces"} /\ TellsDown(t)

\* A thread goes from one place to another and touches the sockets in one way.
Step ==
  \E t \in Threads, s \in Places :
    /\ Goes(t, s)
    /\ Touches(t, s)
    /\ stop' \in BOOLEAN /\ thread' \in Readers \cup {"none"}
    /\ restarted' \in BOOLEAN /\ (restarted => restarted')

LEMMA StepKeeps ==
  ASSUME Inv, Step
  PROVE  TypeOK' /\ Numbered' /\ LossToldOnce'
<1>1. PICK t \in Threads, s \in Places :
        /\ Goes(t, s)
        /\ Touches(t, s)
        /\ stop' \in BOOLEAN /\ thread' \in Readers \cup {"none"}
        /\ restarted' \in BOOLEAN /\ (restarted => restarted')
  BY DEF Step
<1>2. LossToldOnce' /\ downs' \in [Sockets -> 0 .. 1]
  <2>1. downs \in [Sockets -> 0 .. 1] /\ LossToldOnce
    BY DEF Inv, TypeOK
  <2>2. CASE at[t] # "loses" /\ s \notin {"loses", "announces"}
             /\ UNCHANGED <<socket, opened, has, told>>
    <3>1. Quiet
      BY <1>1, <2>2 DEF Quiet, Goes, Inv, TypeOK
    <3> QED  BY <3>1, <2>1, <2>2, QuietKeeps DEF told
  <2>3. CASE at[t] # "loses" /\ s = "announces" /\ Opens(t) /\ (~restarted => socket = 0)
    <3>1. LossToldOnce'
      BY <1>1, <2>3, OpensKeeps
    <3> QED  BY <3>1, <2>1, <2>3 DEF Opens, told
  <2>4. CASE at[t] # "loses" /\ s \notin {"loses", "announces"} /\ OpenFails
             /\ (~restarted => socket = 0)
    <3>1. LossToldOnce'
      BY <1>1, <2>4, OpenFailsKeeps
    <3> QED  BY <3>1, <2>1, <2>4 DEF OpenFails, told
  <2>5. CASE at[t] = "announces" /\ s \notin {"loses", "announces"} /\ TellsUp(t)
    <3>1. LossToldOnce'
      BY <1>1, <2>5, TellsUpKeeps
    <3> QED  BY <3>1, <2>1, <2>5 DEF TellsUp
  <2>6. CASE at[t] # "loses" /\ s = "loses" /\ Takes(t)
    <3>1. LossToldOnce'
      BY <1>1, <2>6, TakesKeeps
    <3> QED  BY <3>1, <2>1, <2>6 DEF Takes, told
  <2>7. CASE at[t] = "loses" /\ s \notin {"loses", "announces"} /\ TellsDown(t)
    BY <1>1, <2>7, TellsDownKeeps
  <2> QED  BY <1>1, <2>2, <2>3, <2>4, <2>5, <2>6, <2>7 DEF Touches
<1>3. at' \in [Threads -> Places]
  BY <1>1 DEF Goes, Inv, TypeOK, Places
<1>4. /\ opened' \in 0 .. MaxOpens /\ socket' \in 0 .. opened'
      /\ has' \in [Threads -> 0 .. opened']
  <2>1. /\ opened \in 0 .. MaxOpens /\ socket \in 0 .. opened /\ MaxOpens \in Nat
        /\ has \in [Threads -> 0 .. opened]
    BY UdpAssumption DEF Inv, TypeOK, UdpAssumption
  <2>2. CASE Opens(t)
    BY <2>1, <2>2 DEF Opens, Keeps
  <2>3. CASE OpenFails
    BY <2>1, <2>3 DEF OpenFails
  <2>4. CASE UNCHANGED <<opened, socket>> /\ (UNCHANGED has \/ Keeps(t, 0))
    BY <2>1, <2>4 DEF Keeps
  <2>5. CASE Takes(t)
    BY <2>1, <2>5 DEF Takes, Keeps
  <2> QED  BY <1>1, <2>2, <2>3, <2>4, <2>5 DEF Touches, TellsUp, TellsDown
<1>5. ups' \subseteq Sockets
  <2>1. ups \subseteq Sockets
    BY DEF Inv, TypeOK
  <2>2. CASE at[t] = "announces" /\ TellsUp(t)
    <3>1. has[t] # 0 /\ has[t] \in 0 .. opened /\ opened \in 0 .. MaxOpens
      BY <2>2 DEF Inv, TypeOK, Numbered
    <3>2. has[t] \in Sockets
      BY <3>1, UdpAssumption DEF Sockets, UdpAssumption
    <3> QED  BY <2>1, <2>2, <3>2 DEF TellsUp
  <2>3. CASE ups' = ups
    BY <2>1, <2>3
  <2> QED  BY <1>1, <2>2, <2>3 DEF Touches, Opens, OpenFails, Takes, TellsDown, told
<1>6. TypeOK'
  BY <1>1, <1>2, <1>3, <1>4, <1>5 DEF TypeOK, Places
<1>7. \A u \in Threads : at'[u] = "announces" => has'[u] # 0
  <2> SUFFICES ASSUME NEW u \in Threads, at'[u] = "announces" PROVE has'[u] # 0
    OBVIOUS
  <2>1. CASE u = t
    <3>1. s = "announces"
      BY <1>1, <2>1 DEF Goes, Inv, TypeOK
    <3>2. has' = [has EXCEPT ![t] = opened + 1]
      BY <1>1, <3>1 DEF Touches, Opens, Keeps
    <3>3. has \in [Threads -> 0 .. opened] /\ opened \in Nat
      BY UdpAssumption DEF Inv, TypeOK, UdpAssumption
    <3> QED  BY <2>1, <3>2, <3>3
  <2>2. CASE u # t
    <3>1. at[u] = "announces" /\ has[u] # 0
      BY <1>1, <2>2 DEF Goes, Inv, TypeOK, Numbered
    <3>2. has'[u] = has[u]
      BY <1>1, <2>2 DEF Touches, Opens, OpenFails, TellsUp, Takes, TellsDown, Keeps, Inv, TypeOK
    <3> QED  BY <3>1, <3>2
  <2> QED  BY <2>1, <2>2
<1>8. \A k \in Sockets : k > opened' => downs'[k] = 0
  <2> SUFFICES ASSUME NEW k \in Sockets, k > opened' PROVE downs'[k] = 0
    OBVIOUS
  <2>1. opened \in Nat /\ k \in Nat /\ (opened' = opened \/ opened' = opened + 1)
    BY <1>1, UdpAssumption
    DEF Inv, TypeOK, UdpAssumption, Sockets, Touches, Opens, OpenFails, TellsUp, Takes, TellsDown
  <2>2. k > opened /\ downs[k] = 0
    BY <2>1 DEF Inv, Numbered
  <2>3. CASE downs' = downs
    BY <2>2, <2>3
  <2>4. CASE TellsDown(t)
    <3>1. has[t] \in 0 .. opened /\ has[t] # k
      BY <2>1, <2>2 DEF Inv, TypeOK
    <3> QED  BY <2>2, <2>4, <3>1 DEF TellsDown, Inv, TypeOK
  <2> QED  BY <1>1, <2>3, <2>4 DEF Touches, Opens, OpenFails, TellsUp, Takes, told
<1> QED  BY <1>2, <1>6, <1>7, <1>8 DEF Numbered

----------------------------------------------------------------------------
\* Every action is such a step, and keeps the first session to itself.
LEMMA ReaderKeeps ==
  ASSUME Inv, NEW r \in Readers, Reader(r)
  PROVE  Step /\ FirstSession'
<1> USE DEF Inv, TypeOK, FirstSession, Goes, told
<1>1. r \in Threads /\ "owner" \in Threads /\ Readers \subseteq Threads /\ r # "owner"
      /\ "owner" \notin Readers
  BY UdpAssumption DEF Threads, UdpAssumption
<1>2. stop \in BOOLEAN /\ thread \in Readers \cup {"none"} /\ restarted \in BOOLEAN
  OBVIOUS
<1>3. ASSUME NEW s \in Places, Goes(r, s), Touches(r, s), UNCHANGED <<stop, thread, restarted>>
      PROVE  Step
  BY <1>1, <1>2, <1>3 DEF Step
<1>4. ASSUME NEW s, Goes(r, s), at[r] # "none", restarted' = restarted,
             s \in {"waits", "opens"} => at[r] \in {"waits", "opens"} \/ socket = 0,
             socket' \in {socket, 0} \/ (at[r] = "opens" /\ s \notin {"waits", "opens"})
      PROVE  FirstSession'
  BY <1>1, <1>4
<1>5. CASE ReaderStops(r)
  BY <1>1, <1>3, <1>4, <1>5 DEF ReaderStops, Touches, Places
<1>6. CASE ReaderChecks(r)
  BY <1>1, <1>3, <1>4, <1>6 DEF ReaderChecks, Turns, Touches, Places
<1>7. CASE ReaderWaits(r)
  BY <1>1, <1>3, <1>4, <1>7 DEF ReaderWaits, Turns, Touches, Places
<1>8. CASE ReaderOpens(r)
  BY <1>1, <1>3, <1>4, <1>8 DEF ReaderOpens, Opens, OpenFails, Touches, Places
<1>9. CASE ReaderAnnounces(r)
  BY <1>1, <1>3, <1>4, <1>9 DEF ReaderAnnounces, TellsUp, Touches, Places
<1>10. CASE ReaderTakes(r)
  BY <1>1, <1>3, <1>4, <1>10 DEF ReaderTakes, Touches, Places
<1>11. CASE ReaderReceives(r)
  BY <1>1, <1>3, <1>4, <1>11 DEF ReaderReceives, Turns, Touches, Places
<1>12. CASE ReaderDelivers(r)
  BY <1>1, <1>3, <1>4, <1>12 DEF ReaderDelivers, Turns, Touches, Places
<1>13. CASE ReaderCloses(r)
  BY <1>1, <1>3, <1>4, <1>13 DEF ReaderCloses, Takes, Touches, Places
<1>14. CASE ReaderLoses(r)
  BY <1>1, <1>3, <1>4, <1>14 DEF ReaderLoses, TellsDown, Touches, Places
<1> QED
  BY <1>5, <1>6, <1>7, <1>8, <1>9, <1>10, <1>11, <1>12, <1>13, <1>14 DEF Reader

LEMMA WriterKeeps ==
  ASSUME Inv, WriterTakes \/ Writes
  PROVE  Step /\ FirstSession'
<1> USE DEF Inv, TypeOK, FirstSession, Goes, told
<1> DEFINE w == "writer"
<1>1. w \in Threads /\ "owner" \in Threads /\ Readers \subseteq Threads /\ w # "owner"
      /\ w \notin Readers
  BY UdpAssumption DEF Threads, UdpAssumption
<1>2. stop \in BOOLEAN /\ thread \in Readers \cup {"none"} /\ restarted \in BOOLEAN
  OBVIOUS
<1>3. ASSUME NEW s \in Places, Goes(w, s), Touches(w, s), UNCHANGED <<stop, thread, restarted>>
      PROVE  Step
  BY <1>1, <1>2, <1>3 DEF Step
<1>4. ASSUME NEW s, Goes(w, s), restarted' = restarted, socket' \in {socket, 0}
      PROVE  FirstSession'
  BY <1>1, <1>4
<1>5. CASE WriterTakes
  BY <1>1, <1>3, <1>4, <1>5 DEF WriterTakes, Touches, Places
<1>6. CASE WriterSends
  BY <1>1, <1>3, <1>4, <1>6 DEF WriterSends, Turns, Touches, Places
<1>7. CASE WriterCloses
  BY <1>1, <1>3, <1>4, <1>7 DEF WriterCloses, Takes, Touches, Places
<1>8. CASE WriterLoses
  BY <1>1, <1>3, <1>4, <1>8 DEF WriterLoses, TellsDown, Touches, Places
<1> QED  BY <1>5, <1>6, <1>7, <1>8 DEF Writes

LEMMA OwnerKeeps ==
  ASSUME Inv,
         \/ StartBegins \/ StopBegins \/ OwnerOpens \/ OwnerAnnounces \/ OwnerCloses
         \/ OwnerLoses \/ OwnerJoins
  PROVE  Step /\ FirstSession'
<1> USE DEF Inv, TypeOK, FirstSession, Goes, told
<1> DEFINE o == "owner"
<1>1. o \in Threads /\ Readers \subseteq Threads /\ o \notin Readers
  BY UdpAssumption DEF Threads, UdpAssumption
<1>2. stop \in BOOLEAN /\ thread \in Readers \cup {"none"} /\ restarted \in BOOLEAN
  OBVIOUS
<1>3. ASSUME NEW s \in Places, Goes(o, s), Touches(o, s),
             stop' \in BOOLEAN, thread' \in Readers \cup {"none"},
             restarted' \in BOOLEAN, restarted => restarted'
      PROVE  Step
  BY <1>1, <1>3 DEF Step
<1>4. CASE StartBegins
  BY <1>1, <1>2, <1>3, <1>4 DEF StartBegins, Touches, Places
<1>5. CASE StopBegins
  BY <1>1, <1>2, <1>3, <1>5 DEF StopBegins, Touches, Places
<1>6. CASE OwnerOpens
  BY <1>1, <1>2, <1>3, <1>6 DEF OwnerOpens, Opens, OpenFails, Touches, Places
<1>7. CASE OwnerAnnounces
  BY <1>1, <1>2, <1>3, <1>7 DEF OwnerAnnounces, TellsUp, Touches, Places
<1>8. CASE OwnerCloses
  BY <1>1, <1>2, <1>3, <1>8 DEF OwnerCloses, Takes, Touches, Places
<1>9. CASE OwnerLoses
  BY <1>1, <1>2, <1>3, <1>9 DEF OwnerLoses, TellsDown, Touches, Places
<1>10. CASE OwnerJoins
  BY <1>1, <1>2, <1>3, <1>10 DEF OwnerJoins, Touches, Places
<1> QED  BY <1>4, <1>5, <1>6, <1>7, <1>8, <1>9, <1>10

\* The one step that moves two threads: the owner makes a reader.
LEMMA SpawnKeeps ==
  ASSUME Inv, NEW r \in Readers, OwnerSpawns(r)
  PROVE  Inv'
<1>1. /\ "owner" \in Threads /\ Readers \subseteq Threads /\ "owner" \notin Readers
      /\ r \in Threads /\ r # "owner"
  BY UdpAssumption DEF Threads, UdpAssumption
<1>2. /\ at["owner"] = "spawns" /\ at[r] = "none"
      /\ at' = [at EXCEPT !["owner"] = "up", ![r] = "top"]
      /\ UNCHANGED <<stop, socket, opened, restarted, has, told>> /\ thread' = r
  BY DEF OwnerSpawns
<1>3. /\ at'["owner"] = "up" /\ at'[r] = "top"
      /\ \A t \in Threads \ {"owner", r} : at'[t] = at[t]
  BY <1>1, <1>2 DEF Inv, TypeOK
<1>4. LossToldOnce'
  <2>1. Quiet
    BY <1>1, <1>2, <1>3 DEF Quiet
  <2> QED  BY <2>1, QuietKeeps DEF Inv
<1>5. TypeOK'
  BY <1>1, <1>2 DEF Inv, TypeOK, told
<1>6. Numbered'
  BY <1>2, <1>3 DEF Inv, Numbered, told
<1>7. FirstSession'
  BY <1>1, <1>2, <1>3 DEF Inv, FirstSession
<1> QED  BY <1>4, <1>5, <1>6, <1>7 DEF Inv

THEOREM Inductive == Spec => []Inv
<1>1. Init => Inv
  <2> SUFFICES ASSUME Init PROVE Inv
    OBVIOUS
  <2>1. TypeOK
    <3>1. opened = 0 /\ opened \in 0 .. MaxOpens /\ socket \in 0 .. opened
      BY UdpAssumption DEF Init, UdpAssumption
    <3>2. at \in [Threads -> Places]
      BY DEF Init, Places
    <3>3. has \in [Threads -> 0 .. opened]
      BY <3>1 DEF Init
    <3>4. ups \subseteq Sockets /\ downs \in [Sockets -> 0 .. 1]
      BY DEF Init
    <3> QED  BY <3>1, <3>2, <3>3, <3>4 DEF Init, TypeOK, Places
  <2>2. Numbered
    BY DEF Init, Numbered
  <2>3. FirstSession
    BY UdpAssumption DEF Init, FirstSession, Threads, UdpAssumption
  <2>4. LossToldOnce
    BY DEF Init, LossToldOnce
  <2> QED  BY <2>1, <2>2, <2>3, <2>4 DEF Inv
<1>2. Inv /\ [Next]_vars => Inv'
  <2> SUFFICES ASSUME Inv, [Next]_vars PROVE Inv'
    OBVIOUS
  <2>1. ASSUME Step, FirstSession' PROVE Inv'
    BY <2>1, StepKeeps DEF Inv
  <2>2. CASE \E r \in Readers : Reader(r)
    BY <2>1, <2>2, ReaderKeeps
  <2>3. CASE WriterTakes \/ Writes
    BY <2>1, <2>3, WriterKeeps
  <2>4. CASE \/ StartBegins \/ StopBegins \/ OwnerOpens \/ OwnerAnnounces \/ OwnerCloses
             \/ OwnerLoses \/ OwnerJoins
    BY <2>1, <2>4, OwnerKeeps
  <2>5. CASE \E r \in Readers : OwnerSpawns(r)
    BY <2>5, SpawnKeeps
  <2>6. CASE UNCHANGED vars
    BY <2>6
    DEF vars, told, Inv, TypeOK, Numbered, FirstSession, LossToldOnce, Closing
  <2> QED  BY <2>2, <2>3, <2>4, <2>5, <2>6 DEF Next, Owns
<1> QED  BY <1>1, <1>2, PTL DEF Spec

\* Threads, sockets and the record of losses keep their type; no loss is counted twice.
THEOREM TypeCorrect == Spec => []TypeOK
<1>1. Inv => TypeOK
  BY DEF Inv
<1> QED  BY <1>1, Inductive, PTL

\* A socket's loss is told once, by one thread, whichever threads find it failed
\* (network.py, _close() and _notify_connection()), and before a restart no socket is
\* forgotten.
THEOREM LossToldOnceHolds == Spec => []LossToldOnce
<1>1. Inv => LossToldOnce
  BY DEF Inv
<1> QED  BY <1>1, Inductive, PTL
=============================================================================
