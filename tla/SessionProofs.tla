--------------------------- MODULE SessionProofs ----------------------------
(***************************************************************************)
(* Theorems about the two PBX sessions: whose reply a command gets, and    *)
(* that both clients implement SwitchCommands.                             *)
(***************************************************************************)
EXTENDS EslSession, AmiSession, FiniteSetTheorems, TLAPS

(***************************************************************************)
(* The FreeSWITCH event socket.                                            *)
(***************************************************************************)
EslClients == [loop : {"dial", "made", "handshake", "demux", "ended"}, made : 0 .. EslMaxConns,
               conn : 0 .. EslMaxConns, ready : BOOLEAN, closed : BOOLEAN, slot : SUBSET EslRequests]
EslLinks == [alive : BOOLEAN, stage : {"none", "subscribed"}, resp : SUBSET EslRequests]
EslDos == [at : {"idle", "ensure", "await", "done"}, on : 0 .. EslMaxConns, got : SUBSET EslRequests]

EslTyped ==
    /\ esl \in EslClients
    /\ eslConn \in [EslConns -> EslLinks]
    /\ eslDo \in [EslRequests -> EslDos]
    /\ DOMAIN eslWire = EslConns /\ eslWire = [g \in EslConns |-> eslWire[g]]
    /\ DOMAIN eslReply = EslConns /\ eslReply = [g \in EslConns |-> eslReply[g]]

\* Nothing is under way on a connection, or one command, at one place.
EslQuiet(g) == eslWire[g] = <<>> /\ eslReply[g] = <<>> /\ eslConn[g].resp = {}
EslCarries(g, r) ==
    \/ eslWire[g] = <<r>> /\ eslReply[g] = <<>> /\ eslConn[g].resp = {}
    \/ eslWire[g] = <<>> /\ eslReply[g] = <<r>> /\ eslConn[g].resp = {}
    \/ eslWire[g] = <<>> /\ eslReply[g] = <<>> /\ eslConn[g].resp = {r}

\* A connection carries one command at most.
EslAtMostOne == \A g \in EslConns : EslQuiet(g) \/ \E r \in EslRequests : EslCarries(g, r)

\* Who is in Do holds the slot; who waits, waits on a connection that carries
\* nothing but its command.
EslSingleFlight ==
    \A r \in EslRequests : eslDo[r].at \in {"ensure", "await"} => esl.slot = {r}
EslAwaited ==
    \A r \in EslRequests : eslDo[r].at = "await" =>
        /\ eslDo[r].on \in EslConns
        /\ EslQuiet(eslDo[r].on) \/ EslCarries(eslDo[r].on, r)

\* A connection in use carries nothing nobody waits for: who gave up took it
\* along.
EslNothingStale ==
    \A g \in EslConns : eslConn[g].alive =>
        EslQuiet(g) \/ \E r \in EslRequests : eslDo[r].at = "await" /\ eslDo[r].on = g

\* A connection to come is unused.
EslUnmade ==
    /\ esl.loop = "made" => esl.made < EslMaxConns
    /\ esl.loop \in {"handshake", "demux"} => esl.made > 0
    /\ \A g \in EslConns : g > esl.made => ~eslConn[g].alive /\ EslQuiet(g)

EslLineInv == EslAtMostOne /\ EslSingleFlight /\ EslAwaited /\ EslNothingStale /\ EslUnmade
EslInv == EslTyped /\ EslLineInv /\ EslOwnReply

LEMMA EslInitOK == EslInit => EslInv
  <1> SUFFICES ASSUME EslInit PROVE EslInv
    OBVIOUS
  <1> USE EslSessionAssumption DEF EslConns
  <1>1. EslTyped
    BY DEF EslInit, EslTyped, EslClients, EslLinks, EslDos, EslIdle
  <1>2. \A g \in EslConns : ~eslConn[g].alive /\ EslQuiet(g)
    BY DEF EslInit, EslQuiet
  <1>3. \A r \in EslRequests : eslDo[r].at = "idle" /\ eslDo[r].got = {}
    BY DEF EslInit, EslIdle
  <1>4. esl.loop = "dial"
    BY DEF EslInit
  <1> QED
    BY <1>1, <1>2, <1>3, <1>4 DEF EslInv, EslLineInv, EslAtMostOne, EslSingleFlight, EslAwaited, EslNothingStale,
       EslUnmade, EslOwnReply

\* What every step but a write keeps: a quiet connection stays quiet, a command
\* only moves on, and nobody starts to wait.
EslLinesKept ==
    /\ \A g \in EslConns : EslQuiet(g) => EslQuiet(g)'
    /\ \A g \in EslConns, r \in EslRequests : EslCarries(g, r) => EslQuiet(g)' \/ EslCarries(g, r)'

LEMMA EslSameLines ==
    ASSUME EslInv, UNCHANGED <<eslWire, eslReply>>,
           \A g \in EslConns : eslConn'[g].resp = eslConn[g].resp
    PROVE  EslLinesKept
  BY DEF EslLinesKept, EslQuiet, EslCarries

\* The part of the invariant that is about lines, from what a step did.
LEMMA EslKept ==
    ASSUME EslInv, EslLinesKept,
           \A r \in EslRequests : /\ eslDo'[r].at = "await" => eslDo[r].at = "await" /\ eslDo'[r].on = eslDo[r].on
                                  /\ eslDo'[r].at \in {"ensure", "await"} => esl'.slot = {r},
           \A g \in EslConns : eslConn'[g].alive =>
                \/ EslQuiet(g)'
                \/ /\ eslConn[g].alive
                   /\ \A r \in EslRequests : eslDo[r].at = "await" /\ eslDo[r].on = g
                                                => eslDo'[r].at = "await" /\ eslDo'[r].on = g,
           esl'.loop = "made" => esl'.made < EslMaxConns,
           esl'.loop \in {"handshake", "demux"} => esl'.made > 0,
           esl'.made >= esl.made, esl'.made \in Nat, esl.made \in Nat,
           \A g \in EslConns : g > esl'.made => ~eslConn'[g].alive
    PROVE  EslLineInv'
  <1>1. EslAtMostOne'
    BY DEF EslInv, EslLineInv, EslAtMostOne, EslLinesKept
  <1>2. EslSingleFlight'
    BY DEF EslSingleFlight
  <1>3. EslAwaited'
    <2> SUFFICES ASSUME NEW r \in EslRequests, eslDo'[r].at = "await"
                 PROVE  /\ eslDo'[r].on \in EslConns
                        /\ (EslQuiet(eslDo[r].on) \/ EslCarries(eslDo[r].on, r))'
      BY DEF EslAwaited
    <2>1. PICK g \in EslConns : g = eslDo[r].on /\ g = eslDo'[r].on /\ (EslQuiet(g) \/ EslCarries(g, r))
      BY DEF EslInv, EslLineInv, EslAwaited
    <2>2. EslQuiet(g)' \/ EslCarries(g, r)'
      BY <2>1 DEF EslLinesKept
    <2>3. (EslQuiet(eslDo[r].on) \/ EslCarries(eslDo[r].on, r))' <=> EslQuiet(g)' \/ EslCarries(g, r)'
      BY <2>1 DEF EslQuiet, EslCarries
    <2> QED
      BY <2>1, <2>2, <2>3
  <1>4. EslNothingStale'
    <2> SUFFICES ASSUME NEW g \in EslConns, eslConn'[g].alive, ~EslQuiet(g)'
                 PROVE  \E r \in EslRequests : eslDo'[r].at = "await" /\ eslDo'[r].on = g
      BY DEF EslNothingStale
    <2>1. ~EslQuiet(g) /\ eslConn[g].alive
      BY DEF EslLinesKept
    <2> QED
      BY <2>1 DEF EslInv, EslLineInv, EslNothingStale
  <1>5. EslUnmade'
    <2>1. \A g \in EslConns : g > esl'.made => EslQuiet(g)'
      BY DEF EslInv, EslLineInv, EslUnmade, EslLinesKept, EslConns
    <2> QED
      BY <2>1 DEF EslUnmade
  <1> QED
    BY <1>1, <1>2, <1>3, <1>4, <1>5 DEF EslLineInv

\* Updates of one record.
LEMMA EslMoves ==
    ASSUME NEW S, NEW T, NEW f \in [S -> T], NEW o \in S, NEW t \in T
    PROVE  /\ [f EXCEPT ![o] = t] \in [S -> T]
           /\ [f EXCEPT ![o] = t][o] = t
           /\ \A q \in S \ {o} : [f EXCEPT ![o] = t][q] = f[q]
  OBVIOUS

\* Detaching a connection changes nothing but the connection in use.
LEMMA EslDetaches ==
    ASSUME NEW e \in EslClients, NEW g
    PROVE  /\ EslDetached(e, g) \in EslClients
           /\ EslDetached(e, g).slot = e.slot /\ EslDetached(e, g).made = e.made
           /\ EslDetached(e, g).loop = e.loop
  <1>1. 0 \in 0 .. EslMaxConns
    BY EslSessionAssumption
  <1>2. [e EXCEPT !.conn = 0, !.ready = FALSE] \in EslClients
    BY <1>1 DEF EslClients
  <1>3. LET f == [e EXCEPT !.conn = 0, !.ready = FALSE]
        IN  f.slot = e.slot /\ f.made = e.made /\ f.loop = e.loop
    BY DEF EslClients
  <1> QED
    BY <1>2, <1>3 DEF EslDetached

LEMMA EslLoopKeeps == EslInv /\ EslLoop => EslInv'
  <1> SUFFICES ASSUME EslInv, EslLoop PROVE EslInv'
    OBVIOUS
  <1>t. EslTyped /\ EslLineInv /\ EslOwnReply /\ EslUnmade
    BY DEF EslInv, EslLineInv
  <1>e. esl \in EslClients /\ EslMaxConns \in Nat \ {0} /\ esl.made \in 0 .. EslMaxConns /\ eslConn \in [EslConns -> EslLinks]
    BY <1>t, EslSessionAssumption DEF EslTyped, EslClients
  <1>d. UNCHANGED <<eslDo, eslClose, eslWire>>
    BY DEF EslLoop, EslLoopEnds, EslDialed, EslRunConn, EslReady, EslConnLost, EslDemux
  <1>o. EslOwnReply'
    BY <1>t, <1>d DEF EslOwnReply
  <1>s. esl'.slot = esl.slot => \A r \in EslRequests :
           /\ eslDo'[r].at = "await" => eslDo[r].at = "await" /\ eslDo'[r].on = eslDo[r].on
           /\ eslDo'[r].at \in {"ensure", "await"} => esl'.slot = {r}
    BY <1>t, <1>d DEF EslLineInv, EslSingleFlight
  <1>1. CASE EslLoopEnds \/ EslDialed
    <2>1. esl' \in EslClients /\ UNCHANGED <<eslConn, eslReply>>
      BY <1>1, <1>e DEF EslLoopEnds, EslDialed, EslClients
    <2>2. EslTyped'
      BY <1>t, <1>d, <2>1 DEF EslTyped
    <2>3. esl'.slot = esl.slot /\ esl'.made = esl.made /\ esl'.loop \in {"ended", "made"}
          /\ (esl'.loop = "made" => esl'.made < EslMaxConns)
      BY <1>1, <1>e DEF EslLoopEnds, EslDialed, EslClients
    <2>4. EslLinesKept
      BY <1>d, <2>1, EslSameLines
    <2>5. EslLineInv'
      BY <1>t, <1>d, <1>e, <1>s, <2>1, <2>3, <2>4, EslKept DEF EslUnmade
    <2> QED
      BY <1>o, <2>2, <2>5 DEF EslInv
  <1>2. CASE EslRunConn
    <2>1. PICK g \in EslConns : g = esl.made + 1 /\ g \in 0 .. EslMaxConns /\ esl.loop = "made"
      BY <1>2, <1>t, <1>e DEF EslRunConn, EslUnmade, EslConns
    <2>2. esl' \in EslClients /\ UNCHANGED eslReply
      BY <1>2, <1>e, <2>1 DEF EslRunConn, EslClients
    <2>3. esl'.slot = esl.slot /\ esl'.made = g /\ esl'.loop \in {"dial", "handshake"}
      BY <1>2, <1>e, <2>1 DEF EslRunConn, EslClients
    <2>4. /\ eslConn' \in [EslConns -> EslLinks]
          /\ \A h \in EslConns : eslConn'[h].resp = eslConn[h].resp
          /\ \A h \in EslConns : h # g => eslConn'[h] = eslConn[h]
      <3>1. CASE esl.closed
        BY <1>2, <1>e, <3>1 DEF EslRunConn
      <3>2. CASE ~esl.closed
        <4> DEFINE t == [eslConn[g] EXCEPT !.alive = TRUE]
        <4>1. eslConn[g] \in EslLinks
          BY <1>e, <2>1
        <4>2. t \in EslLinks /\ t.resp = eslConn[g].resp
          BY <4>1 DEF EslLinks
        <4>3. eslConn' = [eslConn EXCEPT ![g] = t]
          BY <1>2, <2>1, <3>2 DEF EslRunConn
        <4> HIDE DEF t
        <4> QED
          BY <1>e, <2>1, <4>2, <4>3
      <3> QED
        BY <3>1, <3>2
    <2>5. EslTyped'
      BY <1>t, <1>d, <2>2, <2>4 DEF EslTyped
    <2>6. EslLinesKept
      BY <1>d, <2>2, <2>4, EslSameLines
    <2>7. EslQuiet(g)
      BY <1>t, <1>e, <2>1 DEF EslUnmade
    <2>8. EslQuiet(g)'
      BY <2>1, <2>6, <2>7 DEF EslLinesKept
    <2>9. \A h \in EslConns : h > esl'.made => ~eslConn'[h].alive
      BY <1>t, <1>e, <2>1, <2>3, <2>4 DEF EslUnmade, EslConns
    <2>10. EslLineInv'
      <3>1. \A h \in EslConns : eslConn'[h].alive => EslQuiet(h)' \/ eslConn[h].alive
        BY <2>4, <2>8
      <3> QED
        BY <1>t, <1>d, <1>e, <1>s, <2>1, <2>3, <2>6, <2>9, <3>1, EslKept
    <2> QED
      BY <1>o, <2>5, <2>10 DEF EslInv
  <1>a. ASSUME esl.loop \in {"handshake", "demux"} PROVE esl.made \in EslConns
    BY <1>t, <1>e, <1>a DEF EslUnmade, EslConns
  <1>3. CASE EslReady
    <2> DEFINE g == esl.made
    <2>1. g \in EslConns
      BY <1>3, <1>a DEF EslReady
    <2>2. esl' \in EslClients /\ UNCHANGED eslReply
      BY <1>3, <1>e DEF EslReady, EslClients
    <2>3. esl'.slot = esl.slot /\ esl'.made = esl.made /\ esl'.loop = "demux"
      BY <1>3, <1>e DEF EslReady, EslClients
    <2>4. /\ eslConn' \in [EslConns -> EslLinks]
          /\ \A h \in EslConns : eslConn'[h].resp = eslConn[h].resp /\ eslConn'[h].alive = eslConn[h].alive
      BY <1>3, <1>e, <2>1 DEF EslReady, EslLinks
    <2>5. EslTyped'
      BY <1>t, <1>d, <2>2, <2>4 DEF EslTyped
    <2>6. EslLinesKept
      BY <1>d, <2>2, <2>4, EslSameLines
    <2>7. EslLineInv'
      BY <1>t, <1>d, <1>e, <1>s, <2>1, <2>3, <2>4, <2>6, EslKept DEF EslUnmade, EslConns
    <2> QED
      BY <1>o, <2>5, <2>7 DEF EslInv
  <1>4. CASE EslConnLost
    <2> DEFINE g == esl.made
    <2>1. g \in EslConns
      BY <1>4, <1>a DEF EslConnLost
    <2>2. esl' \in EslClients
      BY <1>4, <1>e, EslDetaches DEF EslConnLost, EslClients
    <2>3. esl'.slot = esl.slot /\ esl'.made = esl.made /\ esl'.loop = "dial"
      BY <1>4, <1>e, EslDetaches DEF EslConnLost, EslClients
    <2>4. /\ eslConn' \in [EslConns -> EslLinks]
          /\ \A h \in EslConns : eslConn'[h].resp = eslConn[h].resp /\ (eslConn'[h].alive => eslConn[h].alive)
      BY <1>4, <1>e, <2>1 DEF EslConnLost, EslKill, EslLinks
    <2>5. /\ DOMAIN eslReply' = EslConns /\ eslReply' = [h \in EslConns |-> eslReply'[h]]
          /\ \A h \in EslConns : eslReply'[h] = eslReply[h] \/ eslReply'[h] = <<>>
      BY <1>4, <1>t, <2>1 DEF EslConnLost, EslTyped
    <2>6. EslTyped'
      BY <1>t, <1>d, <2>2, <2>4, <2>5 DEF EslTyped
    <2>7. EslLinesKept
      BY <1>d, <2>4, <2>5 DEF EslLinesKept, EslQuiet, EslCarries
    <2>8. EslLineInv'
      BY <1>t, <1>d, <1>e, <1>s, <2>1, <2>3, <2>4, <2>7, EslKept DEF EslUnmade, EslConns
    <2> QED
      BY <1>o, <2>6, <2>8 DEF EslInv
  <1>5. CASE EslDemux
    <2> DEFINE g == esl.made
    <2>1. g \in EslConns
      BY <1>5, <1>a DEF EslDemux
    <2>2. UNCHANGED esl
      BY <1>5 DEF EslDemux
    <2>3. PICK r \in EslRequests : EslCarries(g, r) /\ eslReply[g] = <<r>> /\ eslWire[g] = <<>> /\ eslConn[g].resp = {}
      BY <1>5, <1>t, <2>1 DEF EslDemux, EslLineInv, EslAtMostOne, EslQuiet, EslCarries
    <2>4. /\ eslConn' \in [EslConns -> EslLinks]
          /\ \A h \in EslConns : eslConn'[h].alive = eslConn[h].alive
          /\ \A h \in EslConns : h # g => eslConn'[h].resp = eslConn[h].resp
          /\ eslConn'[g].resp = {r}
      <3>1. Head(eslReply[g]) = r
        BY <2>3
      <3> QED
        BY <1>5, <1>e, <2>1, <2>3, <3>1 DEF EslDemux, EslLinks
    <2>5. /\ DOMAIN eslReply' = EslConns /\ eslReply' = [h \in EslConns |-> eslReply'[h]]
          /\ \A h \in EslConns : h # g => eslReply'[h] = eslReply[h]
          /\ eslReply'[g] = <<>>
      <3>1. Tail(eslReply[g]) = <<>>
        BY <2>3
      <3> QED
        BY <1>5, <1>t, <2>1, <3>1 DEF EslDemux, EslTyped
    <2>6. EslTyped'
      BY <1>t, <1>d, <2>2, <2>4, <2>5 DEF EslTyped
    <2>7. EslLinesKept
      <3>1. \A h \in EslConns, q \in EslRequests : EslCarries(h, q) =>EslCarries(h, q)' \/ h = g
        BY <1>d, <2>4, <2>5 DEF EslCarries
      <3>2. \A q \in EslRequests : EslCarries(g, q) => EslCarries(g, q)'
        <4> SUFFICES ASSUME NEW q \in EslRequests, EslCarries(g, q) PROVE EslCarries(g, q)'
          OBVIOUS
        <4>1. <<q>> = <<r>>
          BY <2>3 DEF EslCarries
        <4>2. q = r
          BY <4>1
        <4>3. g = esl'.made
          BY <2>2
        <4> QED
          BY <1>d, <2>3, <2>4, <2>5, <4>2, <4>3 DEF EslCarries
      <3>3. \A h \in EslConns : EslQuiet(h) => EslQuiet(h)'
        BY <1>d, <2>3, <2>4, <2>5 DEF EslQuiet
      <3> QED
        BY <3>1, <3>2, <3>3, <2>2 DEF EslLinesKept
    <2>8. EslLineInv'
      BY <1>t, <1>d, <1>e, <1>s, <2>1, <2>2, <2>4, <2>7, EslKept DEF EslUnmade, EslConns
    <2> QED
      BY <1>o, <2>6, <2>8 DEF EslInv
  <1> QED
    BY <1>1, <1>2, <1>3, <1>4, <1>5 DEF EslLoop

\* A request leaves Do: nobody is in it any more.
LEMMA EslLeaves ==
    ASSUME EslInv, NEW r \in EslRequests, eslDo[r].at \in {"ensure", "await"},
           NEW e \in EslClients, NEW got \in SUBSET {r}, EslLeave(r, e, got),
           e.made = esl.made, e.loop = esl.loop
    PROVE  /\ esl' \in EslClients /\ esl'.made = esl.made /\ esl'.loop = esl.loop
           /\ eslDo' \in [EslRequests -> EslDos]
           /\ \A q \in EslRequests : eslDo'[q].at \notin {"ensure", "await"}
           /\ \A q \in EslRequests : eslDo[q].at = "await" => q = r
           /\ EslOwnReply'
  <1>1. esl' \in EslClients /\ esl'.made = esl.made /\ esl'.loop = esl.loop
    BY DEF EslLeave, EslClients
  <1>2. eslDo \in [EslRequests -> EslDos] /\ EslSingleFlight /\ EslOwnReply
    BY DEF EslInv, EslTyped, EslLineInv
  <1> DEFINE t == [eslDo[r] EXCEPT !.at = "done", !.got = got]
  <1>3. eslDo[r] \in EslDos
    BY <1>2
  <1>4. t \in EslDos /\ t.at = "done" /\ t.got = got
    BY <1>3 DEF EslDos
  <1>5. eslDo' = [eslDo EXCEPT ![r] = t]
    BY DEF EslLeave
  <1> HIDE DEF t
  <1>6. /\ eslDo' \in [EslRequests -> EslDos] /\ eslDo'[r] = t
        /\ \A q \in EslRequests \ {r} : eslDo'[q] = eslDo[q]
    BY <1>2, <1>4, <1>5, EslMoves
  <1>7. \A q \in EslRequests : eslDo[q].at \in {"ensure", "await"} => q = r
    BY <1>2 DEF EslSingleFlight
  <1>8. EslOwnReply'
    BY <1>2, <1>4, <1>6 DEF EslOwnReply
  <1> QED
    BY <1>1, <1>4, <1>6, <1>7, <1>8

LEMMA EslDoKeeps ==
    ASSUME EslInv, NEW r \in EslRequests,
           \/ EslEnter(r) \/ EslWrite(r) \/ EslGetsReply(r)
           \/ EslLosesConn(r) \/ EslGivesUp(r) \/ EslUnready(r)
    PROVE  EslInv'
  <1>t. EslTyped /\ EslLineInv /\ EslOwnReply /\ EslUnmade /\ EslSingleFlight /\ EslAwaited /\ EslNothingStale /\ EslAtMostOne
    BY DEF EslInv, EslLineInv
  <1>e. /\ esl \in EslClients /\ EslMaxConns \in Nat \ {0} /\ esl.made \in 0 .. EslMaxConns
        /\ esl.conn \in 0 .. EslMaxConns /\ esl.made \in Nat
        /\ eslConn \in [EslConns -> EslLinks] /\ eslDo \in [EslRequests -> EslDos] /\ eslDo[r] \in EslDos
    BY <1>t, EslSessionAssumption DEF EslTyped, EslClients
  <1>u. /\ esl.loop = "made" => esl.made < EslMaxConns
        /\ esl.loop \in {"handshake", "demux"} => esl.made > 0
        /\ \A g \in EslConns : g > esl.made => ~eslConn[g].alive
    BY <1>t DEF EslUnmade
  <1>1. CASE EslEnter(r)
    <2>1. esl' \in EslClients /\ esl'.made = esl.made /\ esl'.loop = esl.loop /\ esl'.slot = {r}
      BY <1>1, <1>e DEF EslEnter, EslClients
    <2> DEFINE t == [eslDo[r] EXCEPT !.at = "ensure"]
    <2>2. t \in EslDos /\ t.at = "ensure" /\ t.got = eslDo[r].got
      BY <1>e DEF EslDos
    <2>3. eslDo' = [eslDo EXCEPT ![r] = t] /\ UNCHANGED <<eslConn, eslClose, eslWire, eslReply>>
      BY <1>1 DEF EslEnter
    <2> HIDE DEF t
    <2>4. /\ eslDo' \in [EslRequests -> EslDos] /\ eslDo'[r] = t
          /\ \A q \in EslRequests \ {r} : eslDo'[q] = eslDo[q]
      BY <1>e, <2>2, <2>3, EslMoves
    <2>5. \A q \in EslRequests : eslDo[q].at \notin {"ensure", "await"}
      BY <1>1, <1>t DEF EslEnter, EslSingleFlight
    <2>6. EslTyped'
      BY <1>t, <2>1, <2>3, <2>4 DEF EslTyped
    <2>7. EslOwnReply'
      BY <1>t, <2>2, <2>4 DEF EslOwnReply
    <2>8. EslLinesKept
      BY <2>3, EslSameLines
    <2>9. EslLineInv'
      BY <1>t, <1>e, <1>u, <2>1, <2>2, <2>3, <2>4, <2>5, <2>8, EslKept
    <2> QED
      BY <2>6, <2>7, <2>9 DEF EslInv
  <1>2. CASE EslWrite(r)
    <2>1. PICK g \in EslConns : g = esl.conn /\ eslConn[g].alive /\ eslDo[r].at = "ensure"
      BY <1>2, <1>e DEF EslWrite, EslConns
    <2>2. \A q \in EslRequests : eslDo[q].at \in {"ensure", "await"} => q = r
      BY <1>t, <2>1 DEF EslSingleFlight
    <2>3. EslQuiet(g)
      BY <1>t, <2>1, <2>2 DEF EslNothingStale
    <2>4. g <= esl.made
      BY <1>u, <1>e, <2>1 DEF EslConns
    <2> DEFINE t == [eslDo[r] EXCEPT !.at = "await", !.on = g]
               c == [eslConn[g] EXCEPT !.resp = {}]
    <2>5. t \in EslDos /\ t.at = "await" /\ t.on = g /\ t.got = eslDo[r].got
      <3>1. g \in 0 .. EslMaxConns
        BY <1>e DEF EslConns
      <3> QED
        BY <1>e, <3>1 DEF EslDos
    <2>6. c \in EslLinks /\ c.alive /\ c.resp = {}
      <3>1. eslConn[g] \in EslLinks
        BY <1>e
      <3> QED
        BY <2>1, <3>1 DEF EslLinks
    <2>7. /\ eslDo' = [eslDo EXCEPT ![r] = t] /\ eslConn' = [eslConn EXCEPT ![g] = c]
          /\ eslWire' = [eslWire EXCEPT ![g] = Append(@, r)]
          /\ UNCHANGED <<esl, eslClose, eslReply>>
      BY <1>2, <2>1 DEF EslWrite
    <2> HIDE DEF t, c
    <2>8. /\ eslDo' \in [EslRequests -> EslDos] /\ eslDo'[r] = t
          /\ \A q \in EslRequests \ {r} : eslDo'[q] = eslDo[q]
      BY <1>e, <2>5, <2>7, EslMoves
    <2>9. /\ eslConn' \in [EslConns -> EslLinks] /\ eslConn'[g] = c
          /\ \A h \in EslConns \ {g} : eslConn'[h] = eslConn[h]
      BY <1>e, <2>6, <2>7, EslMoves
    <2>10. /\ DOMAIN eslWire' = EslConns /\ eslWire' = [h \in EslConns |-> eslWire'[h]]
           /\ eslWire'[g] = <<r>>
           /\ \A h \in EslConns \ {g} : eslWire'[h] = eslWire[h]
      <3>1. Append(eslWire[g], r) = <<r>>
        BY <2>3 DEF EslQuiet
      <3> QED
        BY <1>t, <2>7, <3>1 DEF EslTyped
    <2>11. EslTyped'
      BY <1>t, <2>7, <2>8, <2>9, <2>10 DEF EslTyped
    <2>12. EslOwnReply'
      BY <1>t, <2>5, <2>8 DEF EslOwnReply
    <2>13. EslCarries(g, r)'
      BY <2>3, <2>6, <2>7, <2>9, <2>10 DEF EslCarries, EslQuiet
    <2>14. \A h \in EslConns \ {g} : /\ EslQuiet(h)' <=> EslQuiet(h)
                                     /\ \A q \in EslRequests : EslCarries(h, q)' <=> EslCarries(h, q)
      BY <2>7, <2>9, <2>10 DEF EslCarries, EslQuiet
    <2>15. EslAtMostOne'
      BY <1>t, <2>13, <2>14 DEF EslAtMostOne
    <2>16. EslSingleFlight'
      BY <1>t, <2>1, <2>2, <2>7, <2>8 DEF EslSingleFlight
    <2>17. EslAwaited'
      <3>1. \A q \in EslRequests : eslDo'[q].at = "await" => q = r
        BY <2>2, <2>8
      <3>2. eslDo'[r].on = g
        BY <2>5, <2>8
      <3>3. EslCarries(eslDo[r].on, r)' <=> EslCarries(g, r)'
        BY <3>2 DEF EslCarries
      <3> QED
        BY <2>13, <3>1, <3>2, <3>3 DEF EslAwaited
    <2>18. EslNothingStale'
      <3> SUFFICES ASSUME NEW h \in EslConns, eslConn'[h].alive, ~EslQuiet(h)'
                   PROVE  \E q \in EslRequests : eslDo'[q].at = "await" /\ eslDo'[q].on = h
        BY DEF EslNothingStale
      <3>1. CASE h = g
        BY <2>5, <2>8, <3>1
      <3>2. CASE h # g
        BY <1>t, <2>1, <2>2, <2>9, <2>14, <3>2 DEF EslNothingStale
      <3> QED
        BY <3>1, <3>2
    <2>19. EslUnmade'
      <3>1. \A h \in EslConns : h > esl.made => h # g
        BY <1>e, <2>4 DEF EslConns
      <3> QED
        BY <1>t, <2>7, <2>9, <2>14, <3>1 DEF EslUnmade
    <2> QED
      BY <2>11, <2>12, <2>15, <2>16, <2>17, <2>18, <2>19 DEF EslInv, EslLineInv
  <1>3. CASE EslGetsReply(r)
    <2>1. PICK g \in EslConns : g = eslDo[r].on /\ (EslQuiet(g) \/ EslCarries(g, r))
      BY <1>3, <1>t DEF EslGetsReply, EslAwaited
    <2>2. eslConn[g].resp = {r} /\ eslWire[g] = <<>> /\ eslReply[g] = <<>>
      BY <1>3, <2>1 DEF EslGetsReply, EslQuiet, EslCarries
    <2>3. EslLeave(r, esl, eslConn[g].resp) /\ eslDo[r].at = "await"
      BY <1>3, <2>1 DEF EslGetsReply
    <2>4. /\ esl' \in EslClients /\ esl'.made = esl.made /\ esl'.loop = esl.loop
          /\ eslDo' \in [EslRequests -> EslDos]
          /\ \A q \in EslRequests : eslDo'[q].at \notin {"ensure", "await"}
          /\ \A q \in EslRequests : eslDo[q].at = "await" => q = r
          /\ EslOwnReply'
      BY <1>e, <2>2, <2>3, EslLeaves
    <2> DEFINE c == [eslConn[g] EXCEPT !.resp = {}]
    <2>5. c \in EslLinks /\ c.alive = eslConn[g].alive /\ c.resp = {}
      <3>1. eslConn[g] \in EslLinks
        BY <1>e
      <3> QED
        BY <3>1 DEF EslLinks
    <2>6. eslConn' = [eslConn EXCEPT ![g] = c] /\ UNCHANGED <<eslClose, eslWire, eslReply>>
      BY <1>3, <2>1 DEF EslGetsReply
    <2> HIDE DEF c
    <2>7. /\ eslConn' \in [EslConns -> EslLinks] /\ eslConn'[g] = c
          /\ \A h \in EslConns \ {g} : eslConn'[h] = eslConn[h]
      BY <1>e, <2>5, <2>6, EslMoves
    <2>8. EslTyped'
      BY <1>t, <2>4, <2>6, <2>7 DEF EslTyped
    <2>9. EslQuiet(g)'
      BY <2>2, <2>5, <2>6, <2>7 DEF EslQuiet
    <2>10. EslLinesKept
      <3>1. \A h \in EslConns \ {g} : /\ EslQuiet(h)' <=> EslQuiet(h)
                                      /\ \A q \in EslRequests : EslCarries(h, q)' <=> EslCarries(h, q)
        BY <2>6, <2>7 DEF EslCarries, EslQuiet
      <3> QED
        BY <2>9, <3>1 DEF EslLinesKept
    <2>11. \A h \in EslConns : eslConn'[h].alive = eslConn[h].alive
      BY <2>5, <2>7
    <2>12. \A h \in EslConns : eslConn'[h].alive => EslQuiet(h)'
      <3> SUFFICES ASSUME NEW h \in EslConns, eslConn[h].alive PROVE EslQuiet(h)'
        BY <2>11
      <3>1. CASE h = g
        BY <2>9, <3>1
      <3>2. CASE h # g
        BY <1>t, <2>1, <2>4, <2>10, <3>2 DEF EslNothingStale, EslLinesKept
      <3> QED
        BY <3>1, <3>2
    <2>13. EslLineInv'
      BY <1>e, <1>u, <2>4, <2>10, <2>11, <2>12, EslKept
    <2> QED
      BY <2>4, <2>8, <2>13 DEF EslInv
  <1>4. CASE EslLosesConn(r) \/ EslGivesUp(r)
    <2>1. PICK g \in EslConns : g = eslDo[r].on /\ eslDo[r].at = "await"
      BY <1>4, <1>t DEF EslLosesConn, EslGivesUp, EslAwaited
    <2>2. PICK e \in EslClients : EslLeave(r, e, {}) /\ e.made = esl.made /\ e.loop = esl.loop
      BY <1>4, <1>e, EslDetaches DEF EslLosesConn, EslGivesUp
    <2>3. /\ esl' \in EslClients /\ esl'.made = esl.made /\ esl'.loop = esl.loop
          /\ eslDo' \in [EslRequests -> EslDos]
          /\ \A q \in EslRequests : eslDo'[q].at \notin {"ensure", "await"}
          /\ \A q \in EslRequests : eslDo[q].at = "await" => q = r
          /\ EslOwnReply'
      BY <2>1, <2>2, EslLeaves
    <2>4. /\ eslConn' \in [EslConns -> EslLinks] /\ ~eslConn'[g].alive
          /\ \A h \in EslConns : eslConn'[h].resp = eslConn[h].resp
          /\ \A h \in EslConns \ {g} : eslConn'[h] = eslConn[h]
          /\ UNCHANGED <<eslClose, eslWire, eslReply>>
      <3>1. CASE EslLosesConn(r)
        BY <1>e, <2>1, <3>1 DEF EslLosesConn
      <3>2. CASE EslGivesUp(r)
        <4> DEFINE c == [eslConn[g] EXCEPT !.alive = FALSE]
        <4>1. eslConn[g] \in EslLinks
          BY <1>e
        <4>2. c \in EslLinks /\ ~c.alive /\ c.resp = eslConn[g].resp
          BY <4>1 DEF EslLinks
        <4>3. eslConn' = [eslConn EXCEPT ![g] = c] /\ UNCHANGED <<eslClose, eslWire, eslReply>>
          BY <2>1, <3>2 DEF EslGivesUp, EslKill
        <4> HIDE DEF c
        <4>4. /\ eslConn' \in [EslConns -> EslLinks] /\ eslConn'[g] = c
              /\ \A h \in EslConns \ {g} : eslConn'[h] = eslConn[h]
          BY <1>e, <4>2, <4>3, EslMoves
        <4> QED
          BY <4>2, <4>3, <4>4
      <3> QED
        BY <1>4, <3>1, <3>2
    <2>5. EslTyped'
      BY <1>t, <2>3, <2>4 DEF EslTyped
    <2>6. EslLinesKept
      BY <2>4, EslSameLines
    <2>7. \A h \in EslConns : eslConn'[h].alive => EslQuiet(h)' /\ eslConn[h].alive
      <3> SUFFICES ASSUME NEW h \in EslConns, eslConn'[h].alive PROVE EslQuiet(h)' /\ eslConn[h].alive
        OBVIOUS
      <3>1. h # g /\ eslConn[h].alive
        BY <2>4
      <3> QED
        BY <1>t, <2>1, <2>3, <2>6, <3>1 DEF EslNothingStale, EslLinesKept
    <2>8. EslLineInv'
      BY <1>e, <1>u, <2>3, <2>6, <2>7, EslKept
    <2> QED
      BY <2>3, <2>5, <2>8 DEF EslInv
  <1>5. CASE EslUnready(r)
    <2>1. eslDo[r].at = "ensure" /\ EslLeave(r, esl, {}) /\ UNCHANGED <<eslConn, eslClose, eslWire, eslReply>>
      BY <1>5 DEF EslUnready
    <2>2. /\ esl' \in EslClients /\ esl'.made = esl.made /\ esl'.loop = esl.loop
          /\ eslDo' \in [EslRequests -> EslDos]
          /\ \A q \in EslRequests : eslDo'[q].at \notin {"ensure", "await"}
          /\ \A q \in EslRequests : eslDo[q].at = "await" => q = r
          /\ EslOwnReply'
      BY <1>e, <2>1, EslLeaves
    <2>3. EslTyped'
      BY <1>t, <2>1, <2>2 DEF EslTyped
    <2>4. EslLinesKept
      BY <2>1, EslSameLines
    <2>5. \A h \in EslConns : eslConn'[h].alive => EslQuiet(h)'
      BY <1>t, <2>1, <2>2, <2>4 DEF EslNothingStale, EslLinesKept
    <2>6. EslLineInv'
      BY <1>e, <1>u, <2>1, <2>2, <2>4, <2>5, EslKept
    <2> QED
      BY <2>2, <2>3, <2>6 DEF EslInv
  <1> QED
    BY <1>1, <1>2, <1>3, <1>4, <1>5

LEMMA EslOthersKeep ==
    ASSUME EslInv, EslClose \/ EslCloseReturns \/ \E g \in EslConns : EslSwitchAnswers(g)
    PROVE  EslInv'
  <1>t. EslTyped /\ EslLineInv /\ EslOwnReply /\ EslUnmade /\ EslSingleFlight /\ EslAtMostOne
    BY DEF EslInv, EslLineInv
  <1>e. /\ esl \in EslClients /\ EslMaxConns \in Nat \ {0} /\ esl.conn \in 0 .. EslMaxConns /\ esl.made \in Nat
        /\ eslConn \in [EslConns -> EslLinks]
    BY <1>t, EslSessionAssumption DEF EslTyped, EslClients
  <1>u. /\ esl.loop = "made" => esl.made < EslMaxConns
        /\ esl.loop \in {"handshake", "demux"} => esl.made > 0
        /\ \A g \in EslConns : g > esl.made => ~eslConn[g].alive
    BY <1>t DEF EslUnmade
  <1>d. UNCHANGED eslDo
    BY DEF EslClose, EslCloseReturns, EslSwitchAnswers
  <1>o. EslOwnReply'
    BY <1>t, <1>d DEF EslOwnReply
  <1>1. CASE EslClose
    <2>1. esl' \in EslClients /\ esl'.made = esl.made /\ esl'.loop = esl.loop /\ esl'.slot = esl.slot
      BY <1>1, <1>e DEF EslClose, EslClients
    <2>2. /\ eslConn' \in [EslConns -> EslLinks]
          /\ \A h \in EslConns : eslConn'[h].resp = eslConn[h].resp /\ (eslConn'[h].alive => eslConn[h].alive)
      <3>1. CASE esl.conn = 0
        BY <1>1, <1>e, <3>1 DEF EslClose
      <3>2. CASE esl.conn # 0
        <4>1. PICK g \in EslConns : g = esl.conn
          BY <1>e, <3>2 DEF EslConns
        <4>2. eslConn' = [eslConn EXCEPT ![g].alive = FALSE]
          BY <1>1, <3>2, <4>1 DEF EslClose, EslKill
        <4> QED
          BY <1>e, <4>1, <4>2, ZenonT(60) DEF EslLinks
      <3> QED
        BY <3>1, <3>2
    <2>3. UNCHANGED <<eslWire, eslReply>>
      BY <1>1 DEF EslClose
    <2>4. EslTyped'
      BY <1>t, <1>d, <2>1, <2>2, <2>3 DEF EslTyped
    <2>5. EslLinesKept
      BY <2>2, <2>3, EslSameLines
    <2>6. EslLineInv'
      BY <1>t, <1>e, <1>u, <1>d, <2>1, <2>2, <2>5, EslKept DEF EslSingleFlight
    <2> QED
      BY <1>o, <2>4, <2>6 DEF EslInv
  <1>2. CASE EslCloseReturns
    <2>1. UNCHANGED <<esl, eslConn, eslWire, eslReply>>
      BY <1>2 DEF EslCloseReturns
    <2>2. EslTyped'
      BY <1>t, <1>d, <2>1 DEF EslTyped
    <2>3. EslLinesKept
      BY <2>1, EslSameLines
    <2>4. EslLineInv'
      BY <1>t, <1>e, <1>u, <1>d, <2>1, <2>3, EslKept DEF EslSingleFlight
    <2> QED
      BY <1>o, <2>2, <2>4 DEF EslInv
  <1>3. ASSUME NEW g \in EslConns, EslSwitchAnswers(g) PROVE EslInv'
    <2>1. PICK r \in EslRequests : eslWire[g] = <<r>> /\ eslReply[g] = <<>> /\ eslConn[g].resp = {}
      BY <1>3, <1>t DEF EslSwitchAnswers, EslAtMostOne, EslQuiet, EslCarries
    <2>2. /\ eslWire' = [eslWire EXCEPT ![g] = <<>>]
          /\ eslReply' = [eslReply EXCEPT ![g] = IF eslConn[g].alive THEN <<r>> ELSE <<>>]
          /\ UNCHANGED <<esl, eslConn>>
      <3>1. Tail(eslWire[g]) = <<>> /\ Head(eslWire[g]) = r /\ Append(eslReply[g], r) = <<r>>
        BY <2>1
      <3> QED
        BY <1>3, <2>1, <3>1 DEF EslSwitchAnswers
    <2>3. /\ DOMAIN eslWire' = EslConns /\ eslWire' = [h \in EslConns |-> eslWire'[h]]
          /\ DOMAIN eslReply' = EslConns /\ eslReply' = [h \in EslConns |-> eslReply'[h]]
          /\ eslWire'[g] = <<>> /\ eslReply'[g] \in {<<r>>, <<>>}
          /\ \A h \in EslConns \ {g} : eslWire'[h] = eslWire[h] /\ eslReply'[h] = eslReply[h]
      BY <1>t, <2>2 DEF EslTyped
    <2>4. EslTyped'
      BY <1>t, <1>d, <2>2, <2>3 DEF EslTyped
    <2>5. EslLinesKept
      <3>1. \A h \in EslConns \ {g} : /\ EslQuiet(h)' <=> EslQuiet(h)
                                      /\ \A q \in EslRequests : EslCarries(h, q)' <=> EslCarries(h, q)
        BY <2>2, <2>3 DEF EslCarries, EslQuiet
      <3>2. ~EslQuiet(g)
        BY <2>1 DEF EslQuiet
      <3>3. \A q \in EslRequests : EslCarries(g, q) => q = r
        <4> SUFFICES ASSUME NEW q \in EslRequests, EslCarries(g, q) PROVE q = r
          OBVIOUS
        <4>1. <<q>> = <<r>>
          BY <2>1 DEF EslCarries
        <4> QED
          BY <4>1
      <3>4. EslQuiet(g)' \/ EslCarries(g, r)'
        BY <2>1, <2>2, <2>3 DEF EslQuiet, EslCarries
      <3> QED
        BY <3>1, <3>2, <3>3, <3>4 DEF EslLinesKept
    <2>6. EslLineInv'
      BY <1>t, <1>e, <1>u, <1>d, <2>2, <2>5, EslKept DEF EslSingleFlight
    <2> QED
      BY <1>o, <2>4, <2>6 DEF EslInv
  <1> QED
    BY <1>1, <1>2, <1>3

LEMMA EslStutters == EslInv /\ UNCHANGED eslVars => EslInv'
  BY DEF eslVars, EslInv, EslTyped, EslLineInv, EslAtMostOne, EslSingleFlight, EslAwaited, EslNothingStale, EslUnmade,
     EslOwnReply, EslQuiet, EslCarries

LEMMA EslInvHolds == EslInv /\ [EslNext]_eslVars => EslInv'
  BY EslLoopKeeps, EslDoKeeps, EslOthersKeep, EslStutters DEF EslNext

\* A command gets its own reply or none, although replies carry no id and a
\* caller may give up while its command is with the switch: Do lets one command
\* out, and who gives up takes the connection along.
THEOREM EslReplyOwned == EslSpec => []EslOwnReply
  <1>1. EslInv => EslOwnReply
    BY DEF EslInv
  <1> QED
    BY <1>1, EslInitOK, EslInvHolds, PTL DEF EslSpec

(***************************************************************************)
(* The Asterisk management interface.                                      *)
(***************************************************************************)
AmiClients == [at : {"dial", "install", "handshake", "serve", "ended"}, sess : 0 .. AmiMaxSessions,
               lastErr : {"none", "auth", "other"},
               phase : [AmiSessions -> {"none", "open", "ready", "dead"}],
               pending : [AmiSessions -> SUBSET AmiRequests]]
AmiCalls == [at : {"idle", "call", "wait", "done"}, on : 0 .. AmiMaxSessions,
             reply : {"none", "ok", "refused"}, outcome : {"none", "ok", "refused", "auth", "failed"}]
AmiAnswers == [id : AmiRequests, verdict : {"ok", "refused"}]

AmiTyped ==
    /\ ami \in AmiClients
    /\ amiCall \in [AmiRequests -> AmiCalls]
    /\ amiWire \in [AmiSessions -> SUBSET AmiRequests]
    /\ amiReplies \in [AmiSessions -> SUBSET AmiAnswers]
    /\ amiRan \in [AmiRequests -> SUBSET AmiSessions]

\* Sessions are dialled in order, and a session to come is unused.
AmiNumbered(c) ==
    \E k \in 0 .. AmiMaxSessions :
        /\ \A n \in AmiSessions : c.phase[n] # "none" <=> n <= k
        /\ c.at = "install" => k < AmiMaxSessions

\* The session the supervisor serves was dialled.
AmiCurrent(c) ==
    /\ c.at \in {"handshake", "serve"} => c.sess # 0
    /\ c.sess # 0 => c.phase[c.sess] # "none"

\* A waiter is registered only on the session its request waits on.
AmiRegistered ==
    \A n \in AmiSessions : \A r \in ami.pending[n] :
        amiCall[r].at = "wait" /\ amiCall[r].on = n /\ ami.phase[n] # "dead"

\* A request waits on a session that was dialled, and starts every attempt
\* without a reply.
AmiAttempts ==
    \A r \in AmiRequests :
        /\ amiCall[r].at = "wait" => amiCall[r].on \in AmiSessions /\ ami.phase[amiCall[r].on] # "none"
        /\ amiCall[r].at \in {"idle", "call"} => amiCall[r].reply = "none"

\* A reply on its way says what the PBX did with the action.
AmiHonest ==
    \A n \in AmiSessions : \A p \in amiReplies[n] : p.verdict = "ok" => n \in amiRan[p.id]

AmiInv ==
    /\ AmiTyped /\ AmiNumbered(ami) /\ AmiCurrent(ami) /\ AmiRegistered /\ AmiAttempts /\ AmiHonest
    /\ AmiRepliesReach

LEMMA AmiInitOK == AmiInit => AmiInv
  <1> SUFFICES ASSUME AmiInit PROVE AmiInv
    OBVIOUS
  <1>1. 0 \in 0 .. AmiMaxSessions /\ 0 < AmiMaxSessions /\ AmiSessions \subseteq Nat /\ \A n \in AmiSessions : ~(n <= 0)
    BY AmiSessionAssumption DEF AmiSessions
  <1>2. AmiTyped
    BY <1>1 DEF AmiInit, AmiTyped, AmiClients, AmiCalls, AmiIdleCall
  <1>3. AmiNumbered(ami)
    BY <1>1 DEF AmiInit, AmiNumbered
  <1>4. AmiCurrent(ami)
    BY <1>1 DEF AmiInit, AmiCurrent
  <1>5. AmiRegistered /\ AmiHonest
    BY DEF AmiInit, AmiRegistered, AmiHonest
  <1>6. AmiAttempts /\ AmiRepliesReach
    BY DEF AmiInit, AmiIdleCall, AmiAttempts, AmiRepliesReach, AmiWaiterHeard, AmiReplyTruthful
  <1> QED
    BY <1>2, <1>3, <1>4, <1>5, <1>6 DEF AmiInv

\* A step that at most ends sessions and loses replies keeps the invariant.
LEMMA AmiEnding ==
    ASSUME AmiInv, UNCHANGED <<amiCall, amiWire, amiRan>>, ami' \in AmiClients,
           amiReplies' \in [AmiSessions -> SUBSET AmiAnswers],
           \A n \in AmiSessions : amiReplies'[n] \subseteq amiReplies[n],
           \A n \in AmiSessions :
              \/ ami'.phase[n] = ami.phase[n] /\ ami'.pending[n] = ami.pending[n]
              \/ ami.phase[n] # "none" /\ ami'.phase[n] = "dead" /\ ami'.pending[n] = {},
           AmiNumbered(ami'), AmiCurrent(ami')
    PROVE  AmiInv'
  <1>1. AmiTyped'
    BY DEF AmiInv, AmiTyped
  <1>2. AmiRegistered'
    BY DEF AmiInv, AmiRegistered
  <1>3. AmiAttempts'
    BY DEF AmiInv, AmiAttempts
  <1>4. AmiHonest'
    BY DEF AmiInv, AmiHonest
  <1>5. AmiWaiterHeard'
    BY DEF AmiInv, AmiRepliesReach, AmiWaiterHeard, AmiAttempts
  <1>6. AmiReplyTruthful'
    BY DEF AmiInv, AmiRepliesReach, AmiReplyTruthful
  <1> QED
    BY <1>1, <1>2, <1>3, <1>4, <1>5, <1>6 DEF AmiInv, AmiRepliesReach

\* die: the session is dead and its waiters are gone.
LEMMA AmiDies ==
    ASSUME NEW c \in AmiClients, NEW n \in AmiSessions, c.phase[n] = "dead" => c.pending[n] = {}
    PROVE  /\ AmiDie(c, n) \in AmiClients
           /\ AmiDie(c, n).at = c.at /\ AmiDie(c, n).sess = c.sess /\ AmiDie(c, n).lastErr = c.lastErr
           /\ AmiDie(c, n).phase[n] = "dead" /\ AmiDie(c, n).pending[n] = {}
           /\ \A m \in AmiSessions \ {n} : /\ AmiDie(c, n).phase[m] = c.phase[m]
                                           /\ AmiDie(c, n).pending[m] = c.pending[m]
  <1>1. CASE c.phase[n] = "dead"
    BY <1>1 DEF AmiDie
  <1>2. CASE c.phase[n] # "dead"
    <2> DEFINE p == [c.phase EXCEPT ![n] = "dead"]
               w == [c.pending EXCEPT ![n] = {}]
    <2>1. /\ p \in [AmiSessions -> {"none", "open", "ready", "dead"}] /\ p[n] = "dead"
          /\ \A m \in AmiSessions \ {n} : p[m] = c.phase[m]
      BY DEF AmiClients
    <2>2. /\ w \in [AmiSessions -> SUBSET AmiRequests] /\ w[n] = {}
          /\ \A m \in AmiSessions \ {n} : w[m] = c.pending[m]
      BY DEF AmiClients
    <2>3. AmiDie(c, n) = [c EXCEPT !.phase = p, !.pending = w]
      BY <1>2 DEF AmiDie
    <2> HIDE DEF p, w
    <2>4. AmiDie(c, n) \in AmiClients
      BY <2>1, <2>2, <2>3 DEF AmiClients
    <2>5. /\ AmiDie(c, n).at = c.at /\ AmiDie(c, n).sess = c.sess /\ AmiDie(c, n).lastErr = c.lastErr
          /\ AmiDie(c, n).phase = p /\ AmiDie(c, n).pending = w
      BY <2>3 DEF AmiClients
    <2> QED
      BY <2>1, <2>2, <2>4, <2>5
  <1> QED
    BY <1>1, <1>2

\* The numbering only depends on which sessions were dialled.
LEMMA AmiSameNumbers ==
    ASSUME AmiNumbered(ami), NEW c, c.at # "install",
           \A n \in AmiSessions : c.phase[n] # "none" <=> ami.phase[n] # "none"
    PROVE  AmiNumbered(c)
  BY DEF AmiNumbered

\* The end of dialAndServe.
LEMMA AmiEnds ==
    ASSUME AmiInv, ami.at \in {"handshake", "serve"}, NEW err \in {"auth", "other"}, ami' = AmiSessionEnds(err)
    PROVE  /\ ami' \in AmiClients
           /\ \A n \in AmiSessions :
                \/ ami'.phase[n] = ami.phase[n] /\ ami'.pending[n] = ami.pending[n]
                \/ ami.phase[n] # "none" /\ ami'.phase[n] = "dead" /\ ami'.pending[n] = {}
           /\ AmiNumbered(ami') /\ AmiCurrent(ami')
  <1>1. PICK n \in AmiSessions : n = ami.sess /\ ami.phase[n] # "none" /\ ami \in AmiClients
    <2>1. ami \in AmiClients /\ ami.sess \in AmiSessions
      BY AmiSessionAssumption DEF AmiInv, AmiCurrent, AmiTyped, AmiClients, AmiSessions
    <2>2. ami.phase[ami.sess] # "none"
      BY DEF AmiInv, AmiCurrent
    <2> QED
      BY <2>1, <2>2
  <1>2. ami.phase[n] = "dead" => ami.pending[n] = {}
    BY DEF AmiInv, AmiRegistered
  <1> DEFINE d == AmiDie(ami, n)
  <1>3. /\ d \in AmiClients /\ d.phase[n] = "dead" /\ d.pending[n] = {}
        /\ \A m \in AmiSessions \ {n} : d.phase[m] = ami.phase[m] /\ d.pending[m] = ami.pending[m]
    BY <1>1, <1>2, AmiDies
  <1>4. ami' = [AmiReconnect(d, err) EXCEPT !.sess = 0]
    BY <1>1 DEF AmiSessionEnds
  <1> HIDE DEF d
  <1> DEFINE e == AmiReconnect(d, err)
  <1>5. e \in AmiClients /\ e.phase = d.phase /\ e.pending = d.pending /\ e.at \in {"ended", "dial"}
    BY <1>3 DEF AmiReconnect, AmiClients
  <1> HIDE DEF e
  <1>6. ami' = [e EXCEPT !.sess = 0]
    BY <1>4 DEF e
  <1>7. 0 \in 0 .. AmiMaxSessions
    BY AmiSessionAssumption
  <1>8. ami' \in AmiClients /\ ami'.phase = d.phase /\ ami'.pending = d.pending /\ ami'.at \in {"ended", "dial"}
        /\ ami'.sess = 0
    BY <1>5, <1>6, <1>7 DEF AmiClients
  <1>9. AmiCurrent(ami')
    BY <1>8 DEF AmiCurrent
  <1>10. AmiNumbered(ami')
    <2>1. \A m \in AmiSessions : ami'.phase[m] # "none" <=> ami.phase[m] # "none"
      BY <1>1, <1>3, <1>8
    <2>2. ami'.at # "install" /\ AmiNumbered(ami)
      BY <1>8 DEF AmiInv
    <2> QED
      BY <2>1, <2>2, AmiSameNumbers
  <1> QED
    BY <1>1, <1>3, <1>8, <1>9, <1>10

LEMMA AmiSupervisorKeeps == AmiInv /\ AmiSupervisor => AmiInv'
  <1> SUFFICES ASSUME AmiInv, AmiSupervisor PROVE AmiInv'
    OBVIOUS
  <1>t. /\ AmiTyped /\ AmiNumbered(ami) /\ AmiCurrent(ami) /\ AmiRegistered /\ AmiAttempts /\ AmiHonest
        /\ AmiWaiterHeard /\ AmiReplyTruthful
    BY DEF AmiInv, AmiRepliesReach
  <1>e. ami \in AmiClients /\ AmiMaxSessions \in Nat \ {0} /\ ami.sess \in 0 .. AmiMaxSessions
        /\ amiReplies \in [AmiSessions -> SUBSET AmiAnswers] /\ amiCall \in [AmiRequests -> AmiCalls]
    BY <1>t, AmiSessionAssumption DEF AmiTyped, AmiClients
  <1>s. ami.at \in {"handshake", "serve"} => ami.sess \in AmiSessions
    BY <1>t, <1>e DEF AmiCurrent, AmiSessions
  <1>1. CASE AmiDialFails \/ AmiSuperviseEnds
    <2>1. /\ ami' \in AmiClients /\ ami'.phase = ami.phase /\ ami'.pending = ami.pending /\ ami'.sess = ami.sess
          /\ ami'.at \in {"dial", "ended"} /\ UNCHANGED <<amiCall, amiWire, amiReplies, amiRan>>
      BY <1>1, <1>e, ZenonT(60) DEF AmiDialFails, AmiSuperviseEnds, AmiReconnect, AmiClients
    <2>2. AmiCurrent(ami')
      BY <1>t, <2>1 DEF AmiCurrent
    <2>3. AmiNumbered(ami')
      BY <1>t, <2>1 DEF AmiNumbered
    <2> QED
      BY <1>e, <2>1, <2>2, <2>3, AmiEnding
  <1>2. CASE AmiDialed
    <2>1. /\ ami' \in AmiClients /\ ami'.phase = ami.phase /\ ami'.pending = ami.pending /\ ami'.sess = ami.sess
          /\ ami'.at = "install" /\ UNCHANGED <<amiCall, amiWire, amiReplies, amiRan>>
      BY <1>2, <1>e DEF AmiDialed, AmiClients
    <2>2. AmiCurrent(ami')
      BY <1>t, <2>1 DEF AmiCurrent
    <2>3. PICK k \in 0 .. AmiMaxSessions : \A n \in AmiSessions : ami.phase[n] # "none" <=> n <= k
      BY <1>t DEF AmiNumbered
    <2>4. AmiDialled = 1 .. k
      BY <1>e, <2>3 DEF AmiDialled, AmiSessions
    <2>5. Cardinality(AmiDialled) = k
      BY <1>e, <2>4, FS_Interval
    <2>6. AmiNumbered(ami')
      BY <1>2, <2>1, <2>3, <2>5 DEF AmiDialed, AmiNumbered
    <2> QED
      BY <1>e, <2>1, <2>2, <2>6, AmiEnding
  <1>3. CASE AmiInstall
    <2>1. PICK k \in 0 .. AmiMaxSessions : /\ \A n \in AmiSessions : ami.phase[n] # "none" <=> n <= k
                                           /\ k < AmiMaxSessions
      BY <1>3, <1>t DEF AmiNumbered, AmiInstall
    <2>2. AmiDialled = 1 .. k
      BY <1>e, <2>1 DEF AmiDialled, AmiSessions
    <2>3. Cardinality(AmiDialled) = k
      BY <1>e, <2>2, FS_Interval
    <2>4. PICK n \in AmiSessions : n = k + 1 /\ n \in 0 .. AmiMaxSessions /\ n # 0
      BY <1>e, <2>1 DEF AmiSessions
    <2> DEFINE p == [ami.phase EXCEPT ![n] = "open"]
    <2>5. /\ p \in [AmiSessions -> {"none", "open", "ready", "dead"}] /\ p[n] = "open"
          /\ \A m \in AmiSessions \ {n} : p[m] = ami.phase[m]
      BY <1>e DEF AmiClients
    <2>6. ami' = [ami EXCEPT !.at = "handshake", !.sess = n, !.phase = p]
      BY <1>3, <2>3, <2>4 DEF AmiInstall
    <2> HIDE DEF p
    <2>7. ami' \in AmiClients /\ ami'.phase = p /\ ami'.pending = ami.pending /\ ami'.sess = n /\ ami'.at = "handshake"
      BY <1>e, <2>4, <2>5, <2>6 DEF AmiClients
    <2>8. UNCHANGED <<amiCall, amiWire, amiReplies, amiRan>>
      BY <1>3 DEF AmiInstall
    <2>9. AmiTyped'
      BY <1>t, <2>7, <2>8 DEF AmiTyped
    <2>10. AmiNumbered(ami')
      <3>1. \A m \in AmiSessions : p[m] # "none" <=> m <= k + 1
        BY <1>e, <2>1, <2>4, <2>5 DEF AmiSessions
      <3>2. k + 1 \in 0 .. AmiMaxSessions
        BY <1>e, <2>1
      <3> QED
        BY <2>7, <3>1, <3>2 DEF AmiNumbered
    <2>11. AmiCurrent(ami')
      BY <2>4, <2>5, <2>7 DEF AmiCurrent
    <2>12. ami.phase[n] = "none"
      BY <1>e, <2>1, <2>4 DEF AmiSessions
    <2>13. AmiRegistered'
      BY <1>t, <2>5, <2>7, <2>8, <2>12 DEF AmiRegistered
    <2>14. AmiAttempts'
      BY <1>t, <2>5, <2>7, <2>8 DEF AmiAttempts
    <2>15. AmiHonest' /\ AmiReplyTruthful'
      BY <1>t, <2>8 DEF AmiHonest, AmiReplyTruthful
    <2>16. AmiWaiterHeard'
      BY <1>t, <2>5, <2>7, <2>8, <2>12 DEF AmiWaiterHeard, AmiAttempts
    <2> QED
      BY <2>9, <2>10, <2>11, <2>13, <2>14, <2>15, <2>16 DEF AmiInv, AmiRepliesReach
  <1>4. CASE AmiLogsIn
    <2>1. PICK n \in AmiSessions : n = ami.sess /\ ami.phase[n] = "open" /\ n # 0
      BY <1>4, <1>s, <1>e DEF AmiLogsIn, AmiSessions
    <2> DEFINE p == [ami.phase EXCEPT ![n] = "ready"]
    <2>2. /\ p \in [AmiSessions -> {"none", "open", "ready", "dead"}] /\ p[n] = "ready"
          /\ \A m \in AmiSessions \ {n} : p[m] = ami.phase[m]
      BY <1>e DEF AmiClients
    <2>3. ami' = [ami EXCEPT !.at = "serve", !.phase = p, !.lastErr = "none"]
      BY <1>4, <2>1 DEF AmiLogsIn
    <2> HIDE DEF p
    <2>4. ami' \in AmiClients /\ ami'.phase = p /\ ami'.pending = ami.pending /\ ami'.sess = n /\ ami'.at = "serve"
      BY <1>e, <2>1, <2>2, <2>3 DEF AmiClients
    <2>5. UNCHANGED <<amiCall, amiWire, amiReplies, amiRan>>
      BY <1>4 DEF AmiLogsIn
    <2>6. AmiTyped'
      BY <1>t, <2>4, <2>5 DEF AmiTyped
    <2>7. AmiNumbered(ami')
      <3>1. ami'.at # "install" /\ \A m \in AmiSessions : ami'.phase[m] # "none" <=> ami.phase[m] # "none"
        BY <2>1, <2>2, <2>4
      <3> QED
        BY <1>t, <3>1, AmiSameNumbers
    <2>8. AmiCurrent(ami')
      BY <2>1, <2>2, <2>4 DEF AmiCurrent
    <2>9. AmiRegistered'
      BY <1>t, <2>2, <2>4, <2>5 DEF AmiRegistered
    <2>10. AmiAttempts'
      BY <1>t, <2>2, <2>4, <2>5 DEF AmiAttempts
    <2>11. AmiHonest' /\ AmiReplyTruthful'
      BY <1>t, <2>5 DEF AmiHonest, AmiReplyTruthful
    <2>12. AmiWaiterHeard'
      BY <1>t, <2>1, <2>2, <2>4, <2>5 DEF AmiWaiterHeard, AmiAttempts
    <2> QED
      BY <2>6, <2>7, <2>8, <2>9, <2>10, <2>11, <2>12 DEF AmiInv, AmiRepliesReach
  <1>5. ASSUME NEW err \in {"auth", "other"}, AmiLoginFails(err) PROVE AmiInv'
    <2>1. ami.at \in {"handshake", "serve"} /\ ami' = AmiSessionEnds(err)
          /\ UNCHANGED <<amiCall, amiWire, amiReplies, amiRan>>
      BY <1>5 DEF AmiLoginFails
    <2> QED
      BY <1>e, <2>1, AmiEnds, AmiEnding
  <1>6. CASE AmiReadFails
    <2>1. ami.at \in {"handshake", "serve"} /\ ami' = AmiSessionEnds("other")
          /\ UNCHANGED <<amiCall, amiWire, amiRan>>
          /\ amiReplies' = [amiReplies EXCEPT ![ami.sess] = {}]
      BY <1>6 DEF AmiReadFails
    <2>2. /\ amiReplies' \in [AmiSessions -> SUBSET AmiAnswers]
          /\ \A n \in AmiSessions : amiReplies'[n] \subseteq amiReplies[n]
      BY <1>e, <1>s, <2>1
    <2> QED
      BY <2>1, <2>2, AmiEnds, AmiEnding
  <1>7. CASE AmiReadReply
    <2>1. PICK n \in AmiSessions : n = ami.sess
      BY <1>7, <1>s DEF AmiReadReply
    <2>2. PICK p \in amiReplies[n] :
            /\ amiReplies' = [amiReplies EXCEPT ![n] = @ \ {p}]
            /\ IF p.id \in ami.pending[n]
               THEN /\ ami' = [ami EXCEPT !.pending[n] = @ \ {p.id}]
                    /\ amiCall' = [amiCall EXCEPT ![p.id].reply = p.verdict]
               ELSE UNCHANGED <<ami, amiCall>>
      BY <1>7, <2>1 DEF AmiReadReply
    <2>3. UNCHANGED <<amiWire, amiRan>>
      BY <1>7 DEF AmiReadReply
    <2>4. /\ amiReplies' \in [AmiSessions -> SUBSET AmiAnswers]
          /\ \A m \in AmiSessions : amiReplies'[m] \subseteq amiReplies[m]
      BY <1>e, <2>2
    <2>5. p \in AmiAnswers
      BY <1>e
    <2>6. CASE p.id \notin ami.pending[n]
      BY <1>e, <1>t, <2>2, <2>3, <2>4, <2>6, AmiEnding
    <2>7. CASE p.id \in ami.pending[n]
      <3>1. PICK r \in AmiRequests, v \in {"ok", "refused"} : r = p.id /\ v = p.verdict
        BY <2>5 DEF AmiAnswers
      <3> DEFINE w == [ami.pending EXCEPT ![n] = @ \ {r}]
                 t == [amiCall[r] EXCEPT !.reply = v]
      <3>2. /\ w \in [AmiSessions -> SUBSET AmiRequests] /\ w[n] = ami.pending[n] \ {r}
            /\ \A m \in AmiSessions \ {n} : w[m] = ami.pending[m]
        BY <1>e DEF AmiClients
      <3>3. ami' = [ami EXCEPT !.pending = w] /\ amiCall' = [amiCall EXCEPT ![r] = t]
        BY <2>2, <2>7, <3>1
      <3>4. amiCall[r] \in AmiCalls
        BY <1>e
      <3>5. t \in AmiCalls /\ t.reply = v /\ t.at = amiCall[r].at /\ t.on = amiCall[r].on
        BY <3>4 DEF AmiCalls
      <3> HIDE DEF w, t
      <3>6. /\ ami' \in AmiClients /\ ami'.at = ami.at /\ ami'.sess = ami.sess /\ ami'.phase = ami.phase
            /\ ami'.pending = w
        BY <1>e, <3>2, <3>3 DEF AmiClients
      <3>7. /\ amiCall' \in [AmiRequests -> AmiCalls] /\ amiCall'[r] = t
            /\ \A q \in AmiRequests \ {r} : amiCall'[q] = amiCall[q]
        BY <1>e, <3>3, <3>5
      <3>8. amiCall[r].at = "wait" /\ amiCall[r].on = n
        BY <1>t, <2>7, <3>1 DEF AmiRegistered
      <3>9. v = "ok" => n \in amiRan[r]
        BY <1>t, <3>1 DEF AmiHonest
      <3>10. AmiTyped'
        BY <1>t, <2>3, <2>4, <3>6, <3>7 DEF AmiTyped
      <3>11. AmiNumbered(ami')
        BY <1>t, <3>6 DEF AmiNumbered
      <3>12. AmiCurrent(ami')
        BY <1>t, <3>6 DEF AmiCurrent
      <3>13. AmiRegistered'
        <4> SUFFICES ASSUME NEW m \in AmiSessions, NEW q \in ami'.pending[m]
                     PROVE  amiCall'[q].at = "wait" /\ amiCall'[q].on = m /\ ami'.phase[m] # "dead"
          BY DEF AmiRegistered
        <4>1. q \in ami.pending[m] /\ q \in AmiRequests
          BY <1>e, <3>2, <3>6 DEF AmiClients
        <4> QED
          BY <1>t, <3>5, <3>6, <3>7, <4>1 DEF AmiRegistered
      <3>14. AmiAttempts'
        BY <1>t, <3>5, <3>6, <3>7, <3>8 DEF AmiAttempts
      <3>15. AmiHonest'
        BY <1>t, <2>3, <2>4 DEF AmiHonest
      <3>16. AmiReplyTruthful'
        BY <1>t, <2>3, <3>5, <3>7, <3>8, <3>9 DEF AmiReplyTruthful
      <3>17. AmiWaiterHeard'
        <4> SUFFICES ASSUME NEW q \in AmiRequests, amiCall'[q].at = "wait", ami'.phase[amiCall'[q].on] # "dead"
                     PROVE  amiCall'[q].reply # "none" \/ q \in ami'.pending[amiCall'[q].on]
          BY DEF AmiWaiterHeard
        <4>1. CASE q = r
          BY <3>5, <3>7, <4>1
        <4>2. CASE q # r
          BY <1>t, <3>2, <3>6, <3>7, <4>2 DEF AmiWaiterHeard, AmiAttempts
        <4> QED
          BY <4>1, <4>2
      <3> QED
        BY <3>10, <3>11, <3>12, <3>13, <3>14, <3>15, <3>16, <3>17 DEF AmiInv, AmiRepliesReach
    <2> QED
      BY <2>6, <2>7
  <1>8. CASE AmiPingFails
    <2>1. PICK n \in AmiSessions : n = ami.sess /\ ami.phase[n] = "ready"
      BY <1>8, <1>s DEF AmiPingFails
    <2>2. ami' = AmiDie(ami, n) /\ UNCHANGED <<amiCall, amiWire, amiReplies, amiRan>> /\ ami.at = "serve"
      BY <1>8, <2>1 DEF AmiPingFails
    <2>3. /\ ami' \in AmiClients
          /\ ami'.at = ami.at /\ ami'.sess = ami.sess
          /\ ami'.phase[n] = "dead" /\ ami'.pending[n] = {}
          /\ \A m \in AmiSessions \ {n} : ami'.phase[m] = ami.phase[m] /\ ami'.pending[m] = ami.pending[m]
      BY <1>e, <2>1, <2>2, AmiDies
    <2>4. AmiNumbered(ami')
      BY <1>t, <2>1, <2>2, <2>3, AmiSameNumbers
    <2>5. AmiCurrent(ami')
      BY <1>t, <2>1, <2>3 DEF AmiCurrent
    <2> QED
      BY <1>e, <2>1, <2>2, <2>3, <2>4, <2>5, AmiEnding
  <1> QED
    BY <1>1, <1>2, <1>3, <1>4, <1>5, <1>6, <1>7, <1>8 DEF AmiSupervisor

\* Changing one request, with the session's waiters or without.
LEMMA AmiMoves ==
    ASSUME NEW f \in [AmiRequests -> AmiCalls], NEW r \in AmiRequests, NEW t \in AmiCalls
    PROVE  /\ [f EXCEPT ![r] = t] \in [AmiRequests -> AmiCalls] /\ [f EXCEPT ![r] = t][r] = t
           /\ \A q \in AmiRequests \ {r} : [f EXCEPT ![r] = t][q] = f[q]
  OBVIOUS

LEMMA AmiWaiters ==
    ASSUME NEW c \in AmiClients, NEW n \in AmiSessions, NEW W \in SUBSET AmiRequests
    PROVE  LET d == [c EXCEPT !.pending[n] = W]
           IN  /\ d \in AmiClients /\ d.at = c.at /\ d.sess = c.sess /\ d.phase = c.phase
               /\ d.pending[n] = W /\ \A m \in AmiSessions \ {n} : d.pending[m] = c.pending[m]
  <1> DEFINE w == [c.pending EXCEPT ![n] = W]
             d == [c EXCEPT !.pending = w]
  <1>1. /\ w \in [AmiSessions -> SUBSET AmiRequests] /\ w[n] = W
        /\ \A m \in AmiSessions \ {n} : w[m] = c.pending[m]
    BY DEF AmiClients
  <1> HIDE DEF w
  <1>2. /\ d \in AmiClients /\ d.at = c.at /\ d.sess = c.sess /\ d.phase = c.phase /\ d.pending = w
    BY <1>1 DEF AmiClients
  <1>3. d = [c EXCEPT !.pending[n] = W]
    BY DEF w
  <1> QED
    BY <1>1, <1>2, <1>3

\* A request leaves its waiter behind nowhere: who does not wait is not
\* registered.
LEMMA AmiDismissed ==
    ASSUME AmiInv, NEW r \in AmiRequests, NEW t \in AmiCalls, amiCall' = [amiCall EXCEPT ![r] = t],
           t.at # "wait", t.on = amiCall[r].on, t.reply \in {amiCall[r].reply, "none"},
           t.at \in {"idle", "call"} => t.reply = "none",
           UNCHANGED <<amiWire, amiReplies, amiRan>>, ami' \in AmiClients,
           ami'.at = ami.at, ami'.sess = ami.sess, ami'.phase = ami.phase,
           \A m \in AmiSessions : /\ ami'.pending[m] \subseteq ami.pending[m]
                                  /\ ami.pending[m] \ {r} \subseteq ami'.pending[m]
                                  /\ r \notin ami'.pending[m]
    PROVE  AmiInv'
  <1>t. /\ AmiTyped /\ AmiNumbered(ami) /\ AmiCurrent(ami) /\ AmiRegistered /\ AmiAttempts /\ AmiHonest
        /\ AmiWaiterHeard /\ AmiReplyTruthful
    BY DEF AmiInv, AmiRepliesReach
  <1>e. amiCall \in [AmiRequests -> AmiCalls] /\ ami \in AmiClients
    BY <1>t DEF AmiTyped
  <1>1. /\ amiCall' \in [AmiRequests -> AmiCalls] /\ amiCall'[r] = t
        /\ \A q \in AmiRequests \ {r} : amiCall'[q] = amiCall[q]
    BY <1>e, AmiMoves
  <1>2. AmiTyped'
    BY <1>t, <1>1 DEF AmiTyped
  <1>3. AmiNumbered(ami')
    BY <1>t DEF AmiNumbered
  <1>4. AmiCurrent(ami')
    BY <1>t DEF AmiCurrent
  <1>5. AmiRegistered'
    <2> SUFFICES ASSUME NEW m \in AmiSessions, NEW q \in ami'.pending[m]
                 PROVE  amiCall'[q].at = "wait" /\ amiCall'[q].on = m /\ ami'.phase[m] # "dead"
      BY DEF AmiRegistered
    <2>1. q \in ami.pending[m] /\ q \in AmiRequests /\ q # r
      BY <1>e DEF AmiClients
    <2> QED
      BY <1>t, <1>1, <2>1 DEF AmiRegistered
  <1>6. AmiAttempts'
    BY <1>t, <1>1 DEF AmiAttempts
  <1>7. AmiHonest'
    BY <1>t DEF AmiHonest
  <1>8. AmiReplyTruthful'
    BY <1>t, <1>1 DEF AmiReplyTruthful
  <1>9. AmiWaiterHeard'
    <2> SUFFICES ASSUME NEW q \in AmiRequests, amiCall'[q].at = "wait", ami'.phase[amiCall'[q].on] # "dead"
                 PROVE  amiCall'[q].reply # "none" \/ q \in ami'.pending[amiCall'[q].on]
      BY DEF AmiWaiterHeard
    <2>1. q # r /\ amiCall'[q] = amiCall[q]
      BY <1>1
    <2> QED
      BY <1>t, <2>1 DEF AmiWaiterHeard, AmiAttempts
  <1> QED
    BY <1>2, <1>3, <1>4, <1>5, <1>6, <1>7, <1>8, <1>9 DEF AmiInv, AmiRepliesReach

LEMMA AmiCallKeeps ==
    ASSUME AmiInv, NEW r \in AmiRequests,
           AmiCall(r) \/ AmiDoAction(r) \/ AmiRetry(r) \/ AmiReturns(r) \/ AmiGivesUp(r)
    PROVE  AmiInv'
  <1>t. /\ AmiTyped /\ AmiNumbered(ami) /\ AmiCurrent(ami) /\ AmiRegistered /\ AmiAttempts /\ AmiHonest
        /\ AmiWaiterHeard /\ AmiReplyTruthful
    BY DEF AmiInv, AmiRepliesReach
  <1>e. ami \in AmiClients /\ AmiMaxSessions \in Nat \ {0} /\ ami.sess \in 0 .. AmiMaxSessions
        /\ amiCall \in [AmiRequests -> AmiCalls] /\ amiCall[r] \in AmiCalls /\ amiCall[r].on \in 0 .. AmiMaxSessions
        /\ amiWire \in [AmiSessions -> SUBSET AmiRequests]
        /\ \A m \in AmiSessions : ami.pending[m] \in SUBSET AmiRequests
    BY <1>t, AmiSessionAssumption DEF AmiTyped, AmiClients, AmiCalls
  <1>1. CASE AmiCall(r)
    <2> DEFINE t == [amiCall[r] EXCEPT !.at = "call"]
    <2>1. t \in AmiCalls /\ t.at = "call" /\ t.on = amiCall[r].on /\ t.reply = amiCall[r].reply
      BY <1>e DEF AmiCalls
    <2>2. amiCall' = [amiCall EXCEPT ![r] = t] /\ UNCHANGED <<ami, amiWire, amiReplies, amiRan>> /\ amiCall[r].at = "idle"
      BY <1>1 DEF AmiCall
    <2> HIDE DEF t
    <2>3. t.reply = "none" /\ \A m \in AmiSessions : r \notin ami.pending[m]
      BY <1>t, <2>1, <2>2 DEF AmiAttempts, AmiRegistered
    <2> QED
      BY <1>e, <2>1, <2>2, <2>3, AmiDismissed
  <1>2. CASE AmiRetry(r)
    <2> DEFINE t == [amiCall[r] EXCEPT !.at = "call", !.reply = "none"]
    <2>1. t \in AmiCalls /\ t.at = "call" /\ t.on = amiCall[r].on /\ t.reply = "none"
      BY <1>e DEF AmiCalls
    <2>2. amiCall' = [amiCall EXCEPT ![r] = t] /\ UNCHANGED <<ami, amiWire, amiReplies, amiRan>>
          /\ ami.phase[amiCall[r].on] = "dead"
      BY <1>2 DEF AmiRetry
    <2> HIDE DEF t
    <2>3. \A m \in AmiSessions : r \notin ami.pending[m]
      BY <1>t, <2>2 DEF AmiRegistered
    <2> QED
      BY <1>e, <2>1, <2>2, <2>3, AmiDismissed
  <1>3. CASE AmiReturns(r) \/ AmiGivesUp(r)
    <2>1. PICK o \in {"none", "ok", "refused", "auth", "failed"} : AmiFinish(r, o)
      <3>1. amiCall[r].reply \in {"none", "ok", "refused"}
        BY <1>e DEF AmiCalls
      <3>2. CASE AmiReturns(r)
        BY <3>1, <3>2 DEF AmiReturns
      <3>3. CASE AmiGivesUp(r)
        BY <3>3 DEF AmiGivesUp
      <3> QED
        BY <1>3, <3>2, <3>3
    <2> DEFINE t == [amiCall[r] EXCEPT !.at = "done", !.outcome = o]
    <2>2. t \in AmiCalls /\ t.at = "done" /\ t.on = amiCall[r].on /\ t.reply = amiCall[r].reply
      BY <1>e DEF AmiCalls
    <2>3. amiCall' = [amiCall EXCEPT ![r] = t] /\ UNCHANGED <<amiWire, amiReplies, amiRan>>
      BY <2>1 DEF AmiFinish
    <2> HIDE DEF t
    <2>4. CASE amiCall[r].on = 0
      <3>1. \A m \in AmiSessions : r \notin ami.pending[m]
        BY <1>t, <1>e, <2>4 DEF AmiRegistered, AmiSessions
      <3>2. ami' = ami
        BY <2>1, <2>4 DEF AmiFinish
      <3> QED
        BY <1>e, <2>2, <2>3, <3>1, <3>2, AmiDismissed
    <2>5. CASE amiCall[r].on # 0
      <3>1. PICK n \in AmiSessions : n = amiCall[r].on
        BY <1>e, <2>5 DEF AmiSessions
      <3>2. ami' = [ami EXCEPT !.pending[n] = ami.pending[n] \ {r}]
        BY <2>1, <2>5, <3>1 DEF AmiFinish
      <3>3. /\ ami' \in AmiClients /\ ami'.at = ami.at /\ ami'.sess = ami.sess /\ ami'.phase = ami.phase
            /\ ami'.pending[n] = ami.pending[n] \ {r}
            /\ \A m \in AmiSessions \ {n} : ami'.pending[m] = ami.pending[m]
        <4>1. PICK W \in SUBSET AmiRequests : W = ami.pending[n] \ {r}
          BY <1>e
        <4>2. ami' = [ami EXCEPT !.pending[n] = W]
          BY <3>2, <4>1
        <4>3. ami \in AmiClients
          BY <1>e
        <4>4. /\ ami' \in AmiClients /\ ami'.at = ami.at /\ ami'.sess = ami.sess /\ ami'.phase = ami.phase
              /\ ami'.pending[n] = W /\ \A m \in AmiSessions \ {n} : ami'.pending[m] = ami.pending[m]
          BY <4>2, <4>3, AmiWaiters
        <4> QED
          BY <4>1, <4>4
      <3>4. \A m \in AmiSessions \ {n} : r \notin ami.pending[m]
        BY <1>t, <3>1 DEF AmiRegistered
      <3>5. \A m \in AmiSessions : /\ ami'.pending[m] \subseteq ami.pending[m]
                                   /\ ami.pending[m] \ {r} \subseteq ami'.pending[m]
                                   /\ r \notin ami'.pending[m]
        BY <3>3, <3>4
      <3> QED
        BY <2>2, <2>3, <3>3, <3>5, AmiDismissed
    <2> QED
      BY <2>4, <2>5
  <1>4. CASE AmiDoAction(r)
    <2>1. PICK n \in AmiSessions : n = ami.sess /\ ami.phase[n] = "ready" /\ amiCall[r].at = "call"
      BY <1>4, <1>e DEF AmiDoAction, AmiSessions
    <2>2. ami' = [ami EXCEPT !.pending[n] = ami.pending[n] \cup {r}]
      BY <1>4, <2>1 DEF AmiDoAction
    <2>3. /\ ami' \in AmiClients /\ ami'.at = ami.at /\ ami'.sess = ami.sess /\ ami'.phase = ami.phase
          /\ ami'.pending[n] = ami.pending[n] \cup {r}
          /\ \A m \in AmiSessions \ {n} : ami'.pending[m] = ami.pending[m]
      BY <1>e, <2>2, AmiWaiters, SMTT(60)
    <2> DEFINE t == [amiCall[r] EXCEPT !.at = "wait", !.on = n]
    <2>4. t \in AmiCalls /\ t.at = "wait" /\ t.on = n /\ t.reply = amiCall[r].reply
      <3>1. n \in 0 .. AmiMaxSessions
        BY <1>e, <2>1
      <3> QED
        BY <1>e, <3>1 DEF AmiCalls
    <2>5. amiCall' = [amiCall EXCEPT ![r] = t] /\ UNCHANGED <<amiReplies, amiRan>>
          /\ amiWire' = [amiWire EXCEPT ![n] = @ \cup {r}]
      BY <1>4, <2>1 DEF AmiDoAction
    <2> HIDE DEF t
    <2>6. /\ amiCall' \in [AmiRequests -> AmiCalls] /\ amiCall'[r] = t
          /\ \A q \in AmiRequests \ {r} : amiCall'[q] = amiCall[q]
      BY <1>e, <2>4, <2>5, AmiMoves
    <2>7. amiWire' \in [AmiSessions -> SUBSET AmiRequests]
      BY <1>e, <2>5
    <2>8. amiCall[r].reply = "none" /\ \A m \in AmiSessions : r \notin ami.pending[m]
      BY <1>t, <2>1 DEF AmiAttempts, AmiRegistered
    <2>9. AmiTyped'
      BY <1>t, <2>3, <2>5, <2>6, <2>7 DEF AmiTyped
    <2>10. AmiNumbered(ami')
      BY <1>t, <2>3 DEF AmiNumbered
    <2>11. AmiCurrent(ami')
      BY <1>t, <2>3 DEF AmiCurrent
    <2>12. AmiRegistered'
      <3> SUFFICES ASSUME NEW m \in AmiSessions, NEW q \in ami'.pending[m]
                   PROVE  amiCall'[q].at = "wait" /\ amiCall'[q].on = m /\ ami'.phase[m] # "dead"
        BY DEF AmiRegistered
      <3>1. CASE q = r
        BY <2>1, <2>3, <2>4, <2>6, <2>8, <3>1
      <3>2. CASE q # r
        <4>1. q \in ami.pending[m] /\ q \in AmiRequests
          BY <1>e, <2>3, <3>2
        <4> QED
          BY <1>t, <2>3, <2>6, <3>2, <4>1 DEF AmiRegistered
      <3> QED
        BY <3>1, <3>2
    <2>13. AmiAttempts'
      BY <1>t, <2>1, <2>3, <2>4, <2>6 DEF AmiAttempts
    <2>14. AmiHonest'
      BY <1>t, <2>5 DEF AmiHonest
    <2>15. AmiReplyTruthful'
      BY <1>t, <2>4, <2>5, <2>6, <2>8 DEF AmiReplyTruthful
    <2>16. AmiWaiterHeard'
      <3> SUFFICES ASSUME NEW q \in AmiRequests, amiCall'[q].at = "wait", ami'.phase[amiCall'[q].on] # "dead"
                   PROVE  amiCall'[q].reply # "none" \/ q \in ami'.pending[amiCall'[q].on]
        BY DEF AmiWaiterHeard
      <3>1. CASE q = r
        BY <2>3, <2>4, <2>6, <3>1
      <3>2. CASE q # r
        BY <1>t, <2>3, <2>6, <3>2 DEF AmiWaiterHeard, AmiAttempts
      <3> QED
        BY <3>1, <3>2
    <2> QED
      BY <2>9, <2>10, <2>11, <2>12, <2>13, <2>14, <2>15, <2>16 DEF AmiInv, AmiRepliesReach
  <1> QED
    BY <1>1, <1>2, <1>3, <1>4

LEMMA AmiOthersKeep ==
    ASSUME AmiInv,
           \/ AmiCancel \/ AmiCloseReturns
           \/ \E n \in AmiSessions : \E r \in amiWire[n] : \E verdict \in {"ok", "refused"} : AmiPBXHandles(n, r, verdict)
    PROVE  AmiInv'
  <1>t. /\ AmiTyped /\ AmiNumbered(ami) /\ AmiCurrent(ami) /\ AmiRegistered /\ AmiAttempts /\ AmiHonest
        /\ AmiWaiterHeard /\ AmiReplyTruthful
    BY DEF AmiInv, AmiRepliesReach
  <1>e. ami \in AmiClients /\ AmiMaxSessions \in Nat \ {0} /\ ami.sess \in 0 .. AmiMaxSessions
        /\ amiReplies \in [AmiSessions -> SUBSET AmiAnswers] /\ amiRan \in [AmiRequests -> SUBSET AmiSessions]
        /\ amiWire \in [AmiSessions -> SUBSET AmiRequests]
    BY <1>t, AmiSessionAssumption DEF AmiTyped, AmiClients
  <1>1. CASE AmiCloseReturns
    BY <1>1, <1>t, <1>e, AmiEnding DEF AmiCloseReturns
  <1>2. CASE AmiCancel
    <2>1. UNCHANGED <<amiCall, amiWire, amiReplies, amiRan>>
      BY <1>2 DEF AmiCancel
    <2>2. CASE ami.sess = 0
      BY <1>2, <1>t, <1>e, <2>1, <2>2, AmiEnding DEF AmiCancel
    <2>3. CASE ami.sess # 0
      <3>1. PICK n \in AmiSessions : n = ami.sess /\ ami.phase[n] # "none"
        BY <1>t, <1>e, <2>3 DEF AmiSessions, AmiCurrent
      <3>2. ami' = AmiDie(ami, n)
        BY <1>2, <2>3, <3>1 DEF AmiCancel
      <3>3. ami.phase[n] = "dead" => ami.pending[n] = {}
        BY <1>t DEF AmiRegistered
      <3>4. /\ ami' \in AmiClients
            /\ ami'.at = ami.at /\ ami'.sess = ami.sess
            /\ ami'.phase[n] = "dead" /\ ami'.pending[n] = {}
            /\ \A m \in AmiSessions \ {n} : ami'.phase[m] = ami.phase[m] /\ ami'.pending[m] = ami.pending[m]
        BY <1>e, <3>2, <3>3, AmiDies
      <3>5. AmiNumbered(ami')
        BY <1>t, <3>1, <3>4 DEF AmiNumbered
      <3>6. AmiCurrent(ami')
        BY <1>t, <3>1, <3>4 DEF AmiCurrent
      <3> QED
        BY <1>e, <2>1, <3>1, <3>4, <3>5, <3>6, AmiEnding
    <2> QED
      BY <2>2, <2>3
  <1>3. ASSUME NEW n \in AmiSessions, NEW r \in amiWire[n], NEW v \in {"ok", "refused"}, AmiPBXHandles(n, r, v)
        PROVE  AmiInv'
    <2>1. r \in AmiRequests /\ [id |-> r, verdict |-> v] \in AmiAnswers
      BY <1>e DEF AmiAnswers
    <2>2. /\ UNCHANGED <<ami, amiCall>>
          /\ amiWire' = [amiWire EXCEPT ![n] = @ \ {r}]
          /\ amiRan' = [amiRan EXCEPT ![r] = IF v = "ok" THEN @ \cup {n} ELSE @]
          /\ amiReplies' = [amiReplies EXCEPT ![n] =
                  IF ami.phase[n] = "ready" THEN @ \cup {[id |-> r, verdict |-> v]} ELSE @]
      BY <1>3 DEF AmiPBXHandles
    <2>3. amiWire' \in [AmiSessions -> SUBSET AmiRequests]
      BY <1>e, <2>2
    <2>4. /\ amiRan' \in [AmiRequests -> SUBSET AmiSessions]
          /\ \A q \in AmiRequests : amiRan[q] \subseteq amiRan'[q]
          /\ v = "ok" => n \in amiRan'[r]
      BY <1>e, <2>1, <2>2
    <2>5. /\ amiReplies' \in [AmiSessions -> SUBSET AmiAnswers]
          /\ \A m \in AmiSessions : amiReplies'[m] \subseteq
                  amiReplies[m] \cup (IF m = n THEN {[id |-> r, verdict |-> v]} ELSE {})
      BY <1>e, <2>1, <2>2
    <2>6. AmiTyped'
      BY <1>t, <2>2, <2>3, <2>4, <2>5 DEF AmiTyped
    <2>7. AmiHonest'
      <3> SUFFICES ASSUME NEW m \in AmiSessions, NEW p \in amiReplies'[m], p.verdict = "ok" PROVE m \in amiRan'[p.id]
        BY DEF AmiHonest
      <3>1. CASE p \in amiReplies[m]
        <4>1. p.id \in AmiRequests
          BY <1>e, <3>1 DEF AmiAnswers
        <4> QED
          BY <1>t, <2>4, <3>1, <4>1 DEF AmiHonest
      <3>2. CASE p \notin amiReplies[m]
        <4>1. m = n /\ p = [id |-> r, verdict |-> v]
          BY <2>5, <3>2
        <4> QED
          BY <2>4, <4>1
      <3> QED
        BY <3>1, <3>2
    <2>8. AmiReplyTruthful'
      BY <1>t, <2>2, <2>4 DEF AmiReplyTruthful
    <2>9. AmiNumbered(ami') /\ AmiCurrent(ami') /\ AmiRegistered' /\ AmiAttempts' /\ AmiWaiterHeard'
      BY <1>t, <2>2 DEF AmiNumbered, AmiCurrent, AmiRegistered, AmiAttempts, AmiWaiterHeard
    <2> QED
      BY <2>6, <2>7, <2>8, <2>9 DEF AmiInv, AmiRepliesReach
  <1> QED
    BY <1>1, <1>2, <1>3

LEMMA AmiStutters == AmiInv /\ UNCHANGED amiVars => AmiInv'
  <1> SUFFICES ASSUME AmiInv, UNCHANGED amiVars PROVE AmiInv'
    OBVIOUS
  <1>1. AmiTyped /\ AmiNumbered(ami) /\ AmiCurrent(ami)
    BY DEF AmiInv
  <1>2. UNCHANGED <<ami, amiCall, amiWire, amiReplies, amiRan>>
    BY DEF amiVars
  <1> QED
    BY <1>1, <1>2, AmiEnding DEF AmiTyped

LEMMA AmiInvHolds == AmiInv /\ [AmiNext]_amiVars => AmiInv'
  BY AmiSupervisorKeeps, AmiCallKeeps, AmiOthersKeep, AmiStutters DEF AmiNext

\* No request waits on a live session without a waiter or a reply, and Success
\* is about the session it waits on: a waiter is registered where its request
\* waits, goes when it leaves, and a retry starts without the old reply.
THEOREM AmiReplies == AmiSpec => []AmiRepliesReach
  <1>1. AmiInv => AmiRepliesReach
    BY DEF AmiInv
  <1> QED
    BY <1>1, AmiInitOK, AmiInvHolds, PTL DEF AmiSpec

(***************************************************************************)
(* The Asterisk client implements SwitchCommands.                          *)
(***************************************************************************)
\* Only actions of requests that have begun are on a wire.
AmiWritten == \A n \in AmiSessions : \A r \in amiWire[n] : amiCall[r].at # "idle"

\* Where a request stands, as its caller sees it.
LEMMA AmiToldIs ==
    ASSUME AmiTyped, NEW r \in AmiRequests
    PROVE  /\ AmiTold(r) = "idle" <=> amiCall[r].at = "idle"
           /\ AmiTold(r) = "open" <=> amiCall[r].at \in {"call", "wait"}
           /\ AmiTold(r) = "carried out" <=> amiCall[r].at = "done" /\ amiCall[r].outcome = "ok"
           /\ AmiTold(r) = "failed" <=> amiCall[r].at = "done" /\ amiCall[r].outcome # "ok"
  <1>1. amiCall[r].at \in {"idle", "call", "wait", "done"}
    BY DEF AmiTyped, AmiCalls
  <1> QED
    BY <1>1 DEF AmiTold

\* A step that moves no request's position and runs nothing is invisible.
LEMMA AmiInvisible ==
    ASSUME \A r \in AmiRequests : AmiTold(r)' = AmiTold(r), UNCHANGED amiRan
    PROVE  UNCHANGED AmiCommands!vars
  BY DEF AmiCommands!vars

\* A step of one request.
LEMMA AmiOneTold ==
    ASSUME NEW r \in AmiRequests, NEW to, AmiTold(r)' = to,
           \A q \in AmiRequests \ {r} : AmiTold(q)' = AmiTold(q)
    PROVE  [q \in AmiRequests |-> AmiTold(q)]' = [[q \in AmiRequests |-> AmiTold(q)] EXCEPT ![r] = to]
  OBVIOUS

LEMMA AmiStepRefines ==
    ASSUME AmiInv, AmiInv', AmiWritten, [AmiNext]_amiVars
    PROVE  [AmiCommands!Next]_AmiCommands!vars /\ AmiWritten'
  <1>t. AmiTyped /\ AmiTyped' /\ AmiReplyTruthful
    BY DEF AmiInv, AmiRepliesReach
  <1>f. amiCall \in [AmiRequests -> AmiCalls]
    BY <1>t DEF AmiTyped
  <1>1. ASSUME UNCHANGED <<amiRan, amiWire>>,
               \A r \in AmiRequests : amiCall'[r].at = amiCall[r].at /\ amiCall'[r].outcome = amiCall[r].outcome
        PROVE  UNCHANGED AmiCommands!vars /\ AmiWritten'
    <2>1. \A r \in AmiRequests : AmiTold(r)' = AmiTold(r)
      BY <1>1 DEF AmiTold
    <2>2. AmiWritten'
      BY <1>1, <1>t DEF AmiWritten, AmiTyped
    <2> QED
      BY <1>1, <2>1, <2>2, AmiInvisible
  <1>2. CASE AmiSupervisor
    <2>1. CASE AmiReadReply
      <3>1. \A r \in AmiRequests : amiCall'[r].at = amiCall[r].at /\ amiCall'[r].outcome = amiCall[r].outcome
        BY <2>1, <1>f DEF AmiReadReply, AmiCalls
      <3> QED
        BY <2>1, <3>1, <1>1 DEF AmiReadReply
    <2>2. CASE ~AmiReadReply
      <3>1. UNCHANGED <<amiRan, amiWire, amiCall>>
        BY <1>2, <2>2 DEF AmiSupervisor, AmiDialFails, AmiDialed, AmiInstall, AmiLogsIn, AmiLoginFails,
           AmiReadFails, AmiSuperviseEnds, AmiPingFails
      <3> QED
        BY <3>1, <1>1
    <2> QED
      BY <2>1, <2>2
  <1>3. ASSUME NEW r \in AmiRequests, amiCall'[r].at # "idle",
               \A q \in AmiRequests \ {r} : amiCall'[q] = amiCall[q],
               \A n \in AmiSessions : amiWire'[n] \subseteq amiWire[n] \cup {r}
        PROVE  /\ AmiWritten'
               /\ \A q \in AmiRequests \ {r} : AmiTold(q)' = AmiTold(q)
    <2>1. AmiWritten'
      BY <1>3, <1>t DEF AmiWritten, AmiTyped
    <2>2. \A q \in AmiRequests \ {r} : AmiTold(q)' = AmiTold(q)
      BY <1>3 DEF AmiTold
    <2> QED
      BY <2>1, <2>2
  <1>4. ASSUME NEW r \in AmiRequests, AmiCall(r)
        PROVE  AmiCommands!Give(r) /\ AmiWritten'
    <2>1. /\ amiCall[r].at = "idle" /\ amiCall'[r].at = "call"
          /\ \A q \in AmiRequests \ {r} : amiCall'[q] = amiCall[q]
          /\ UNCHANGED <<amiWire, amiRan>>
      BY <1>4, <1>f DEF AmiCall, AmiCalls
    <2>2. AmiWritten' /\ \A q \in AmiRequests \ {r} : AmiTold(q)' = AmiTold(q)
      BY <2>1, <1>3
    <2>3. AmiTold(r) = "idle" /\ AmiTold(r)' = "open"
      BY <2>1 DEF AmiTold
    <2> QED
      BY <2>1, <2>2, <2>3, AmiOneTold DEF AmiCommands!Give
  <1>5. ASSUME NEW r \in AmiRequests, AmiDoAction(r) \/ AmiRetry(r)
        PROVE  UNCHANGED AmiCommands!vars /\ AmiWritten'
    <2>1. /\ amiCall[r].at \in {"call", "wait"} /\ amiCall'[r].at \in {"call", "wait"}
          /\ \A q \in AmiRequests \ {r} : amiCall'[q] = amiCall[q]
          /\ UNCHANGED amiRan
      BY <1>5, <1>f DEF AmiDoAction, AmiRetry, AmiCalls
    <2>2. \A n \in AmiSessions : amiWire'[n] \subseteq amiWire[n] \cup {r}
      BY <1>5, <1>t DEF AmiDoAction, AmiRetry, AmiTyped
    <2>3. AmiWritten' /\ \A q \in AmiRequests \ {r} : AmiTold(q)' = AmiTold(q)
      BY <2>1, <2>2, <1>3
    <2>4. AmiTold(r) = "open" /\ AmiTold(r)' = "open"
      BY <2>1 DEF AmiTold
    <2> QED
      BY <2>1, <2>3, <2>4, AmiInvisible
  <1>6. ASSUME NEW r \in AmiRequests, NEW outcome, amiCall[r].at \in {"call", "wait"}, AmiFinish(r, outcome),
               outcome = "ok" => amiRan[r] # {}
        PROVE  (AmiCommands!Confirm(r) \/ AmiCommands!Fail(r)) /\ AmiWritten'
    <2>1. /\ amiCall'[r].at = "done" /\ amiCall'[r].outcome = outcome
          /\ \A q \in AmiRequests \ {r} : amiCall'[q] = amiCall[q]
          /\ UNCHANGED <<amiWire, amiRan>>
      BY <1>6, <1>f DEF AmiFinish, AmiCalls
    <2>2. AmiWritten' /\ \A q \in AmiRequests \ {r} : AmiTold(q)' = AmiTold(q)
      BY <2>1, <1>3
    <2>3. AmiTold(r) = "open"
      BY <1>6 DEF AmiTold
    <2>4. CASE outcome = "ok"
      <3>1. AmiTold(r)' = "carried out"
        BY <2>1, <2>4 DEF AmiTold
      <3> QED
        BY <1>6, <2>1, <2>2, <2>3, <2>4, <3>1, AmiOneTold DEF AmiCommands!Confirm
    <2>5. CASE outcome # "ok"
      <3>1. AmiTold(r)' = "failed"
        BY <2>1, <2>5 DEF AmiTold
      <3> QED
        BY <2>1, <2>2, <2>3, <3>1, AmiOneTold DEF AmiCommands!Fail
    <2> QED
      BY <2>4, <2>5
  <1>7. ASSUME NEW r \in AmiRequests, AmiReturns(r) \/ AmiGivesUp(r)
        PROVE  (AmiCommands!Confirm(r) \/ AmiCommands!Fail(r)) /\ AmiWritten'
    <2>1. CASE AmiReturns(r)
      BY <2>1, <1>6, <1>t DEF AmiReturns, AmiReplyTruthful
    <2>2. CASE AmiGivesUp(r)
      BY <2>2, <1>6 DEF AmiGivesUp
    <2> QED
      BY <1>7, <2>1, <2>2
  <1>8. CASE AmiCancel \/ AmiCloseReturns \/ UNCHANGED amiVars
    BY <1>8, <1>1 DEF AmiCancel, AmiCloseReturns, amiVars
  <1>9. ASSUME NEW n \in AmiSessions, NEW r \in amiWire[n], NEW verdict, AmiPBXHandles(n, r, verdict)
        PROVE  (UNCHANGED AmiCommands!vars \/ AmiCommands!Handle(r)) /\ AmiWritten' /\ r \in AmiRequests
    <2>0. r \in AmiRequests
      BY <1>t DEF AmiTyped
    <2>1. /\ UNCHANGED amiCall
          /\ \A q \in AmiRequests \ {r} : amiRan'[q] = amiRan[q]
          /\ amiRan'[r] = IF verdict = "ok" THEN amiRan[r] \cup {n} ELSE amiRan[r]
      BY <1>9, <2>0, <1>t DEF AmiPBXHandles, AmiTyped
    <2>2. AmiWritten'
      BY <1>9, <1>t DEF AmiPBXHandles, AmiWritten, AmiTyped
    <2>3. \A q \in AmiRequests : AmiTold(q)' = AmiTold(q)
      BY <2>1 DEF AmiTold
    <2>4. CASE verdict = "ok"
      <3>1. AmiTold(r) # "idle"
        BY <2>0, <1>t, AmiToldIs DEF AmiWritten
      <3> QED
        BY <2>0, <2>1, <2>2, <2>3, <2>4, <3>1 DEF AmiCommands!Handle
    <2>5. CASE verdict # "ok"
      BY <2>0, <2>1, <2>2, <2>3, <2>5 DEF AmiCommands!vars
    <2> QED
      BY <2>0, <2>4, <2>5
  <1> QED
    BY <1>2, <1>4, <1>5, <1>7, <1>8, <1>9 DEF AmiNext, AmiCommands!Next

\* The Asterisk client keeps the promise of SwitchCommands, for any number of
\* requests and sessions: whatever drops, is sent again, answers late or closes.
THEOREM AmiRefinement == AmiSpec => AmiImplementsCommands
  <1>1. AmiInit => AmiCommands!Init /\ AmiWritten
    BY DEF AmiInit, AmiIdleCall, AmiTold, AmiWritten, AmiCommands!Init
  <1>2. AmiInv /\ AmiInv' /\ AmiWritten /\ [AmiNext]_amiVars
        => [AmiCommands!Next]_AmiCommands!vars /\ AmiWritten'
    BY AmiStepRefines
  <1> QED
    BY <1>1, <1>2, AmiInitOK, AmiInvHolds, PTL DEF AmiSpec, AmiImplementsCommands, AmiCommands!Spec

(***************************************************************************)
(* The FreeSWITCH client implements SwitchCommands.                        *)
(***************************************************************************)
\* A command is on no connection before it is written.
EslUnwritten == \A r \in EslRequests : eslDo[r].at \in {"idle", "ensure"} => eslDo[r].on = 0

LEMMA EslInvisible ==
    ASSUME \A r \in EslRequests : EslTold(r)' = EslTold(r) /\ (EslTaken(r)' <=> EslTaken(r))
    PROVE  UNCHANGED EslCommands!vars
  BY DEF EslCommands!vars

LEMMA EslOneTold ==
    ASSUME NEW r \in EslRequests, NEW to, EslTold(r)' = to,
           \A q \in EslRequests \ {r} : EslTold(q)' = EslTold(q),
           \A q \in EslRequests : EslTaken(q)' <=> EslTaken(q)
    PROVE  /\ [q \in EslRequests |-> EslTold(q)]' = [[q \in EslRequests |-> EslTold(q)] EXCEPT ![r] = to]
           /\ {q \in EslRequests : EslTaken(q)}' = {q \in EslRequests : EslTaken(q)}
  OBVIOUS

\* A command is written to a connection that carries nothing.
LEMMA EslQuietToWrite ==
    ASSUME EslInv, NEW r \in EslRequests, EslWrite(r), esl.conn \in EslConns
    PROVE  eslWire[esl.conn] = <<>>
  <1>1. eslDo[r].at = "ensure" /\ eslConn[esl.conn].alive
    BY DEF EslWrite
  <1>2. ~ \E q \in EslRequests : eslDo[q].at = "await"
    <2> SUFFICES ASSUME NEW q \in EslRequests, eslDo[q].at = "await" PROVE FALSE
      OBVIOUS
    <2>1. esl.slot = {r} /\ esl.slot = {q}
      BY <1>1 DEF EslInv, EslLineInv, EslSingleFlight
    <2>2. q = r
      BY <2>1
    <2> QED
      BY <2>2, <1>1
  <1>3. EslQuiet(esl.conn)
    BY <1>1, <1>2 DEF EslInv, EslLineInv, EslNothingStale
  <1> QED
    BY <1>3 DEF EslQuiet

LEMMA EslStepRefines ==
    ASSUME EslInv, EslUnwritten, [EslNext]_eslVars
    PROVE  [EslCommands!Next]_EslCommands!vars /\ EslUnwritten'
  <1>t. EslTyped /\ EslAtMostOne /\ EslSingleFlight /\ EslAwaited
    BY DEF EslInv, EslLineInv
  <1>f. eslDo \in [EslRequests -> EslDos]
    BY <1>t DEF EslTyped
  <1>1. ASSUME UNCHANGED <<eslDo, eslWire>>
        PROVE  UNCHANGED EslCommands!vars /\ EslUnwritten'
    <2>1. \A r \in EslRequests : EslTold(r)' = EslTold(r) /\ (EslTaken(r)' <=> EslTaken(r))
      BY <1>1 DEF EslTold, EslTaken
    <2> QED
      BY <1>1, <2>1, EslInvisible DEF EslUnwritten
  <1>2. CASE EslLoop \/ EslClose \/ EslCloseReturns \/ UNCHANGED eslVars
    <2>1. UNCHANGED <<eslDo, eslWire>>
      BY <1>2 DEF EslLoop, EslLoopEnds, EslDialed, EslRunConn, EslReady, EslConnLost, EslDemux, EslClose,
         EslCloseReturns, eslVars
    <2> QED
      BY <2>1, <1>1
  \* A request moves on, on the connection it is on.
  <1>3. ASSUME NEW r \in EslRequests, UNCHANGED eslWire, eslDo'[r].on = eslDo[r].on,
               \A q \in EslRequests \ {r} : eslDo'[q] = eslDo[q]
        PROVE  /\ \A q \in EslRequests \ {r} : EslTold(q)' = EslTold(q)
               /\ \A q \in EslRequests : EslTaken(q)' <=> EslTaken(q)
    BY <1>3 DEF EslTold, EslTaken
  <1>4. ASSUME NEW r \in EslRequests, EslEnter(r)
        PROVE  EslCommands!Give(r) /\ EslUnwritten'
    <2>1. /\ eslDo[r].at = "idle" /\ eslDo'[r].at = "ensure" /\ eslDo'[r].on = eslDo[r].on
          /\ \A q \in EslRequests \ {r} : eslDo'[q] = eslDo[q]
          /\ UNCHANGED eslWire
      BY <1>4, <1>f DEF EslEnter, EslDos
    <2>2. EslTold(r) = "idle" /\ EslTold(r)' = "open"
      BY <2>1 DEF EslTold
    <2>3. EslUnwritten'
      BY <2>1 DEF EslUnwritten
    <2> QED
      BY <2>1, <2>2, <2>3, <1>3, EslOneTold DEF EslCommands!Give
  <1>5. ASSUME NEW r \in EslRequests, NEW e, NEW got, EslLeave(r, e, got), UNCHANGED eslWire,
               eslDo[r].at \in {"ensure", "await"}, got # {} => EslTaken(r)
        PROVE  (EslCommands!Confirm(r) \/ EslCommands!Fail(r)) /\ EslUnwritten'
    <2>1. /\ eslDo'[r].at = "done" /\ eslDo'[r].on = eslDo[r].on /\ eslDo'[r].got = got
          /\ \A q \in EslRequests \ {r} : eslDo'[q] = eslDo[q]
      BY <1>5, <1>f DEF EslLeave, EslDos
    <2>2. EslTold(r) = "open" /\ EslTold(r)' = IF got = {} THEN "failed" ELSE "carried out"
      BY <1>5, <2>1 DEF EslTold
    <2>3. EslUnwritten'
      BY <2>1 DEF EslUnwritten
    <2>4. /\ \A q \in EslRequests \ {r} : EslTold(q)' = EslTold(q)
          /\ \A q \in EslRequests : EslTaken(q)' <=> EslTaken(q)
      BY <1>5, <2>1, <1>3
    <2>5. CASE got = {}
      BY <2>2, <2>3, <2>4, <2>5, EslOneTold DEF EslCommands!Fail
    <2>6. CASE got # {}
      BY <1>5, <2>2, <2>3, <2>4, <2>6, EslOneTold DEF EslCommands!Confirm
    <2> QED
      BY <2>5, <2>6
  <1>6. ASSUME NEW r \in EslRequests,
               EslGetsReply(r) \/ EslLosesConn(r) \/ EslGivesUp(r) \/ EslUnready(r)
        PROVE  (EslCommands!Confirm(r) \/ EslCommands!Fail(r)) /\ EslUnwritten'
    <2>1. CASE EslGetsReply(r)
      <3>1. PICK g \in EslConns : g = eslDo[r].on /\ (EslQuiet(g) \/ EslCarries(g, r))
        BY <2>1, <1>t DEF EslGetsReply, EslAwaited
      <3>2. eslConn[g].resp # {}
        BY <2>1, <3>1 DEF EslGetsReply
      <3>3. eslWire[g] = <<>>
        BY <3>1, <3>2 DEF EslQuiet, EslCarries
      <3>4. EslTaken(r)
        BY <3>1, <3>3, EslSessionAssumption DEF EslTaken, EslConns
      <3> QED
        BY <2>1, <3>4, <1>5 DEF EslGetsReply
    <2>2. CASE EslLosesConn(r) \/ EslGivesUp(r) \/ EslUnready(r)
      BY <2>2, <1>5 DEF EslLosesConn, EslGivesUp, EslUnready
    <2> QED
      BY <1>6, <2>1, <2>2
  <1>7. ASSUME NEW r \in EslRequests, EslWrite(r)
        PROVE  UNCHANGED EslCommands!vars /\ EslUnwritten'
    <2> DEFINE g == esl.conn
    <2>1. /\ eslDo[r].at = "ensure" /\ eslDo'[r].at = "await" /\ eslDo'[r].on = g
          /\ \A q \in EslRequests \ {r} : eslDo'[q] = eslDo[q]
          /\ g \in EslConns
          /\ eslWire'[g] = Append(eslWire[g], r) /\ \A h \in EslConns \ {g} : eslWire'[h] = eslWire[h]
      <3>1. g \in EslConns
        BY <1>7, <1>t, EslSessionAssumption DEF EslWrite, EslTyped, EslClients, EslConns
      <3> QED
        BY <1>7, <1>f, <1>t, <3>1 DEF EslWrite, EslDos, EslTyped
    <2>2. eslWire[g] = <<>>
      BY <1>7, <2>1, EslQuietToWrite
    <2>3. eslWire'[g] = <<r>>
      BY <2>1, <2>2
    <2> HIDE DEF g
    <2>4. ~EslTaken(r) /\ ~EslTaken(r)'
      BY <2>1, <2>3 DEF EslTaken, EslUnwritten
    <2>5. ASSUME NEW q \in EslRequests \ {r} PROVE EslTaken(q)' <=> EslTaken(q)
      <3>1. eslDo'[q].on = eslDo[q].on /\ eslDo[q].on \in 0 .. EslMaxConns
        BY <2>1, <1>f DEF EslDos
      <3>2. CASE eslDo[q].on = g
        BY <2>2, <2>3, <3>1, <3>2 DEF EslTaken
      <3>3. CASE eslDo[q].on # g
        BY <2>1, <3>1, <3>3, EslSessionAssumption DEF EslTaken, EslConns
      <3> QED
        BY <3>2, <3>3
    <2>6. \A q \in EslRequests : EslTold(q)' = EslTold(q)
      BY <2>1 DEF EslTold
    <2>7. EslUnwritten'
      BY <2>1 DEF EslUnwritten
    <2> QED
      BY <2>4, <2>5, <2>6, <2>7, EslInvisible
  <1>8. ASSUME NEW g \in EslConns, EslSwitchAnswers(g)
        PROVE  (UNCHANGED EslCommands!vars \/ \E r \in EslRequests : EslCommands!Handle(r)) /\ EslUnwritten'
    <2>1. PICK r \in EslRequests : eslWire[g] = <<r>>
      BY <1>8, <1>t DEF EslSwitchAnswers, EslAtMostOne, EslQuiet, EslCarries
    <2>2. /\ UNCHANGED eslDo
          /\ eslWire'[g] = <<>> /\ \A h \in EslConns \ {g} : eslWire'[h] = eslWire[h]
      BY <1>8, <2>1, <1>t DEF EslSwitchAnswers, EslTyped
    <2>3. ASSUME NEW q \in EslRequests
          PROVE  EslTaken(q)' <=> EslTaken(q) \/ (q = r /\ eslDo[r].on = g)
      <3>1. eslDo'[q].on = eslDo[q].on /\ eslDo[q].on \in 0 .. EslMaxConns /\ g # 0
        BY <2>2, <1>f, EslSessionAssumption DEF EslDos, EslConns
      <3>2. CASE eslDo[q].on = g
        BY <2>1, <2>2, <3>1, <3>2 DEF EslTaken
      <3>3. CASE eslDo[q].on # g
        BY <2>2, <3>1, <3>3, EslSessionAssumption DEF EslTaken, EslConns
      <3> QED
        BY <3>2, <3>3
    <2>4. \A q \in EslRequests : EslTold(q)' = EslTold(q)
      BY <2>2 DEF EslTold
    <2>5. EslUnwritten'
      BY <2>2 DEF EslUnwritten
    <2>6. CASE eslDo[r].on = g
      <3>1. eslDo[r].at \in {"await", "done"}
        BY <2>6, <1>f, EslSessionAssumption DEF EslUnwritten, EslDos, EslConns
      <3>2. EslTold(r) # "idle"
        BY <3>1 DEF EslTold
      <3> QED
        BY <2>3, <2>4, <2>5, <2>6, <3>2 DEF EslCommands!Handle
    <2>7. CASE eslDo[r].on # g
      BY <2>3, <2>4, <2>5, <2>7, EslInvisible
    <2> QED
      BY <2>6, <2>7
  <1> QED
    BY <1>2, <1>4, <1>6, <1>7, <1>8 DEF EslNext, EslCommands!Next

\* The FreeSWITCH client keeps the same promise without correlation ids, for any
\* number of callers and connections: one command at a time, and a connection
\* given up with the command that timed out on it.
THEOREM EslRefinement == EslSpec => EslImplementsCommands
  <1>1. EslInit => EslCommands!Init /\ EslUnwritten
    BY DEF EslInit, EslIdle, EslTold, EslTaken, EslUnwritten, EslCommands!Init
  <1>2. EslInv /\ EslUnwritten /\ [EslNext]_eslVars
        => [EslCommands!Next]_EslCommands!vars /\ EslUnwritten'
    BY EslStepRefines
  <1> QED
    BY <1>1, <1>2, EslInitOK, EslInvHolds, PTL DEF EslSpec, EslImplementsCommands, EslCommands!Spec
=============================================================================
