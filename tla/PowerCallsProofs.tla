-------------------------- MODULE PowerCallsProofs --------------------------
(***************************************************************************)
(* What PowerCalls keeps for every number of restarts of the login manager *)
(* and of falls of the bus: its types, and that a proxy of a process that  *)
(* is gone is always about to be dropped.                                  *)
(***************************************************************************)
EXTENDS PowerCalls, TLAPS

\* The last message of a dead connection is the one that frees it.
EndsInGone == queue # <<>> /\ queue[Len(queue)] = "gone"

\* What links the three pointers of the backend, the queue and the owner: a
\* proxy is looked up only after NameOwnerChanged is watched (the order of
\* gsm_*_ensure_*_connection), and free_dbus drops all three.
LinkInv ==
  /\ conn = "none" => ~watching
  /\ proxy # 0 => watching
  /\ at = "find" => watching
  /\ conn = "dead" => EndsInGone
  /\ StaleProxyIsTold

-----------------------------------------------------------------------------
\* What Begin leaves: a handler with nothing to call is over at once.
LEMMA BeginType ==
  ASSUME NEW ops \in Seq(Ops), Begin(ops)
  PROVE  /\ todo' \in Seq(Ops)
         /\ at' \in {"idle", "connect"}
         /\ at' # "idle" => todo' # <<>>
  BY DEF Begin

\* One call is a queue of calls.
LEMMA OneOp ==
  ASSUME NEW kind \in Kinds, NEW what \in Powers \union {"SWITCH", "NONE"}
  PROVE  <<Op(kind, what)>> \in Seq(Ops)
<1>1. Op(kind, what) \in Ops
  BY DEF Op, Ops
<1> HIDE DEF Op
<1> QED BY <1>1

\* No handler needs more than three round trips.
LEMMA TripsType == ASSUME NEW op PROVE Trips(op) \in 0..3
  BY DEF Trips

\* Going on with what is left of a handler keeps the types.
LEMMA ContinueType ==
  ASSUME NEW ops \in Seq(Ops), Continue(ops), MaxStarts \in Nat
  PROVE  CallType'
<1>1. Begin(ops)
  BY DEF Continue
<1>2. peer' \in 0..MaxStarts /\ left' \in 0..3
  BY DEF Continue
<1>3. ok' \in BOOLEAN /\ done' \in SUBSET (Powers \union {"SWITCH", "NONE"})
  BY Zenon DEF Continue
<1>4. /\ todo' \in Seq(Ops)
      /\ at' \in {"idle", "connect"}
      /\ at' # "idle" => todo' # <<>>
  BY <1>1, BeginType
<1>5. at' \in {"idle", "connect", "watch", "find", "call", "wait", "end"}
  BY <1>4
<1> QED
  BY <1>2, <1>3, <1>4, <1>5, Zenon DEF CallType

\* A running call has a first operation.
LEMMA HeadType ==
  ASSUME CallType, at # "idle"
  PROVE  /\ Head(todo) \in Ops /\ Tail(todo) \in Seq(Ops)
         /\ Head(todo).what \in Powers \union {"SWITCH", "NONE"}
         /\ Head(todo).kind \in Kinds
<1>1. Head(todo) \in Ops /\ Tail(todo) \in Seq(Ops)
  BY DEF CallType
<1> QED
  BY <1>1 DEF Ops

\* The queue of signals stays one, longer or shorter.
LEMMA QueueType ==
  ASSUME LinkType
  PROVE  /\ Append(queue, "owner") \in Seq({"owner", "gone"})
         /\ Append(queue, "gone") \in Seq({"owner", "gone"})
         /\ queue # <<>> => Tail(queue) \in Seq({"owner", "gone"})
  BY DEF LinkType

\* The groups a step leaves alone keep their types.
LEMMA BusStays == BusType /\ UNCHANGED <<logind, bus>> => BusType'
  BY DEF BusType, bus
\* What a step does not touch keeps its type.
LEMMA LinkStays == LinkType /\ UNCHANGED link => LinkType'
  BY DEF LinkType, link
\* The same for the calls.
LEMMA CallStays == CallType /\ UNCHANGED call => CallType'
  BY DEF CallType, call
\* The same for the session.
LEMMA SessionStays == SessionType /\ UNCHANGED <<session, mdm>> => SessionType'
  BY DEF SessionType, session, mdm

\* The initial state has the types and the links.
THEOREM InitInv == Init => TypeOK /\ LinkInv
<1> USE MaxStartsAssumption, MaxFallsAssumption
<1> SUFFICES ASSUME Init PROVE TypeOK /\ LinkInv
  OBVIOUS
<1>1. BusType
  <2>1. logind \in BOOLEAN /\ busUp \in BOOLEAN
    BY Zenon DEF Init
  <2>2. falls \in 0..MaxFalls /\ starts \in 0..MaxStarts /\ owner \in {0, starts}
    BY DEF Init
  <2> QED BY <2>1, <2>2 DEF BusType
<1>2. LinkType
  <2>1. watching \in BOOLEAN
    BY Zenon DEF Init
  <2>2. conn \in {"none", "live", "dead"} /\ proxy \in 0..MaxStarts
    BY DEF Init
  <2>3. queue \in Seq({"owner", "gone"})
    BY DEF Init
  <2> QED BY <2>1, <2>2, <2>3 DEF LinkType
<1>5. CallType
  <2>1. ok \in BOOLEAN /\ done \in SUBSET (Powers \union {"SWITCH", "NONE"})
    BY Zenon DEF Init
  <2>2. peer \in 0..MaxStarts /\ left \in 0..3
    BY DEF Init
  <2>3. at = "idle" /\ todo \in Seq(Ops)
    BY DEF Init
  <2> QED BY <2>1, <2>2, <2>3 DEF CallType
<1>3. SessionType /\ (phase = "ending" => logout_type # "NONE")
  BY DEF Init, SessionType, Ends
<1>4. LinkInv
  BY DEF Init, LinkInv, StaleProxyIsTold, Stale
<1> QED BY <1>1, <1>2, <1>3, <1>4, <1>5 DEF TypeOK

-----------------------------------------------------------------------------
\* A step that leaves the link and the bus alone, and is not about to look the
\* login manager up, keeps the links.
LEMMA LinkInvStays == LinkInv /\ UNCHANGED <<link, bus>> /\ at' # "find" => LinkInv'
  BY DEF LinkInv, link, bus, EndsInGone, StaleProxyIsTold, Stale

\* A message at the end of the queue tells of a stale proxy.
LEMMA AppendTells ==
  ASSUME LinkType, NEW m \in {"owner", "gone"}, queue' = Append(queue, m)
  PROVE  queue' # <<>> /\ queue'[Len(queue')] = m
  BY DEF LinkType

\* A call that ends with a result keeps the types.
LEMMA EndTypes ==
  ASSUME CallType, at # "idle", NEW result \in BOOLEAN, Ended(result),
         UNCHANGED <<todo, peer, left, done>>
  PROVE  CallType'
<1>1. ok' \in BOOLEAN
  BY Zenon DEF Ended
<1>2. at' = "end" /\ todo' \in Seq(Ops) /\ todo' # <<>>
  BY DEF Ended, CallType
<1> QED
  BY <1>1, <1>2 DEF CallType

\* The world: the owner and the bus come and go, and what had been bound to
\* them is told.
LEMMA OwnerAppearsInv == TypeOK /\ LinkInv /\ OwnerAppears => TypeOK' /\ LinkInv'
<1> SUFFICES ASSUME TypeOK, LinkInv, OwnerAppears PROVE TypeOK' /\ LinkInv'
  OBVIOUS
<1>1. BusType'
  BY MaxStartsAssumption DEF OwnerAppears, TypeOK, BusType
<1>2. LinkType' /\ LinkInv'
  <2>1. CASE conn = "live" /\ watching
    <3>1. queue' = Append(queue, "owner") /\ UNCHANGED <<conn, watching, proxy, at>>
      BY <2>1 DEF OwnerAppears, Signalled, call
    <3> QED
      BY <2>1, <3>1, QueueType, AppendTells
      DEF TypeOK, LinkType, LinkInv, StaleProxyIsTold, Stale
  <2>2. CASE ~(conn = "live" /\ watching)
    <3>1. UNCHANGED <<conn, watching, proxy, queue, at>> /\ owner = 0
      BY <2>2 DEF OwnerAppears, Signalled, call
    <3> QED
      BY <2>2, <3>1
      DEF TypeOK, LinkType, LinkInv, StaleProxyIsTold, Stale, EndsInGone
  <2> QED BY <2>1, <2>2
<1>3. CallType' /\ SessionType' /\ UNCHANGED <<phase, logout_type>>
  BY CallStays, SessionStays DEF OwnerAppears, TypeOK, session
<1> QED BY <1>1, <1>2, <1>3 DEF TypeOK

\* The death of the owner of the name is reported to whoever watches it.
LEMMA OwnerDiesInv == TypeOK /\ LinkInv /\ OwnerDies => TypeOK' /\ LinkInv'
<1> SUFFICES ASSUME TypeOK, LinkInv, OwnerDies PROVE TypeOK' /\ LinkInv'
  OBVIOUS
<1>1. BusType'
  BY MaxStartsAssumption DEF OwnerDies, TypeOK, BusType
<1>2. LinkType' /\ LinkInv'
  <2>1. CASE conn = "live" /\ watching
    <3>1. queue' = Append(queue, "owner") /\ UNCHANGED <<conn, watching, proxy, at>>
      BY <2>1 DEF OwnerDies, Signalled, call
    <3> QED
      BY <2>1, <3>1, QueueType, AppendTells
      DEF TypeOK, LinkType, LinkInv, StaleProxyIsTold, Stale
  <2>2. CASE ~(conn = "live" /\ watching)
    <3>1. UNCHANGED <<conn, watching, proxy, queue, at>>
      BY <2>2 DEF OwnerDies, Signalled, call
    <3>2. proxy # 0 => EndsInGone
      BY <2>2 DEF TypeOK, LinkType, LinkInv
    <3> QED
      BY <2>2, <3>1, <3>2
      DEF TypeOK, LinkType, LinkInv, StaleProxyIsTold, Stale, EndsInGone
  <2> QED BY <2>1, <2>2
<1>3. CallType' /\ SessionType' /\ UNCHANGED <<phase, logout_type>>
  BY CallStays, SessionStays DEF OwnerDies, TypeOK, session
<1> QED BY <1>1, <1>2, <1>3 DEF TypeOK

\* The fall of the bus leaves the message that frees the connection behind.
LEMMA BusFallsInv == TypeOK /\ LinkInv /\ BusFalls => TypeOK' /\ LinkInv'
<1> SUFFICES ASSUME TypeOK, LinkInv, BusFalls PROVE TypeOK' /\ LinkInv'
  OBVIOUS
<1>1. BusType'
  <2>1. falls' \in 0..MaxFalls /\ starts' \in 0..MaxStarts /\ owner' \in {0, starts'}
    BY MaxFallsAssumption DEF BusFalls, TypeOK, BusType
  <2>2. logind' \in BOOLEAN /\ busUp' \in BOOLEAN
    BY Zenon DEF BusFalls, TypeOK, BusType
  <2> QED BY <2>1, <2>2 DEF BusType
<1>2. LinkType' /\ LinkInv'
  <2>0. UNCHANGED <<watching, proxy, at>>
    BY DEF BusFalls, call
  <2>1. CASE conn = "live"
    <3>1. conn' = "dead" /\ queue' = Append(queue, "gone")
      BY <2>1 DEF BusFalls
    <3> QED
      BY <2>0, <2>1, <3>1, QueueType, AppendTells
      DEF TypeOK, LinkType, LinkInv, StaleProxyIsTold, Stale, EndsInGone
  <2>2. CASE conn # "live"
    <3>1. UNCHANGED <<conn, queue>>
      BY <2>2 DEF BusFalls
    <3>2. proxy # 0 => EndsInGone
      BY <2>2 DEF TypeOK, LinkType, LinkInv
    <3> QED
      BY <2>0, <2>2, <3>1, <3>2
      DEF TypeOK, LinkType, LinkInv, StaleProxyIsTold, Stale, EndsInGone
  <2> QED BY <2>1, <2>2
<1>3. CallType' /\ SessionType' /\ UNCHANGED <<phase, logout_type>>
  BY CallStays, SessionStays DEF BusFalls, TypeOK, session
<1> QED BY <1>1, <1>2, <1>3 DEF TypeOK

\* A bus that returns has no connection of ours.
LEMMA BusReturnsInv == TypeOK /\ LinkInv /\ BusReturns => TypeOK' /\ LinkInv'
<1> SUFFICES ASSUME TypeOK, LinkInv, BusReturns PROVE TypeOK' /\ LinkInv'
  OBVIOUS
<1>1. BusType'
  <2>1. falls' \in 0..MaxFalls /\ starts' \in 0..MaxStarts /\ owner' \in {0, starts'}
    BY DEF BusReturns, TypeOK, BusType
  <2>2. logind' \in BOOLEAN /\ busUp' \in BOOLEAN
    BY Zenon DEF BusReturns, TypeOK, BusType
  <2> QED BY <2>1, <2>2 DEF BusType
<1>2. LinkType' /\ CallType' /\ SessionType' /\ UNCHANGED <<phase, logout_type>>
  BY LinkStays, CallStays, SessionStays DEF BusReturns, TypeOK, session
<1>3. LinkInv'
  BY DEF BusReturns, link, call, LinkInv, EndsInGone, StaleProxyIsTold, Stale
<1> QED BY <1>1, <1>2, <1>3 DEF TypeOK

\* A step inside a call, or the start of one, that touches neither the bus nor
\* the link.
LEMMA QuietInv ==
  ASSUME TypeOK, LinkInv, UNCHANGED <<logind, bus, link>>, at' # "find", CallType', SessionType',
         phase' = "ending" => logout_type' # "NONE"
  PROVE  TypeOK' /\ LinkInv'
  BY BusStays, LinkStays, LinkInvStays DEF TypeOK

\* The login manager carries out a call.
LEMMA CarriesOutInv == TypeOK /\ LinkInv /\ CarriesOut => TypeOK' /\ LinkInv'
<1> SUFFICES ASSUME TypeOK, LinkInv, CarriesOut PROVE TypeOK' /\ LinkInv'
  OBVIOUS
<1>1. at = "wait" /\ CallType
  BY DEF CarriesOut, TypeOK
<1>2. Head(todo).what \in Powers \union {"SWITCH", "NONE"}
  BY <1>1, HeadType
<1>3. done' \in SUBSET (Powers \union {"SWITCH", "NONE"})
  BY <1>1, <1>2 DEF CarriesOut, CallType
<1>4. UNCHANGED <<todo, at, peer, left, ok>>
  BY DEF CarriesOut
<1>5. CallType'
  BY <1>1, <1>3, <1>4 DEF CallType
<1>6. SessionType' /\ UNCHANGED <<phase, logout_type>>
  BY SessionStays DEF CarriesOut, TypeOK, session
<1>7. UNCHANGED <<logind, bus, link>>
  BY DEF CarriesOut
<1> QED BY <1>1, <1>4, <1>5, <1>6, <1>7, QuietInv DEF TypeOK

\* A call that is not answered ends as a failure.
LEMMA TimesOutInv ==
  TypeOK /\ LinkInv /\ (CallTimesOut \/ ReplyIsLost) => TypeOK' /\ LinkInv'
<1> SUFFICES ASSUME TypeOK, LinkInv, CallTimesOut \/ ReplyIsLost PROVE TypeOK' /\ LinkInv'
  OBVIOUS
<1>1. at = "wait" /\ CallType /\ Ended(FALSE) /\ UNCHANGED <<todo, peer, left, done>>
  BY DEF CallTimesOut, ReplyIsLost, TypeOK
<1>2. CallType'
  BY <1>1, EndTypes
<1>3. at' = "end"
  BY <1>1 DEF Ended
<1>4. SessionType' /\ UNCHANGED <<phase, logout_type>>
  BY SessionStays DEF CallTimesOut, ReplyIsLost, TypeOK, session
<1>5. UNCHANGED <<logind, bus, link>>
  BY DEF CallTimesOut, ReplyIsLost
<1> QED BY <1>2, <1>3, <1>4, <1>5, QuietInv DEF TypeOK

\* What the world does at any time.
LEMMA WorldInv == TypeOK /\ LinkInv /\ World => TypeOK' /\ LinkInv'
  BY OwnerAppearsInv, OwnerDiesInv, BusFallsInv, BusReturnsInv, CarriesOutInv, TimesOutInv
  DEF World

-----------------------------------------------------------------------------
\* Renewing the connection: what is bound to the owner is not stale, and it is
\* bound only after the owner is watched.
LEMMA EnsureConnectionInv == TypeOK /\ LinkInv /\ EnsureConnection => TypeOK' /\ LinkInv'
<1> SUFFICES ASSUME TypeOK, LinkInv, EnsureConnection PROVE TypeOK' /\ LinkInv'
  OBVIOUS
<1>0. at = "connect" /\ CallType /\ LinkType /\ UNCHANGED <<todo, peer, left, done>>
  BY DEF EnsureConnection, TypeOK
<1>1. CallType' /\ at' # "find"
  <2>1. CASE conn # "none" \/ busUp
    BY <1>0, <2>1 DEF EnsureConnection, CallType
  <2>2. CASE ~(conn # "none" \/ busUp)
    <3>1. Ended(FALSE)
      BY <2>2 DEF EnsureConnection
    <3> QED BY <1>0, <3>1, EndTypes DEF Ended
  <2> QED BY <2>1, <2>2
<1>2. LinkType' /\ LinkInv'
  <2>1. UNCHANGED <<watching, proxy, queue, owner>> /\ conn' \in {conn, "live"}
    BY DEF EnsureConnection, bus
  <2>2. conn' = "live" => conn \in {"none", "live"}
    BY <1>0 DEF EnsureConnection, LinkType
  <2> QED
    BY <1>0, <1>1, <2>1, <2>2 DEF LinkType, LinkInv, EndsInGone, StaleProxyIsTold, Stale
<1>3. BusType' /\ SessionType' /\ UNCHANGED <<phase, logout_type>>
  BY BusStays, SessionStays DEF EnsureConnection, TypeOK, session
<1> QED BY <1>1, <1>2, <1>3 DEF TypeOK

\* The signal is watched before the proxy is looked up.
LEMMA EnsureBusProxyInv == TypeOK /\ LinkInv /\ EnsureBusProxy => TypeOK' /\ LinkInv'
<1> SUFFICES ASSUME TypeOK, LinkInv, EnsureBusProxy PROVE TypeOK' /\ LinkInv'
  OBVIOUS
<1>0. at = "watch" /\ CallType /\ LinkType /\ UNCHANGED <<todo, peer, left, done, conn, queue, owner>>
  BY DEF EnsureBusProxy, TypeOK, bus
<1>3. BusType' /\ SessionType' /\ UNCHANGED <<phase, logout_type>>
  BY BusStays, SessionStays DEF EnsureBusProxy, TypeOK, session
<1>1. CASE watching \/ conn = "live"
  <2>1. watching' = TRUE /\ at' = "find" /\ UNCHANGED <<proxy, ok>>
    BY <1>1 DEF EnsureBusProxy
  <2>2. CallType'
    BY <1>0, <2>1 DEF CallType
  <2>3. LinkType'
    <3>1. watching' \in BOOLEAN
      BY <2>1, Zenon
    <3> QED BY <1>0, <2>1, <3>1, Zenon DEF LinkType
  <2>4. conn' # "none"
    BY <1>0, <1>1 DEF LinkInv
  <2>5. LinkInv'
    BY <1>0, <2>1, <2>4 DEF LinkInv, EndsInGone, StaleProxyIsTold, Stale
  <2> QED BY <1>3, <2>2, <2>3, <2>5 DEF TypeOK
<1>2. CASE ~(watching \/ conn = "live")
  <2>1. UNCHANGED watching /\ proxy' = 0 /\ Ended(FALSE)
    BY <1>2 DEF EnsureBusProxy
  <2>2. CallType'
    BY <1>0, <2>1, EndTypes
  <2>3. LinkType'
    <3>1. watching' \in BOOLEAN
      BY <1>0, <2>1, Zenon DEF LinkType
    <3>2. proxy' \in 0..MaxStarts
      BY <2>1, MaxStartsAssumption
    <3> QED BY <1>0, <3>1, <3>2, Zenon DEF LinkType
  <2>4. LinkInv'
    BY <1>0, <1>2, <2>1 DEF LinkInv, EndsInGone, StaleProxyIsTold, Stale, Ended
  <2> QED BY <1>3, <2>2, <2>3, <2>4 DEF TypeOK
<1> QED BY <1>1, <1>2

\* The proxy is bound to the owner of the moment.
LEMMA EnsureProxyInv == TypeOK /\ LinkInv /\ EnsureProxy => TypeOK' /\ LinkInv'
<1> SUFFICES ASSUME TypeOK, LinkInv, EnsureProxy PROVE TypeOK' /\ LinkInv'
  OBVIOUS
<1>0. /\ at = "find" /\ CallType /\ LinkType /\ BusType
      /\ UNCHANGED <<todo, peer, done, conn, queue, watching, owner>>
  BY DEF EnsureProxy, TypeOK, bus
<1>3. BusType' /\ SessionType' /\ UNCHANGED <<phase, logout_type>>
  BY BusStays, SessionStays DEF EnsureProxy, TypeOK, session
<1>1. CASE proxy # 0 \/ (conn = "live" /\ owner # 0)
  <2>1. /\ proxy' = IF proxy = 0 THEN owner ELSE proxy
        /\ at' = "call" /\ left' = Trips(Head(todo)) /\ UNCHANGED ok
    BY <1>1 DEF EnsureProxy
  <2>2. left' \in 0..3
    BY <2>1, TripsType
  <2>3. CallType'
    BY <1>0, <2>1, <2>2 DEF CallType
  <2>4. LinkType'
    <3>1. proxy' \in 0..MaxStarts
      BY <1>0, <2>1, MaxStartsAssumption DEF LinkType, BusType
    <3> QED BY <1>0, <3>1, Zenon DEF LinkType
  <2>5. LinkInv'
    BY <1>0, <2>1 DEF LinkInv, EndsInGone, StaleProxyIsTold, Stale
  <2> QED BY <1>3, <2>3, <2>4, <2>5 DEF TypeOK
<1>2. CASE ~(proxy # 0 \/ (conn = "live" /\ owner # 0))
  <2>1. UNCHANGED <<proxy, left>> /\ Ended(FALSE)
    BY <1>2 DEF EnsureProxy
  <2>2. CallType'
    BY <1>0, <2>1, EndTypes
  <2>3. LinkType'
    BY <1>0, <2>1, LinkStays DEF link
  <2>4. LinkInv'
    BY <1>0, <2>1 DEF LinkInv, EndsInGone, StaleProxyIsTold, Stale, Ended
  <2> QED BY <1>3, <2>2, <2>3, <2>4 DEF TypeOK
<1> QED BY <1>1, <1>2

-----------------------------------------------------------------------------
\* The call itself, its reply, and what the handler does with it.
LEMMA CallInv == TypeOK /\ LinkInv /\ Call => TypeOK' /\ LinkInv'
<1> SUFFICES ASSUME TypeOK, LinkInv, Call PROVE TypeOK' /\ LinkInv'
  OBVIOUS
<1>0. at = "call" /\ CallType /\ UNCHANGED <<todo, left, logind, bus, link>>
  BY DEF Call, TypeOK
<1>1. SessionType' /\ UNCHANGED <<phase, logout_type>>
  BY SessionStays DEF Call, TypeOK, session
<1>2. CallType' /\ at' # "find"
  <2>1. CASE left = 0
    <3>1. PICK answer \in BOOLEAN : Ended(answer)
      BY <2>1 DEF Call
    <3>2. UNCHANGED <<peer, done>>
      BY <2>1 DEF Call
    <3> QED BY <1>0, <3>1, <3>2, EndTypes DEF Ended
  <2>2. CASE left # 0 /\ at' = "wait" /\ peer' = owner /\ done' = done \ {Head(todo).what} /\ UNCHANGED ok
    <3>1. peer' \in 0..MaxStarts
      BY <2>2, MaxStartsAssumption DEF TypeOK, BusType
    <3>2. done' \in SUBSET (Powers \union {"SWITCH", "NONE"})
      BY <1>0, <2>2 DEF CallType
    <3> QED BY <1>0, <2>2, <3>1, <3>2 DEF CallType
  <2>3. CASE Ended(FALSE) /\ UNCHANGED <<peer, done>>
    BY <1>0, <2>3, EndTypes DEF Ended
  <2> QED BY <2>1, <2>2, <2>3 DEF Call
<1> QED BY <1>0, <1>1, <1>2, QuietInv DEF TypeOK

\* A reply ends a round trip, or the call.
LEMMA RepliesInv == TypeOK /\ LinkInv /\ Replies => TypeOK' /\ LinkInv'
<1> SUFFICES ASSUME TypeOK, LinkInv, Replies PROVE TypeOK' /\ LinkInv'
  OBVIOUS
<1>0. at = "wait" /\ CallType /\ UNCHANGED <<todo, peer, done, logind, bus, link>>
  BY DEF Replies, TypeOK
<1>1. SessionType' /\ UNCHANGED <<phase, logout_type>>
  BY SessionStays DEF Replies, TypeOK, session
<1>2. PICK answer \in BOOLEAN :
        IF answer /\ left > 1
        THEN at' = "call" /\ left' = left - 1 /\ UNCHANGED ok
        ELSE Ended(answer) /\ UNCHANGED left
  BY DEF Replies
<1>3. CallType' /\ at' # "find"
  <2>1. CASE answer /\ left > 1
    <3>1. at' = "call" /\ left' = left - 1 /\ UNCHANGED ok
      BY <1>2, <2>1
    <3>2. left' \in 0..3
      BY <1>0, <2>1, <3>1 DEF CallType
    <3> QED BY <1>0, <3>1, <3>2 DEF CallType
  <2>2. CASE ~(answer /\ left > 1)
    <3>1. Ended(answer) /\ UNCHANGED left
      BY <1>2, <2>2
    <3> QED BY <1>0, <3>1, EndTypes DEF Ended
  <2> QED BY <2>1, <2>2
<1> QED BY <1>0, <1>1, <1>3, QuietInv DEF TypeOK

\* The ends of a call that only choose what is called next.
LEMMA EndsInv ==
  ASSUME TypeOK, LinkInv,
         OfferAnswered \/ AnyAnswered \/ CheckAnswered \/ SleepAttempted
           \/ IdleHintSent \/ ConnectionRenewed
  PROVE  TypeOK' /\ LinkInv'
<1>0. at = "end" /\ CallType
  BY DEF OfferAnswered, AnyAnswered, CheckAnswered, SleepAttempted, IdleHintSent,
         ConnectionRenewed, Over, TypeOK
<1>1. /\ Head(todo).what \in Powers \union {"SWITCH", "NONE"}
      /\ Tail(todo) \in Seq(Ops) /\ <<>> \in Seq(Ops)
      /\ <<Op("attempt", Head(todo).what)>> \in Seq(Ops)
  BY <1>0, HeadType, OneOp DEF Kinds
<1>2. \E ops \in Seq(Ops) : Continue(ops)
  <2>1. CASE OfferAnswered
    BY <1>1, <2>1 DEF OfferAnswered
  <2>2. CASE AnyAnswered
    BY <1>1, <2>2 DEF AnyAnswered
  <2>3. CASE CheckAnswered
    BY <1>1, <2>3 DEF CheckAnswered
  <2>4. CASE SleepAttempted \/ IdleHintSent \/ ConnectionRenewed
    BY <1>1, <2>4 DEF SleepAttempted, IdleHintSent, ConnectionRenewed
  <2> QED BY <2>1, <2>2, <2>3, <2>4
<1>3. CallType' /\ at' # "find"
  <2>1. PICK ops \in Seq(Ops) : Continue(ops)
    BY <1>2
  <2> QED BY <2>1, ContinueType, BeginType, MaxStartsAssumption DEF Continue
<1>4. UNCHANGED <<logind, bus, link, phase, logout_type>>
  BY DEF OfferAnswered, AnyAnswered, CheckAnswered, SleepAttempted, IdleHintSent,
         ConnectionRenewed, session
<1>5. SessionType'
  <2>1. CASE OfferAnswered
    <3>1. PICK supported \in SupportedActions :
            offered' = IF ok \/ Head(todo).what \in supported
                       THEN offered \union {Head(todo).what} ELSE offered
      BY <2>1 DEF OfferAnswered
    <3>2. offered' \in SUBSET (Powers \union {"SWITCH", "NONE"})
      BY <1>1, <3>1 DEF TypeOK, SessionType
    <3> QED BY <2>1, <3>2 DEF OfferAnswered, TypeOK, SessionType, mdm
  <2>2. CASE AnyAnswered \/ IdleHintSent \/ ConnectionRenewed
    BY <2>2, SessionStays DEF AnyAnswered, IdleHintSent, ConnectionRenewed, TypeOK
  <2>3. CASE CheckAnswered \/ SleepAttempted
    <3>1. locked' \in BOOLEAN
      <4>1. locked' = TRUE \/ locked' = FALSE \/ locked' = locked
        BY <2>3 DEF CheckAnswered, SleepAttempted, PerhapsLock
      <4> QED BY <4>1, Zenon DEF TypeOK, SessionType
    <3>2. UNCHANGED <<phase, logout_type, offered, dialog, dmAction, missed>>
      BY <2>3 DEF CheckAnswered, SleepAttempted, mdm
    <3> QED BY <3>1, <3>2, Zenon DEF TypeOK, SessionType
  <2> QED BY <2>1, <2>2, <2>3
<1> QED BY <1>3, <1>4, <1>5, QuietInv DEF TypeOK

\* The action of the display manager is one of its actions.
LEMMA SetLogoutActionType ==
  ASSUME SessionType, NEW action \in Ends \union {"NONE"}, SetLogoutAction(action)
  PROVE  dmAction' \in Ends \union {"NONE"} /\ missed' \in BOOLEAN
<1>1. dmAction' \in Ends \union {"NONE"}
  BY DEF SetLogoutAction, Unreachable, SessionType
<1>2. missed' \in BOOLEAN
  BY Zenon DEF SetLogoutAction, Unreachable
<1> QED BY <1>1, <1>2

\* The attempt of the exit is over, and so is the session.
LEMMA QuitAttemptedInv == TypeOK /\ LinkInv /\ QuitAttempted => TypeOK' /\ LinkInv'
<1> SUFFICES ASSUME TypeOK, LinkInv, QuitAttempted PROVE TypeOK' /\ LinkInv'
  OBVIOUS
<1>0. /\ CallType /\ phase' = "exited" /\ <<>> \in Seq(Ops) /\ Begin(<<>>)
      /\ UNCHANGED <<logind, bus, link, peer, left, ok, done, logout_type, offered, dialog, locked>>
  BY DEF QuitAttempted, TypeOK
<1>1. todo' \in Seq(Ops) /\ at' \in {"idle", "connect"} /\ (at' # "idle" => todo' # <<>>)
  BY <1>0, BeginType
<1>2. CallType' /\ at' # "find"
  BY <1>0, <1>1 DEF CallType
<1>3. dmAction' \in Ends \union {"NONE"} /\ missed' \in BOOLEAN
  <2>1. CASE ok
    <3>1. UNCHANGED <<dmAction, missed>>
      BY <2>1 DEF QuitAttempted
    <3> QED BY <3>1, Zenon DEF TypeOK, SessionType
  <2>2. CASE ~ok
    <3>1. SetLogoutAction(Head(todo).what) /\ Head(todo).what \in Ends
      BY <2>2 DEF QuitAttempted
    <3> QED BY <3>1, SetLogoutActionType DEF TypeOK
  <2> QED BY <2>1, <2>2
<1>4. SessionType'
  BY <1>0, <1>3, Zenon DEF TypeOK, SessionType
<1> QED BY <1>0, <1>2, <1>4, QuietInv

\* The steps of one call.
LEMMA CallStepsInv == TypeOK /\ LinkInv /\ CallSteps => TypeOK' /\ LinkInv'
  BY EnsureConnectionInv, EnsureBusProxyInv, EnsureProxyInv, CallInv, RepliesInv,
     TimesOutInv, EndsInv, QuitAttemptedInv DEF CallSteps

-----------------------------------------------------------------------------
\* The two messages that drop the proxy.
LEMMA OnNameOwnerChangedInv == TypeOK /\ LinkInv /\ OnNameOwnerChanged => TypeOK' /\ LinkInv'
<1> SUFFICES ASSUME TypeOK, LinkInv, OnNameOwnerChanged PROVE TypeOK' /\ LinkInv'
  OBVIOUS
<1>0. /\ LinkType /\ CallType /\ queue # <<>> /\ Head(queue) = "owner"
      /\ queue' = Tail(queue) /\ proxy' = 0 /\ Begin(<<Op("renew", "NONE")>>)
      /\ UNCHANGED <<logind, bus, conn, watching, peer, left, ok, done, session, mdm>>
  BY DEF OnNameOwnerChanged, TypeOK
<1>1. /\ todo' \in Seq(Ops) /\ at' \in {"idle", "connect"}
      /\ at' # "idle" => todo' # <<>>
  <2>1. <<Op("renew", "NONE")>> \in Seq(Ops)
    BY OneOp DEF Kinds
  <2> QED BY <1>0, <2>1, BeginType
<1>2. CallType'
  BY <1>0, <1>1 DEF CallType
<1>3. LinkType'
  <2>1. queue' \in Seq({"owner", "gone"}) /\ proxy' \in 0..MaxStarts
    BY <1>0, QueueType, MaxStartsAssumption
  <2>2. conn' = conn /\ watching' = watching
    BY <1>0
  <2> QED BY <1>0, <2>1, <2>2, Zenon DEF LinkType
<1>4. LinkInv'
  <2>1. EndsInGone => EndsInGone'
    <3> SUFFICES ASSUME EndsInGone PROVE EndsInGone'
      OBVIOUS
    <3>1. queue \in Seq({"owner", "gone"}) /\ Len(queue) \in Nat /\ queue[1] = "owner"
      BY <1>0 DEF LinkType
    <3>2. queue[Len(queue)] = "gone" /\ Len(queue) # 1 /\ Len(queue) # 0
      BY <3>1, <1>0 DEF EndsInGone
    <3>3. Len(queue') = Len(queue) - 1
      BY <1>0, <3>1
    <3>4. queue'[Len(queue) - 1] = queue[Len(queue)]
      BY <1>0, <3>1, <3>2
    <3> QED BY <3>1, <3>2, <3>3, <3>4 DEF EndsInGone
  <2> QED BY <1>0, <1>1, <2>1 DEF LinkInv, StaleProxyIsTold, Stale
<1>5. BusType' /\ SessionType' /\ UNCHANGED <<phase, logout_type>>
  BY <1>0, BusStays, SessionStays DEF TypeOK, session
<1> QED BY <1>2, <1>3, <1>4, <1>5 DEF TypeOK

\* The connection that is gone is freed with its proxies.
LEMMA OnDisconnectedInv == TypeOK /\ LinkInv /\ OnDisconnected => TypeOK' /\ LinkInv'
<1> SUFFICES ASSUME TypeOK, LinkInv, OnDisconnected PROVE TypeOK' /\ LinkInv'
  OBVIOUS
<1>0. /\ LinkType /\ queue # <<>> /\ at = "idle"
      /\ queue' = Tail(queue) /\ conn' = "none" /\ watching' = FALSE /\ proxy' = 0
      /\ UNCHANGED <<logind, bus, call, session, mdm>>
  BY DEF OnDisconnected, Runs, TypeOK
<1>1. LinkType'
  <2>1. queue' \in Seq({"owner", "gone"}) /\ proxy' \in 0..MaxStarts
    BY <1>0, QueueType, MaxStartsAssumption
  <2>2. conn' \in {"none", "live", "dead"}
    BY <1>0
  <2>3. watching' \in BOOLEAN
    BY <1>0, Zenon
  <2> QED BY <2>1, <2>2, <2>3, Zenon DEF LinkType
<1>2. LinkInv'
  BY <1>0 DEF LinkInv, StaleProxyIsTold, Stale, call
<1>3. BusType' /\ CallType' /\ SessionType' /\ UNCHANGED <<phase, logout_type>>
  BY <1>0, BusStays, CallStays, SessionStays DEF TypeOK, session
<1> QED BY <1>1, <1>2, <1>3 DEF TypeOK

\* The other handlers touch neither the link nor the bus.
LEMMA AskingInv ==
  ASSUME TypeOK, LinkInv,
         \/ OnPresenceStatusChanged \/ CanShutdown
         \/ \E kind \in {"logout", "shutdown"} : OpenDialog(kind)
  PROVE  TypeOK' /\ LinkInv'
<1>0. /\ UNCHANGED <<logind, bus, link, peer, left, ok, done, phase, logout_type>>
      /\ CallType /\ SessionType
  BY DEF OnPresenceStatusChanged, CanShutdown, OpenDialog, session, TypeOK
<1>1. \E ops \in Seq(Ops) : Begin(ops)
  <2>1. /\ Op("idle", "NONE") \in Ops /\ Op("offer", "SWITCH") \in Ops
        /\ \A what \in Powers : Op("any", what) \in Ops /\ Op("offer", what) \in Ops
    BY DEF Op, Ops, Kinds
  <2>2. Powers = {"SUSPEND", "HIBERNATE", "REBOOT", "SHUTDOWN"}
    BY DEF Powers, Sleeps, Ends
  <2> HIDE DEF Op
  <2>3. /\ <<Op("idle", "NONE")>> \in Seq(Ops) /\ <<Op("offer", "SWITCH")>> \in Seq(Ops)
        /\ <<Op("any", "SHUTDOWN"), Op("any", "REBOOT"), Op("any", "SUSPEND"),
             Op("any", "HIBERNATE")>> \in Seq(Ops)
        /\ <<Op("offer", "SUSPEND"), Op("offer", "HIBERNATE"),
             Op("offer", "REBOOT"), Op("offer", "SHUTDOWN")>> \in Seq(Ops)
    BY <2>1, <2>2
  <2> QED BY <2>3 DEF OnPresenceStatusChanged, CanShutdown, OpenDialog
<1>2. CallType' /\ at' # "find"
  <2>1. PICK ops \in Seq(Ops) : Begin(ops)
    BY <1>1
  <2>2. todo' \in Seq(Ops) /\ at' \in {"idle", "connect"} /\ (at' # "idle" => todo' # <<>>)
    BY <2>1, BeginType
  <2> QED BY <1>0, <2>2 DEF CallType
<1>3. SessionType'
  <2>1. CASE OnPresenceStatusChanged \/ CanShutdown
    BY <1>0, <2>1, SessionStays DEF OnPresenceStatusChanged, CanShutdown
  <2>2. CASE \E kind \in {"logout", "shutdown"} : OpenDialog(kind)
    <3>1. /\ dialog' \in {"none", "logout", "shutdown"} /\ offered' = {}
          /\ UNCHANGED <<phase, logout_type, locked, dmAction, missed>>
      BY <2>2 DEF OpenDialog, mdm
    <3> QED BY <1>0, <3>1, Zenon DEF SessionType
  <2> QED BY <2>1, <2>2
<1> QED BY <1>0, <1>2, <1>3, QuietInv DEF TypeOK

\* A request to sleep keeps the types.
LEMMA AttemptSleepType ==
  ASSUME CallType, SessionType, NEW what \in Sleeps, AttemptSleep(what),
         UNCHANGED <<peer, left, ok, done>>
  PROVE  CallType' /\ at' # "find" /\ locked' \in BOOLEAN
<1>1. what \in Powers \union {"SWITCH", "NONE"}
  BY DEF Powers
<1>2. <<Op("attempt", what)>> \in Seq(Ops) /\ <<Op("check", what)>> \in Seq(Ops)
  BY <1>1, OneOp DEF Kinds
<1>3. \E ops \in Seq(Ops) : Begin(ops)
  BY <1>2 DEF AttemptSleep
<1>4. todo' \in Seq(Ops) /\ at' \in {"idle", "connect"} /\ (at' # "idle" => todo' # <<>>)
  BY <1>3, BeginType
<1>5. locked' = TRUE \/ locked' = locked
  BY DEF AttemptSleep, PerhapsLock
<1>6. locked' \in BOOLEAN
  BY <1>5, Zenon DEF SessionType
<1> QED BY <1>4, <1>6 DEF CallType

\* Sleep and switching the user, from the dialog or past its inhibitors.
LEMMA SleepChosenInv ==
  ASSUME TypeOK, LinkInv, SleepOrSwitchChosen \/ DoInhibitDialogAction
  PROVE  TypeOK' /\ LinkInv'
<1>0. /\ at = "idle" /\ CallType /\ SessionType
      /\ UNCHANGED <<logind, bus, link, peer, left, ok, done, phase, logout_type, dmAction, missed>>
  BY DEF SleepOrSwitchChosen, DoInhibitDialogAction, Runs, TypeOK, mdm
<1>1. (\E what \in Sleeps : AttemptSleep(what)) \/ UNCHANGED <<todo, at, locked>>
  BY DEF SleepOrSwitchChosen, DoInhibitDialogAction
<1>2. CallType' /\ at' # "find" /\ locked' \in BOOLEAN
  <2>1. CASE \E what \in Sleeps : AttemptSleep(what)
    BY <1>0, <2>1, AttemptSleepType
  <2>2. CASE UNCHANGED <<todo, at, locked>>
    <3>1. CallType' /\ at' # "find"
      BY <1>0, <2>2, CallStays DEF call
    <3>2. locked' \in BOOLEAN
      BY <1>0, <2>2, Zenon DEF SessionType
    <3> QED BY <3>1, <3>2
  <2> QED BY <1>1, <2>1, <2>2
<1>3. /\ offered' \in SUBSET (Powers \union {"SWITCH", "NONE"})
      /\ dialog' \in {"none", "logout", "shutdown"}
  BY <1>0 DEF SleepOrSwitchChosen, DoInhibitDialogAction, SessionType
<1>4. SessionType'
  BY <1>0, <1>2, <1>3, Zenon DEF SessionType
<1> QED BY <1>0, <1>2, <1>4, QuietInv DEF TypeOK

\* The session is asked to end, or taken back.
LEMMA EndingInv ==
  ASSUME TypeOK, LinkInv,
         DialogCancelled \/ EndChosen \/ RequestLogout \/ CancelEndSession
  PROVE  TypeOK' /\ LinkInv'
<1>0. /\ at = "idle" /\ CallType /\ SessionType /\ UNCHANGED <<logind, bus, link, call, locked>>
  BY DEF DialogCancelled, EndChosen, RequestLogout, CancelEndSession, Runs, TypeOK
<1>1. /\ phase' \in {"running", "ending", "quitting", "exited"}
      /\ logout_type' \in Ends \union {"NONE", "LOGOUT"}
      /\ phase' = "ending" => logout_type' # "NONE"
  BY DEF DialogCancelled, EndChosen, RequestLogout, CancelEndSession, TypeOK, SessionType, Ends
<1>2. /\ offered' \in SUBSET (Powers \union {"SWITCH", "NONE"})
      /\ dialog' \in {"none", "logout", "shutdown"}
  BY DEF DialogCancelled, EndChosen, RequestLogout, CancelEndSession, TypeOK, SessionType
<1>3. dmAction' \in Ends \union {"NONE"} /\ missed' \in BOOLEAN
  <2>1. SetLogoutAction("NONE") \/ UNCHANGED mdm
    BY DEF DialogCancelled, EndChosen, RequestLogout, CancelEndSession
  <2>2. CASE UNCHANGED mdm
    BY <1>0, <2>2, Zenon DEF mdm, SessionType
  <2>3. CASE SetLogoutAction("NONE")
    BY <1>0, <2>3, SetLogoutActionType
  <2> QED BY <2>1, <2>2, <2>3
<1>4. SessionType'
  BY <1>0, <1>1, <1>2, <1>3, Zenon DEF SessionType
<1>5. CallType' /\ at' # "find"
  BY <1>0, CallStays DEF call
<1> QED BY <1>0, <1>1, <1>4, <1>5, QuietInv

\* The exit phase makes its attempt.
LEMMA QuitInv == TypeOK /\ LinkInv /\ Quit => TypeOK' /\ LinkInv'
<1> SUFFICES ASSUME TypeOK, LinkInv, Quit PROVE TypeOK' /\ LinkInv'
  OBVIOUS
<1>0. /\ at = "idle" /\ CallType /\ SessionType /\ logout_type \in Ends \union {"LOGOUT"}
      /\ UNCHANGED <<logind, bus, link, peer, left, ok, done, logout_type, offered, dialog, locked>>
  BY DEF Quit, Runs, TypeOK, SessionType
<1>1. CASE logout_type = "LOGOUT"
  <2>1. phase' = "exited" /\ UNCHANGED <<todo, at, dmAction, missed>>
    BY <1>1 DEF Quit
  <2>2. CallType' /\ at' # "find"
    BY <1>0, <2>1, CallStays DEF call
  <2>3. SessionType'
    BY <1>0, <2>1, Zenon DEF SessionType
  <2> QED BY <1>0, <2>1, <2>2, <2>3, QuietInv
<1>2. CASE logout_type # "LOGOUT"
  <2>1. /\ SetLogoutAction("NONE") /\ phase' = "quitting"
        /\ Begin(<<Op("attempt", logout_type)>>)
    BY <1>2 DEF Quit
  <2>2. <<Op("attempt", logout_type)>> \in Seq(Ops)
    BY <1>0, <1>2, OneOp DEF Kinds, Powers
  <2>3. todo' \in Seq(Ops) /\ at' \in {"idle", "connect"} /\ (at' # "idle" => todo' # <<>>)
    BY <2>1, <2>2, BeginType
  <2>4. CallType' /\ at' # "find"
    BY <1>0, <2>3 DEF CallType
  <2>5. dmAction' \in Ends \union {"NONE"} /\ missed' \in BOOLEAN
    BY <1>0, <2>1, SetLogoutActionType
  <2>6. SessionType'
    BY <1>0, <2>1, <2>5, Zenon DEF SessionType
  <2> QED BY <1>0, <2>1, <2>4, <2>6, QuietInv
<1> QED BY <1>1, <1>2

\* Every step keeps types and links.
LEMMA NextInv == TypeOK /\ LinkInv /\ [Next]_vars => TypeOK' /\ LinkInv'
<1>1. TypeOK /\ LinkInv /\ Handlers => TypeOK' /\ LinkInv'
  BY OnNameOwnerChangedInv, OnDisconnectedInv, AskingInv, SleepChosenInv, EndingInv, QuitInv
  DEF Handlers, Dispatches
<1>2. TypeOK /\ LinkInv /\ UNCHANGED vars => TypeOK' /\ LinkInv'
  <2> SUFFICES ASSUME TypeOK, LinkInv, UNCHANGED vars PROVE TypeOK' /\ LinkInv'
    OBVIOUS
  <2>1. UNCHANGED <<logind, bus, link, call, session, mdm, phase, logout_type, at>>
    BY DEF vars, session, call
  <2>2. BusType' /\ LinkType' /\ CallType' /\ SessionType'
    BY <2>1, BusStays, LinkStays, CallStays, SessionStays DEF TypeOK
  <2>3. LinkInv'
    BY <2>1 DEF LinkInv, link, bus, EndsInGone, StaleProxyIsTold, Stale
  <2> QED BY <2>1, <2>2, <2>3 DEF TypeOK
<1> QED BY <1>1, <1>2, CallStepsInv, WorldInv DEF Next

-----------------------------------------------------------------------------
(***************************************************************************)
(* The end of the session.  Only gsm_manager_quit asks the login manager   *)
(* for a restart or a shutdown, and it first takes back what the display   *)
(* manager keeps.                                                          *)
(***************************************************************************)
MildOps == {op \in Ops : op.kind \in {"attempt", "check"} => op.what \in Sleeps}

TakenBack == dmAction = "NONE" \/ missed

Quitting ==
  /\ logout_type \in Ends
  /\ todo = <<Op("attempt", logout_type)>>
  /\ TakenBack
  /\ at = "call" => left > 0
  /\ at = "end" /\ ok => logout_type \in done

EndInv ==
  /\ phase \in {"running", "ending"} => todo \in Seq(MildOps)
  /\ phase = "quitting" => Quitting
  /\ phase = "exited" => at = "idle" /\ RequestIsNotLost /\ OnlyOneIsAsked

\* What concerns neither calls nor session keeps EndInv.
LEMMA EndInvStays ==
  EndInv /\ UNCHANGED <<call, phase, logout_type, mdm>> => EndInv'
  BY DEF EndInv, Quitting, TakenBack, RequestIsNotLost, OnlyOneIsAsked, call, mdm

\* One call that restarts nothing is a queue of such calls.
LEMMA OneMildOp ==
  ASSUME NEW kind \in Kinds, NEW what \in Powers \union {"SWITCH", "NONE"},
         kind \in {"attempt", "check"} => what \in Sleeps
  PROVE  <<Op(kind, what)>> \in Seq(MildOps)
<1>1. Op(kind, what) \in MildOps
  BY DEF Op, Ops, MildOps
<1> HIDE DEF Op
<1> QED BY <1>1

\* The display manager has the action, or could not be reached.
LEMMA SetAction ==
  ASSUME NEW action, SetLogoutAction(action)
  PROVE  dmAction' = action \/ missed'
  BY Zenon DEF SetLogoutAction

\* The last call: the login manager has carried out what it says it has.
LEMMA LastCall ==
  ASSUME TypeOK, EndInv, phase = "quitting", CallSteps \/ CarriesOut \/ CallTimesOut
  PROVE  EndInv'
<1>1. /\ logout_type \in Ends /\ todo = <<Op("attempt", logout_type)>> /\ TakenBack
      /\ at = "call" => left > 0
      /\ at = "end" /\ ok => logout_type \in done
  BY DEF EndInv, Quitting
<1>2. /\ Head(todo) = Op("attempt", logout_type)
      /\ Head(todo).kind = "attempt" /\ Head(todo).what = logout_type
      /\ logout_type \notin Sleeps /\ logout_type # "SWITCH"
  <2>1. Head(todo) = Op("attempt", logout_type)
    BY <1>1
  <2> QED BY <1>1, <2>1 DEF Op, Ends, Sleeps
<1>3. CASE QuitAttempted
  <2>1. phase' = "exited" /\ at' = "idle" /\ UNCHANGED <<ok, done, logout_type>> /\ at = "end"
    BY <1>3 DEF QuitAttempted, Begin, Over
  <2>2. CASE ok
    <3>1. UNCHANGED <<dmAction, missed>>
      BY <1>3, <2>2 DEF QuitAttempted
    <3> QED
      BY <1>1, <2>1, <2>2, <3>1, Zenon
      DEF EndInv, RequestIsNotLost, OnlyOneIsAsked, TakenBack
  <2>3. CASE ~ok
    <3>1. SetLogoutAction(logout_type)
      BY <1>2, <1>3, <2>3 DEF QuitAttempted
    <3>2. dmAction' = logout_type \/ missed'
      BY <3>1, SetAction
    <3> QED
      BY <2>1, <2>3, <3>2, Zenon DEF EndInv, RequestIsNotLost, OnlyOneIsAsked
  <2> QED BY <2>2, <2>3
<1>4. ASSUME UNCHANGED <<phase, logout_type, todo, mdm>>,
             at' = "call" => left' > 0,
             at' = "end" /\ ok' => logout_type \in done'
      PROVE  EndInv'
  <2>1. TakenBack'
    BY <1>1, <1>4, Zenon DEF TakenBack, mdm
  <2> QED BY <1>1, <1>4, <2>1 DEF EndInv, Quitting
<1>5. CASE EnsureConnection \/ EnsureBusProxy \/ ReplyIsLost \/ CallTimesOut
  <2>1. at' \in {"watch", "find", "end"} /\ (at' = "end" => ~ok')
    BY <1>5 DEF EnsureConnection, EnsureBusProxy, ReplyIsLost, CallTimesOut, Ended
  <2>2. UNCHANGED <<phase, logout_type, todo, mdm>>
    BY <1>5 DEF EnsureConnection, EnsureBusProxy, ReplyIsLost, CallTimesOut, session
  <2> QED BY <1>4, <2>1, <2>2
<1>6. CASE EnsureProxy
  <2>1. Trips(Head(todo)) = 1
    BY <1>2 DEF Trips
  <2>2. (at' = "call" /\ left' = 1) \/ (at' = "end" /\ ~ok')
    BY <1>6, <2>1 DEF EnsureProxy, Ended
  <2>3. UNCHANGED <<phase, logout_type, todo, mdm>>
    BY <1>6 DEF EnsureProxy, session
  <2> QED BY <1>4, <2>2, <2>3
<1>7. CASE Call
  <2>1. left # 0
    BY <1>1, <1>7 DEF Call
  <2>2. at' = "wait" \/ (at' = "end" /\ ~ok')
    BY <1>7, <2>1 DEF Call, Ended
  <2>3. UNCHANGED <<phase, logout_type, todo, mdm>>
    BY <1>7 DEF Call, session
  <2> QED BY <1>4, <2>2, <2>3
<1>8. CASE CarriesOut
  <2>1. at' = "wait" /\ UNCHANGED <<phase, logout_type, todo, mdm>>
    BY <1>8 DEF CarriesOut, session
  <2> QED BY <1>4, <2>1
<1>9. CASE Replies
  <2>1. PICK answer \in BOOLEAN :
          /\ answer <=> logout_type \in done
          /\ \/ answer /\ left > 1 /\ at' = "call" /\ left' = left - 1
             \/ Ended(answer)
    BY <1>2, <1>9 DEF Replies
  <2>2. UNCHANGED <<phase, logout_type, todo, mdm, done>>
    BY <1>9 DEF Replies, session
  <2>3. left \in 0..3
    BY DEF TypeOK, CallType
  <2>4. CASE left > 1 /\ at' = "call" /\ left' = left - 1
    <3>1. left' > 0
      BY <2>3, <2>4
    <3> QED BY <1>4, <2>2, <2>4, <3>1
  <2>5. CASE Ended(answer)
    <3>1. at' = "end" /\ (ok' => logout_type \in done')
      BY <2>1, <2>2, <2>5, Zenon DEF Ended
    <3> QED BY <1>4, <2>2, <3>1
  <2> QED BY <2>1, <2>4, <2>5
<1>10. /\ ~OfferAnswered /\ ~AnyAnswered /\ ~CheckAnswered /\ ~SleepAttempted
       /\ ~IdleHintSent /\ ~ConnectionRenewed
  BY <1>2 DEF OfferAnswered, AnyAnswered, CheckAnswered, SleepAttempted, IdleHintSent,
              ConnectionRenewed, Over
<1> QED BY <1>3, <1>5, <1>6, <1>7, <1>8, <1>9, <1>10 DEF CallSteps

\* Before the end nobody asks for a restart or a shutdown.
LEMMA EarlierCall ==
  ASSUME TypeOK, EndInv, phase \in {"running", "ending"},
         CallSteps \/ CarriesOut \/ CallTimesOut
  PROVE  EndInv'
<1>1. at # "idle" /\ todo \in Seq(MildOps) /\ todo # <<>>
  <2>1. at # "idle"
    BY DEF CallSteps, EnsureConnection, EnsureBusProxy, EnsureProxy, Call, Replies, ReplyIsLost,
           OfferAnswered, AnyAnswered, CheckAnswered, SleepAttempted, QuitAttempted,
           IdleHintSent, ConnectionRenewed, CarriesOut, CallTimesOut, Over
  <2> QED BY <2>1 DEF EndInv, TypeOK, CallType
<1>2. Head(todo) \in MildOps /\ Tail(todo) \in Seq(MildOps) /\ <<>> \in Seq(MildOps)
  BY <1>1
<1>3. /\ Head(todo).kind \in {"attempt", "check"} => Head(todo).what \in Sleeps
      /\ Head(todo).what \in Powers \union {"SWITCH", "NONE"}
  BY <1>2 DEF MildOps, Ops
<1>4. ~QuitAttempted
  BY <1>3 DEF QuitAttempted, Over, Sleeps, Ends
<1>5. phase' = phase
  BY <1>4 DEF CallSteps, EnsureConnection, EnsureBusProxy, EnsureProxy, Call, Replies,
              ReplyIsLost, OfferAnswered, AnyAnswered, CheckAnswered, SleepAttempted,
              IdleHintSent, ConnectionRenewed, CarriesOut, CallTimesOut, session
<1>6. todo' \in Seq(MildOps)
  <2>1. CASE \/ EnsureConnection \/ EnsureBusProxy \/ EnsureProxy \/ Call \/ Replies
             \/ ReplyIsLost \/ CarriesOut \/ CallTimesOut
    <3>1. todo' = todo
      BY <2>1 DEF EnsureConnection, EnsureBusProxy, EnsureProxy, Call, Replies, ReplyIsLost,
                  CarriesOut, CallTimesOut
    <3> QED BY <1>1, <3>1
  <2>2. CASE OfferAnswered \/ AnyAnswered \/ SleepAttempted \/ IdleHintSent \/ ConnectionRenewed
    <3>1. todo' \in {<<>>, Tail(todo)}
      BY <2>2 DEF OfferAnswered, AnyAnswered, SleepAttempted, IdleHintSent,
                  ConnectionRenewed, Continue, Begin
    <3> QED BY <1>2, <3>1
  <2>3. CASE CheckAnswered
    <3>1. todo' \in {<<>>, <<Op("attempt", Head(todo).what)>>} /\ Head(todo).kind = "check"
      BY <2>3 DEF CheckAnswered, Continue, Begin, Over
    <3>2. <<Op("attempt", Head(todo).what)>> \in Seq(MildOps)
      BY <1>3, <3>1, OneMildOp DEF Kinds
    <3> QED BY <1>2, <3>1, <3>2
  <2> QED BY <1>4, <2>1, <2>2, <2>3 DEF CallSteps
<1> QED BY <1>5, <1>6 DEF EndInv

\* No handler before the exit asks for a restart or a shutdown.
LEMMA HandlersEnd == ASSUME TypeOK, EndInv, Handlers PROVE EndInv'
<1>1. phase \in {"running", "ending"} /\ todo \in Seq(MildOps)
  BY DEF Handlers, Dispatches, OnNameOwnerChanged, OnDisconnected, OnPresenceStatusChanged,
         CanShutdown, OpenDialog, SleepOrSwitchChosen, DoInhibitDialogAction, DialogCancelled,
         EndChosen, RequestLogout, CancelEndSession, Quit, Runs, EndInv
<1>2. ASSUME phase' \in {"running", "ending"}, todo' \in Seq(MildOps)
      PROVE  EndInv'
  BY <1>2 DEF EndInv
<1>3. CASE Quit
  <2>1. CASE logout_type = "LOGOUT"
    <3>1. phase' = "exited" /\ at' = at /\ at = "idle" /\ logout_type' \notin Ends
      BY <1>3, <2>1 DEF Quit, Runs, Ends
    <3> QED BY <3>1 DEF EndInv, RequestIsNotLost, OnlyOneIsAsked
  <2>2. CASE logout_type # "LOGOUT"
    <3>1. /\ SetLogoutAction("NONE") /\ phase' = "quitting" /\ logout_type' = logout_type
          /\ todo' = <<Op("attempt", logout_type)>> /\ at' \in {"idle", "connect"}
      BY <1>3, <2>2 DEF Quit, Begin
    <3>2. logout_type \in Ends
      BY <1>3, <2>2 DEF Quit, TypeOK, SessionType
    <3>3. TakenBack'
      BY <3>1, SetAction, Zenon DEF TakenBack
    <3> QED BY <3>1, <3>2, <3>3 DEF EndInv, Quitting
  <2> QED BY <2>1, <2>2
<1>4. CASE OnDisconnected \/ DialogCancelled \/ EndChosen \/ RequestLogout \/ CancelEndSession
  <2>1. todo' = todo /\ phase' \in {"running", "ending"}
    BY <1>1, <1>4 DEF OnDisconnected, DialogCancelled, EndChosen, RequestLogout,
                      CancelEndSession, call, session
  <2> QED BY <1>1, <1>2, <2>1
<1>5. CASE \/ OnNameOwnerChanged \/ OnPresenceStatusChanged \/ CanShutdown
           \/ \E kind \in {"logout", "shutdown"} : OpenDialog(kind)
  <2>1. phase' = phase
    BY <1>5 DEF OnNameOwnerChanged, OnPresenceStatusChanged, CanShutdown, OpenDialog, session
  <2>2. /\ Op("renew", "NONE") \in MildOps /\ Op("idle", "NONE") \in MildOps
        /\ Op("offer", "SWITCH") \in MildOps
        /\ \A what \in Powers : Op("any", what) \in MildOps /\ Op("offer", what) \in MildOps
    BY DEF Op, Ops, Kinds, MildOps
  <2>3. Powers = {"SUSPEND", "HIBERNATE", "REBOOT", "SHUTDOWN"}
    BY DEF Powers, Sleeps, Ends
  <2> HIDE DEF Op
  <2>4. /\ <<Op("renew", "NONE")>> \in Seq(MildOps)
        /\ <<Op("idle", "NONE")>> \in Seq(MildOps) /\ <<Op("offer", "SWITCH")>> \in Seq(MildOps)
        /\ <<Op("any", "SHUTDOWN"), Op("any", "REBOOT"), Op("any", "SUSPEND"),
             Op("any", "HIBERNATE")>> \in Seq(MildOps)
        /\ <<Op("offer", "SUSPEND"), Op("offer", "HIBERNATE"),
             Op("offer", "REBOOT"), Op("offer", "SHUTDOWN")>> \in Seq(MildOps)
    BY <2>2, <2>3
  <2>5. todo' \in Seq(MildOps)
    BY <1>5, <2>4 DEF OnNameOwnerChanged, OnPresenceStatusChanged, CanShutdown, OpenDialog, Begin
  <2> QED BY <1>1, <1>2, <2>1, <2>5
<1>6. CASE SleepOrSwitchChosen \/ DoInhibitDialogAction
  <2>1. phase' = phase
    BY <1>6 DEF SleepOrSwitchChosen, DoInhibitDialogAction
  <2>2. (\E what \in Sleeps : AttemptSleep(what)) \/ todo' = todo
    BY <1>6 DEF SleepOrSwitchChosen, DoInhibitDialogAction
  <2>3. ASSUME NEW what \in Sleeps, AttemptSleep(what) PROVE todo' \in Seq(MildOps)
    <3>1. todo' \in {<<Op("attempt", what)>>, <<Op("check", what)>>}
      BY <2>3 DEF AttemptSleep, Begin
    <3>2. <<Op("attempt", what)>> \in Seq(MildOps) /\ <<Op("check", what)>> \in Seq(MildOps)
      BY OneMildOp DEF Kinds, Powers
    <3> QED BY <3>1, <3>2
  <2> QED BY <1>1, <1>2, <2>1, <2>2, <2>3
<1> QED BY <1>3, <1>4, <1>5, <1>6 DEF Handlers, Dispatches

\* Nor does the world ask in its place.
LEMMA WorldEnd == ASSUME TypeOK, EndInv, World PROVE EndInv'
<1>1. CASE CarriesOut \/ CallTimesOut
  <2>1. phase # "exited"
    BY <1>1 DEF CarriesOut, CallTimesOut, EndInv
  <2>2. phase \in {"running", "ending", "quitting"}
    BY <2>1 DEF TypeOK, SessionType
  <2> QED BY <1>1, <2>2, LastCall, EarlierCall
<1>2. CASE OwnerAppears \/ OwnerDies \/ BusFalls \/ BusReturns
  BY <1>2, EndInvStays DEF OwnerAppears, OwnerDies, BusFalls, BusReturns, session
<1> QED BY <1>1, <1>2 DEF World

\* Every step keeps EndInv.
LEMMA EndInvNext == TypeOK /\ EndInv /\ [Next]_vars => EndInv'
<1> SUFFICES ASSUME TypeOK, EndInv, [Next]_vars PROVE EndInv'
  OBVIOUS
<1>1. CASE CallSteps
  <2>1. at # "idle"
    BY <1>1 DEF CallSteps, EnsureConnection, EnsureBusProxy, EnsureProxy, Call, Replies,
                ReplyIsLost, OfferAnswered, AnyAnswered, CheckAnswered, SleepAttempted,
                QuitAttempted, IdleHintSent, ConnectionRenewed, Over
  <2>2. phase \in {"running", "ending", "quitting"}
    BY <2>1 DEF TypeOK, SessionType, EndInv
  <2> QED BY <1>1, <2>2, LastCall, EarlierCall
<1>2. CASE UNCHANGED vars
  BY <1>2, EndInvStays DEF vars, session
<1> QED BY <1>1, <1>2, HandlersEnd, WorldEnd DEF Next

\* At first nothing is asked.
LEMMA EndInvInit == Init => EndInv
<1>1. <<>> \in Seq(MildOps)
  OBVIOUS
<1> QED BY <1>1 DEF Init, EndInv

\* EndInv holds in every behaviour.
LEMMA EndInvariance == Spec => []EndInv
<1>1. Spec => [](TypeOK /\ LinkInv)
  BY InitInv, NextInv, PTL DEF Spec
<1> QED BY <1>1, EndInvInit, EndInvNext, PTL DEF Spec

\* gsm_manager_quit and its fallback: the restart or shutdown that was asked for is
\* carried out or left to the display manager, however the login manager fails.
THEOREM PowerRequestIsNotLost == Spec => []RequestIsNotLost
<1>1. TypeOK /\ EndInv => RequestIsNotLost
  BY DEF EndInv, RequestIsNotLost
<1>2. Spec => []TypeOK
  BY InitInv, NextInv, PTL DEF Spec
<1> QED BY <1>1, <1>2, EndInvariance, PTL

\* The display manager does not restart the machine behind a login manager that
\* agreed to: what an earlier session left there was taken back before the call.
THEOREM PowerOnlyOneIsAsked == Spec => []OnlyOneIsAsked
<1>1. EndInv => OnlyOneIsAsked
  BY DEF EndInv, OnlyOneIsAsked
<1> QED BY <1>1, EndInvariance, PTL

-----------------------------------------------------------------------------
\* The variables have their types, however often the login manager and the bus
\* come and go.
THEOREM PowerTypeCorrect == Spec => []TypeOK
<1>1. Spec => [](TypeOK /\ LinkInv)
  BY InitInv, NextInv, PTL DEF Spec
<1> QED BY <1>1, PTL

\* A proxy bound to a process that is gone is always about to be dropped: the
\* message that does it has been received.
THEOREM PowerStaleProxyIsTold == Spec => []StaleProxyIsTold
<1>1. Spec => [](TypeOK /\ LinkInv)
  BY InitInv, NextInv, PTL DEF Spec
<1>2. LinkInv => StaleProxyIsTold
  BY DEF LinkInv
<1> QED BY <1>1, <1>2, PTL
=============================================================================
