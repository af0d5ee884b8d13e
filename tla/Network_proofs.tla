--------------------------- MODULE Network_proofs ----------------------------
(***************************************************************************)
(* Proofs about how the device gets its network: iniciar_wifi with its     *)
(* event handler, for every number of retries; and the credentials, for    *)
(* every form, every content of the stack and every size of the buffers.   *)
(***************************************************************************)
EXTENDS Wifi, Provisioning, Lists_proofs

\* Nothing is owed to the station: at most an address may still be announced.
Settled == queue \in {<<>>, <<"STA_GOT_IP">>}

\* What can be pending.  A late address can follow the disconnection that
\* overtook it, or precede the next attempt's events, but there is never more
\* than one event that makes event_handler connect.
OffShape == dhcp = "off" /\ queue = <<>>

ConnectingShape == dhcp = "off" /\ Settled

UpShape ==
  \/ dhcp = "off" /\ Settled
  \/ dhcp = "off" /\ queue \in {<<"STA_CONNECTED">>, <<"STA_GOT_IP", "STA_CONNECTED">>}
  \/ dhcp # "off" /\ queue = <<>>

IdleShape ==
  \/ dhcp = "off" /\ Settled /\ (usable => "FAIL" \in bits)
  \/ dhcp = "off" /\ queue = <<"STA_START">> /\ attempts = 0 /\ s_retry_num = 0
  \/ dhcp = "off" /\ queue \in {<<"STA_GOT_IP", "STA_DISCONNECTED">>,
                                <<"STA_DISCONNECTED", "STA_GOT_IP">>,
                                <<"STA_CONNECTED", "STA_DISCONNECTED">>,
                                <<"STA_GOT_IP", "STA_CONNECTED", "STA_DISCONNECTED">>}
  \/ queue = <<"STA_DISCONNECTED">>

LinkInv ==
  /\ link \in {"off", "idle", "connecting", "up"}
  /\ dhcp \in {"off", "asking", "granted"}
  /\ link = "off" => OffShape /\ attempts = 0 /\ s_retry_num = 0
  /\ link = "connecting" => ConnectingShape
  /\ link = "up" => UpShape
  /\ link = "idle" => IdleShape

\* The calls of esp_wifi_connect and s_retry_num count together.
RetryInv ==
  /\ s_retry_num \in 0..EXAMPLE_ESP_MAXIMUM_RETRY
  /\ attempts \in {s_retry_num, s_retry_num + 1}

TaskInv ==
  /\ configurar \in BOOLEAN /\ usable \in BOOLEAN
  /\ main \in {"iniciar_wifi", "access_point", "xEventGroupWaitBits",
               "connected", "failed"}
  /\ main = "iniciar_wifi" => link = "off"
  /\ mode \in {"NULL", "AP", "STA"}
  /\ bits \subseteq {"CONNECTED", "FAIL"}

WInv == LinkInv /\ RetryInv /\ TaskInv

-----------------------------------------------------------------------------

LEMMA WInit == Init => WInv
<1> SUFFICES ASSUME Init PROVE WInv
  OBVIOUS
<1>1. LinkInv
  BY DEF Init, LinkInv, OffShape
<1>2. RetryInv
  BY RetryAssumption DEF Init, RetryInv
<1>3. TaskInv
  BY DEF Init, TaskInv
<1>4. QED
  BY <1>1, <1>2, <1>3 DEF WInv

\* Taking the first event from the queues that occur ...
LEMMA Dispatching ==
  ASSUME NEW a, NEW b, NEW c
  PROVE  /\ Head(<<a>>) = a /\ Tail(<<a>>) = <<>>
         /\ Head(<<a, b>>) = a /\ Tail(<<a, b>>) = <<b>>
         /\ Head(<<a, b, c>>) = a /\ Tail(<<a, b, c>>) = <<b, c>>
<1>1. Head(<<a>>) = a /\ Tail(<<a>>) = <<>>
  OBVIOUS
<1>2. Head(<<a, b>>) = a /\ Head(<<a, b, c>>) = a
  OBVIOUS
<1>3. Tail(<<a, b>>) = <<b>>
  OBVIOUS
<1>4. Tail(<<a, b, c>>) = <<b, c>>
  OBVIOUS
<1>5. QED
  BY <1>1, <1>2, <1>3, <1>4

\* ... and posting one behind them.
LEMMA Posting ==
  ASSUME NEW a, NEW b, NEW c
  PROVE  /\ Append(<<>>, a) = <<a>>
         /\ Append(<<a>>, b) = <<a, b>>
         /\ Append(<<a, b>>, c) = <<a, b, c>>
<1> DEFINE S == {a, b, c}
<1>1. /\ <<a>> \in Seq(S) /\ <<a, b>> \in Seq(S) /\ <<a, b, c>> \in Seq(S)
      /\ b \in S /\ c \in S
  OBVIOUS
<1>2. Append(<<>>, a) = <<a>>
  OBVIOUS
<1>3. Append(<<a>>, b) = <<a, b>>
  <2>1. Append(<<a>>, b) \in Seq(S) /\ Len(Append(<<a>>, b)) = 2
    BY <1>1
  <2>2. \A i \in 1..2 : Append(<<a>>, b)[i] = <<a, b>>[i]
    BY <1>1
  <2>3. QED
    BY <1>1, <2>1, <2>2, SeqEqual
<1>4. Append(<<a, b>>, c) = <<a, b, c>>
  <2>1. Append(<<a, b>>, c) \in Seq(S) /\ Len(Append(<<a, b>>, c)) = 3
    BY <1>1
  <2>2. \A i \in 1..3 : Append(<<a, b>>, c)[i] = <<a, b, c>>[i]
    BY <1>1
  <2>3. QED
    BY <1>1, <2>1, <2>2, SeqEqual
<1>5. QED
  BY <1>2, <1>3, <1>4

\* Every queue that LinkInv allows.
Shapes ==
  {<<>>, <<"STA_START">>, <<"STA_GOT_IP">>, <<"STA_CONNECTED">>, <<"STA_DISCONNECTED">>,
   <<"STA_GOT_IP", "STA_CONNECTED">>, <<"STA_GOT_IP", "STA_DISCONNECTED">>,
   <<"STA_DISCONNECTED", "STA_GOT_IP">>, <<"STA_CONNECTED", "STA_DISCONNECTED">>,
   <<"STA_GOT_IP", "STA_CONNECTED", "STA_DISCONNECTED">>}

LEMMA ShapeTyped == ASSUME NEW q \in Shapes PROVE q \in Seq(Events) /\ Len(q) <= 3
<1>1. <<>> \in Seq(Events) /\ Len(<<>>) <= 3
  OBVIOUS
<1>2. ASSUME NEW a \in Events PROVE <<a>> \in Seq(Events) /\ Len(<<a>>) <= 3
  OBVIOUS
<1>3. ASSUME NEW a \in Events, NEW b \in Events
      PROVE  <<a, b>> \in Seq(Events) /\ Len(<<a, b>>) <= 3
  OBVIOUS
<1>4. ASSUME NEW a \in Events, NEW b \in Events, NEW c \in Events
      PROVE  <<a, b, c>> \in Seq(Events) /\ Len(<<a, b, c>>) <= 3
  OBVIOUS
<1>5. \/ q = <<>> \/ \E a \in Events : q = <<a>>
      \/ \E a, b \in Events : q = <<a, b>>
      \/ \E a, b, c \in Events : q = <<a, b, c>>
  BY DEF Shapes, Events
<1>6. QED
  BY <1>1, <1>2, <1>3, <1>4, <1>5

LEMMA ShapeOf == LinkInv => queue \in Shapes
  BY DEF LinkInv, OffShape, ConnectingShape, UpShape, IdleShape, Settled, Shapes

\* What the queue was and becomes when its first event is dispatched.
LEMMA DispatchShapes ==
  ASSUME LinkInv, NEW e, Dispatched(e)
  PROVE  /\ e = "STA_START" => queue = <<"STA_START">> /\ queue' = <<>>
         /\ e = "STA_DISCONNECTED"
              => \/ queue = <<"STA_DISCONNECTED">> /\ queue' = <<>>
                 \/ queue = <<"STA_DISCONNECTED", "STA_GOT_IP">> /\ queue' = <<"STA_GOT_IP">>
         /\ e = "STA_CONNECTED"
              => \/ queue = <<"STA_CONNECTED">> /\ queue' = <<>>
                 \/ queue = <<"STA_CONNECTED", "STA_DISCONNECTED">> /\ queue' = <<"STA_DISCONNECTED">>
         /\ e = "STA_GOT_IP"
              => \/ queue = <<"STA_GOT_IP">> /\ queue' = <<>>
                 \/ queue = <<"STA_GOT_IP", "STA_CONNECTED">> /\ queue' = <<"STA_CONNECTED">>
                 \/ queue = <<"STA_GOT_IP", "STA_DISCONNECTED">> /\ queue' = <<"STA_DISCONNECTED">>
                 \/ /\ queue = <<"STA_GOT_IP", "STA_CONNECTED", "STA_DISCONNECTED">>
                    /\ queue' = <<"STA_CONNECTED", "STA_DISCONNECTED">>
<1>1. queue \in Shapes \ {<<>>} /\ Head(queue) = e /\ queue' = Tail(queue)
  BY ShapeOf DEF Dispatched
<1>2. CASE queue = <<"STA_START">>
  BY <1>1, <1>2, Dispatching
<1>3. CASE queue = <<"STA_GOT_IP">>
  BY <1>1, <1>3, Dispatching
<1>4. CASE queue = <<"STA_CONNECTED">>
  BY <1>1, <1>4, Dispatching
<1>5. CASE queue = <<"STA_DISCONNECTED">>
  BY <1>1, <1>5, Dispatching
<1>6. CASE queue = <<"STA_GOT_IP", "STA_CONNECTED">>
  BY <1>1, <1>6, Dispatching
<1>7. CASE queue = <<"STA_GOT_IP", "STA_DISCONNECTED">>
  BY <1>1, <1>7, Dispatching
<1>8. CASE queue = <<"STA_DISCONNECTED", "STA_GOT_IP">>
  BY <1>1, <1>8, Dispatching
<1>9. CASE queue = <<"STA_CONNECTED", "STA_DISCONNECTED">>
  BY <1>1, <1>9, Dispatching
<1>10. CASE queue = <<"STA_GOT_IP", "STA_CONNECTED", "STA_DISCONNECTED">>
  BY <1>1, <1>10, Dispatching
<1>11. QED
  BY <1>1, <1>2, <1>3, <1>4, <1>5, <1>6, <1>7, <1>8, <1>9, <1>10 DEF Shapes

-----------------------------------------------------------------------------

LEMMA EventLoopStep == WInv /\ EventLoop => LinkInv' /\ RetryInv'
<1> SUFFICES ASSUME WInv, EventLoop PROVE LinkInv' /\ RetryInv'
  OBVIOUS
<1> USE RetryAssumption DEF WInv, RetryInv
<1>1. CASE OnStaStart
  <2>1. queue = <<"STA_START">> /\ queue' = <<>>
    BY <1>1, DispatchShapes DEF OnStaStart
  <2>2. link = "idle" /\ dhcp = "off" /\ attempts = 0 /\ s_retry_num = 0
    BY <2>1 DEF LinkInv, OffShape, ConnectingShape, UpShape, IdleShape, Settled
  <2>3. RetryInv'
    BY <1>1, <2>2 DEF OnStaStart, EspWifiConnect
  <2>4. LinkInv'
    BY <1>1, <2>1, <2>2 DEF OnStaStart, EspWifiConnect, Dispatched, LinkInv,
       ConnectingShape, IdleShape, Settled
  <2>5. QED
    BY <2>3, <2>4
<1>2. CASE OnStaConnected
  <2>1. \/ queue = <<"STA_CONNECTED">> /\ queue' = <<>>
        \/ /\ queue = <<"STA_CONNECTED", "STA_DISCONNECTED">>
           /\ queue' = <<"STA_DISCONNECTED">>
    BY <1>2, DispatchShapes DEF OnStaConnected
  <2>2. \/ link = "up" /\ queue' = <<>>
        \/ link = "idle" /\ queue' = <<"STA_DISCONNECTED">>
    <3>1. CASE queue = <<"STA_CONNECTED">>
      <4>1. queue' = <<>>
        BY <2>1, <3>1
      <4>2. ~OffShape /\ ~ConnectingShape /\ ~IdleShape
        BY <3>1 DEF OffShape, ConnectingShape, IdleShape, Settled
      <4>3. QED
        BY <4>1, <4>2 DEF LinkInv
    <3>2. CASE queue = <<"STA_CONNECTED", "STA_DISCONNECTED">>
      BY <2>1, <3>2 DEF LinkInv, OffShape, ConnectingShape, UpShape, IdleShape, Settled
    <3>3. QED
      BY <2>1, <3>1, <3>2
  <2>3. LinkInv'
    BY <1>2, <2>2 DEF OnStaConnected, Dispatched, LinkInv, UpShape, IdleShape
  <2>4. QED
    BY <1>2, <2>3 DEF OnStaConnected
<1>3. CASE OnStaDisconnectedRetry \/ OnStaDisconnectedGiveUp
  <2>1. \/ queue = <<"STA_DISCONNECTED">> /\ queue' = <<>>
        \/ queue = <<"STA_DISCONNECTED", "STA_GOT_IP">> /\ queue' = <<"STA_GOT_IP">>
    BY <1>3, DispatchShapes DEF OnStaDisconnectedRetry, OnStaDisconnectedGiveUp
  <2>2. link = "idle" /\ queue' \in {<<>>, <<"STA_GOT_IP">>}
    BY <2>1 DEF LinkInv, OffShape, ConnectingShape, UpShape, IdleShape, Settled
  <2>3. usable => link' = "connecting" \/ "FAIL" \in bits'
    BY <1>3, <2>2 DEF OnStaDisconnectedRetry, OnStaDisconnectedGiveUp, EspWifiConnect,
       BitOfGivingUp
  <2>4. link' \in {"connecting", "idle"} /\ dhcp' = "off" /\ usable' = usable
    BY <1>3, <2>2 DEF OnStaDisconnectedRetry, OnStaDisconnectedGiveUp, EspWifiConnect,
       Dispatched
  <2>5. LinkInv'
    BY <2>2, <2>3, <2>4 DEF LinkInv, ConnectingShape, IdleShape, Settled
  <2>6. RetryInv'
    BY <1>3 DEF OnStaDisconnectedRetry, OnStaDisconnectedGiveUp, EspWifiConnect, RetriesLeft
  <2>7. QED
    BY <2>5, <2>6
<1>4. CASE OnStaGotIp
  <2>1. s_retry_num' = 0 /\ attempts' = 0 /\ UNCHANGED <<link, dhcp, usable>>
        /\ bits \subseteq bits'
    BY <1>4 DEF OnStaGotIp, Dispatched
  <2>2. \/ queue = <<"STA_GOT_IP">> /\ queue' = <<>>
        \/ queue = <<"STA_GOT_IP", "STA_CONNECTED">> /\ queue' = <<"STA_CONNECTED">>
        \/ queue = <<"STA_GOT_IP", "STA_DISCONNECTED">> /\ queue' = <<"STA_DISCONNECTED">>
        \/ /\ queue = <<"STA_GOT_IP", "STA_CONNECTED", "STA_DISCONNECTED">>
           /\ queue' = <<"STA_CONNECTED", "STA_DISCONNECTED">>
    BY <1>4, DispatchShapes DEF OnStaGotIp
  <2>3. link # "off" /\ link' # "off"
    BY <2>1, <2>2 DEF LinkInv, OffShape
  <2>4. LinkInv'
    <3>1. CASE queue = <<"STA_GOT_IP">>
      <4>1. queue' = <<>>
        BY <2>2, <3>1
      <4>2. dhcp = "off" /\ (link = "idle" => (usable => "FAIL" \in bits))
        BY <2>3, <3>1 DEF LinkInv, ConnectingShape, UpShape, IdleShape, Settled
      <4>3. QED
        BY <2>1, <2>3, <4>1, <4>2
        DEF LinkInv, ConnectingShape, UpShape, IdleShape, Settled
    <3>2. CASE queue = <<"STA_GOT_IP", "STA_CONNECTED">>
      <4>1. queue' = <<"STA_CONNECTED">>
        BY <2>2, <3>2
      <4>2. dhcp = "off" /\ link = "up"
        BY <2>3, <3>2 DEF LinkInv, ConnectingShape, UpShape, IdleShape, Settled
      <4>3. QED
        BY <2>1, <4>1, <4>2 DEF LinkInv, UpShape
    <3>3. CASE queue = <<"STA_GOT_IP", "STA_DISCONNECTED">>
      <4>1. queue' = <<"STA_DISCONNECTED">>
        BY <2>2, <3>3
      <4>2. dhcp = "off" /\ link = "idle"
        BY <2>3, <3>3 DEF LinkInv, ConnectingShape, UpShape, IdleShape, Settled
      <4>3. QED
        BY <2>1, <4>1, <4>2 DEF LinkInv, IdleShape
    <3>4. CASE queue = <<"STA_GOT_IP", "STA_CONNECTED", "STA_DISCONNECTED">>
      <4>1. queue' = <<"STA_CONNECTED", "STA_DISCONNECTED">>
        BY <2>2, <3>4
      <4>2. dhcp = "off" /\ link = "idle"
        BY <2>3, <3>4 DEF LinkInv, ConnectingShape, UpShape, IdleShape, Settled
      <4>3. QED
        BY <2>1, <4>1, <4>2 DEF LinkInv, IdleShape
    <3>5. QED
      BY <2>2, <3>1, <3>2, <3>3, <3>4
  <2>5. QED
    BY <2>1, <2>4
<1>5. QED
  BY <1>1, <1>2, <1>3, <1>4 DEF EventLoop

LEMMA RadioStep == WInv /\ Radio => LinkInv' /\ RetryInv'
<1> SUFFICES ASSUME WInv, Radio PROVE LinkInv' /\ RetryInv'
  OBVIOUS
<1> USE DEF WInv, RetryInv
<1>1. CASE AttemptFails
  <2>1. dhcp' = "off" /\ link' = "idle"
        /\ queue' \in {<<"STA_DISCONNECTED">>, <<"STA_GOT_IP", "STA_DISCONNECTED">>}
    BY <1>1, Posting DEF AttemptFails, Post, LinkInv, ConnectingShape, Settled
  <2>2. QED
    BY <1>1, <2>1 DEF AttemptFails, Post, LinkInv, IdleShape
<1>2. CASE AttemptSucceeds
  <2>1. dhcp' = "off" /\ link' = "up"
        /\ queue' \in {<<"STA_CONNECTED">>, <<"STA_GOT_IP", "STA_CONNECTED">>}
    BY <1>2, Posting DEF AttemptSucceeds, Post, LinkInv, ConnectingShape, Settled
  <2>2. QED
    BY <1>2, <2>1 DEF AttemptSucceeds, Post, LinkInv, UpShape
<1>3. CASE LinkLost
  <2>1. link = "up" /\ link' = "idle" /\ dhcp' = dhcp
        /\ queue' = Append(queue, "STA_DISCONNECTED")
    BY <1>3 DEF LinkLost, Post
  <2>2. CASE dhcp # "off"
    <3>1. queue' = <<"STA_DISCONNECTED">>
      BY <2>1, <2>2, Posting DEF LinkInv, UpShape
    <3>2. QED
      BY <1>3, <2>1, <3>1 DEF LinkLost, Post, LinkInv, IdleShape
  <2>3. CASE dhcp = "off"
    <3>1. queue \in {<<>>, <<"STA_GOT_IP">>, <<"STA_CONNECTED">>,
                     <<"STA_GOT_IP", "STA_CONNECTED">>}
      BY <2>1, <2>3 DEF LinkInv, UpShape, Settled
    <3>2. queue' \in {<<"STA_DISCONNECTED">>, <<"STA_GOT_IP", "STA_DISCONNECTED">>,
                      <<"STA_CONNECTED", "STA_DISCONNECTED">>,
                      <<"STA_GOT_IP", "STA_CONNECTED", "STA_DISCONNECTED">>}
      BY <2>1, <3>1, Posting
    <3>3. QED
      BY <1>3, <2>1, <2>3, <3>2 DEF LinkLost, Post, LinkInv, IdleShape
  <2>4. QED
    BY <2>2, <2>3
<1>4. CASE LeaseArrives
  <2>1. queue = <<>>
    BY <1>4 DEF LeaseArrives, LinkInv, UpShape
  <2>2. QED
    BY <1>4, <2>1 DEF LeaseArrives, LinkInv, UpShape
<1>5. CASE LeasePosted
  <2>1. \/ link = "up" /\ queue = <<>>
        \/ link = "idle" /\ queue = <<"STA_DISCONNECTED">>
    BY <1>5 DEF LeasePosted, LinkInv, OffShape, ConnectingShape, UpShape, IdleShape
  <2>2. \/ link = "up" /\ queue' = <<"STA_GOT_IP">>
        \/ link = "idle" /\ queue' = <<"STA_DISCONNECTED", "STA_GOT_IP">>
    BY <1>5, <2>1, Posting DEF LeasePosted, Post
  <2>3. QED
    BY <1>5, <2>2 DEF LeasePosted, Post, LinkInv, UpShape, IdleShape, Settled
<1>6. QED
  BY <1>1, <1>2, <1>3, <1>4, <1>5 DEF Radio

LEMMA MainStep == WInv /\ MainTask => LinkInv' /\ RetryInv'
<1> SUFFICES ASSUME WInv, MainTask PROVE LinkInv' /\ RetryInv'
  OBVIOUS
<1> USE DEF WInv
<1>1. CASE WifiInitSoftap \/ WaitBitsReturns
  BY <1>1 DEF WifiInitSoftap, WaitBitsReturns, radioVars, LinkInv, RetryInv, OffShape,
     ConnectingShape, UpShape, IdleShape, Settled
<1>2. CASE WifiInitSta
  <2>1. link = "off" /\ queue = <<>> /\ dhcp = "off" /\ attempts = 0 /\ s_retry_num = 0
    BY <1>2 DEF WifiInitSta, TaskInv, LinkInv, OffShape
  <2>2. queue' = <<"STA_START">>
    BY <1>2, <2>1, Posting DEF WifiInitSta
  <2>3. QED
    BY <1>2, <2>1, <2>2 DEF WifiInitSta, LinkInv, RetryInv, IdleShape
<1>3. QED
  BY <1>1, <1>2 DEF MainTask

LEMMA TaskStep == WInv /\ [Next]_vars => TaskInv'
<1> SUFFICES ASSUME WInv, [Next]_vars PROVE TaskInv'
  OBVIOUS
<1> USE DEF WInv, TaskInv
<1>1. CASE MainTask
  BY <1>1 DEF MainTask, WifiInitSoftap, WifiInitSta, WaitBitsReturns, radioVars
<1>2. CASE EventLoop
  <2>1. link # "off"
    <3>1. queue # <<>>
      BY <1>2 DEF EventLoop, OnStaStart, OnStaConnected, OnStaDisconnectedRetry,
         OnStaDisconnectedGiveUp, OnStaGotIp, Dispatched
    <3>2. QED
      BY <3>1 DEF LinkInv, OffShape
  <2>2. QED
    BY <1>2, <2>1 DEF EventLoop, OnStaStart, OnStaConnected, OnStaDisconnectedRetry,
       OnStaDisconnectedGiveUp, OnStaGotIp, Dispatched, BitOfGivingUp
<1>3. CASE Radio
  BY <1>3 DEF Radio, AttemptFails, AttemptSucceeds, LinkLost, LeaseArrives,
     LeasePosted, Post, LinkInv, OffShape
<1>4. CASE UNCHANGED vars
  BY <1>4 DEF vars, radioVars
<1>5. QED
  BY <1>1, <1>2, <1>3, <1>4 DEF Next

LEMMA WStep == WInv /\ [Next]_vars => WInv'
<1> SUFFICES ASSUME WInv, [Next]_vars PROVE WInv'
  OBVIOUS
<1>1. CASE UNCHANGED vars
  BY <1>1 DEF vars, radioVars, WInv, LinkInv, RetryInv, TaskInv, OffShape,
     ConnectingShape, UpShape, IdleShape, Settled
<1>2. QED
  BY <1>1, EventLoopStep, RadioStep, MainStep, TaskStep DEF Next, WInv

-----------------------------------------------------------------------------

\* The retry counter never passes its maximum, and the event queue never holds
\* more than three events, for any maximum.
THEOREM TypeCorrect == Spec => []TypeOK
<1>1. WInv => TypeOK
  <2> SUFFICES ASSUME WInv PROVE TypeOK
    OBVIOUS
  <2>1. queue \in Seq(Events) /\ Len(queue) <= 3
    BY ShapeOf, ShapeTyped DEF WInv
  <2>2. attempts \in Nat
    BY RetryAssumption DEF WInv, RetryInv
  <2>3. QED
    BY <2>1, <2>2 DEF WInv, LinkInv, RetryInv, TaskInv, TypeOK
<1>2. QED
  BY <1>1, WInit, WStep, PTL DEF Spec

\* An access point that does not answer is asked once and then as often as
\* configured, whatever was lost and announced in between.
THEOREM RetriesBounded == Spec => []AttemptsAreBounded
<1>1. WInv => AttemptsAreBounded
  BY RetryAssumption DEF WInv, RetryInv, AttemptsAreBounded
<1>2. QED
  BY <1>1, WInit, WStep, PTL DEF Spec

\* A station that could connect is never left idle without the FAIL bit.
THEOREM NeverIdleForNothing == Spec => []IdleMeansGaveUp
<1>1. WInv => IdleMeansGaveUp
  <2> SUFFICES ASSUME WInv, usable, link = "idle", Owed = {} PROVE "FAIL" \in bits
    BY DEF IdleMeansGaveUp
  <2>1. \A i \in DOMAIN queue : queue[i] \notin {"STA_START", "STA_DISCONNECTED"}
    BY DEF Owed
  <2>2. queue \notin {<<"STA_START">>, <<"STA_DISCONNECTED">>,
                      <<"STA_DISCONNECTED", "STA_GOT_IP">>}
    BY <2>1
  <2>3. queue \notin {<<"STA_GOT_IP", "STA_DISCONNECTED">>,
                      <<"STA_CONNECTED", "STA_DISCONNECTED">>,
                      <<"STA_GOT_IP", "STA_CONNECTED", "STA_DISCONNECTED">>}
    BY <2>1
  <2>4. QED
    BY <2>2, <2>3 DEF WInv, LinkInv, IdleShape
<1>2. QED
  BY <1>1, WInit, WStep, PTL DEF Spec

\* No call of esp_wifi_connect comes while an attempt or a link is alive.
THEOREM AttemptsAreTaken == Spec => NoAttemptIsRefused
<1>1. WInv /\ [Next]_vars => [attempts' > attempts => link = "idle"]_vars
  <2> SUFFICES ASSUME WInv, Next, attempts' > attempts PROVE link = "idle"
    OBVIOUS
  <2>1. attempts \in Nat
    BY RetryAssumption DEF WInv, RetryInv
  <2>2. OnStaStart \/ OnStaDisconnectedRetry
    BY <2>1 DEF Next, MainTask, WifiInitSoftap, WifiInitSta, WaitBitsReturns, EventLoop,
       OnStaConnected, OnStaDisconnectedGiveUp, OnStaGotIp, Radio, AttemptFails,
       AttemptSucceeds, LinkLost, LeaseArrives, LeasePosted, Post
  <2>3. queue \in {<<"STA_START">>, <<"STA_DISCONNECTED">>, <<"STA_DISCONNECTED", "STA_GOT_IP">>}
    BY <2>2, DispatchShapes DEF WInv, OnStaStart, OnStaDisconnectedRetry
  <2>4. QED
    BY <2>3 DEF WInv, LinkInv, OffShape, ConnectingShape, UpShape, Settled
<1>2. QED
  BY <1>1, WInit, WStep, PTL DEF Spec, NoAttemptIsRefused

\* The FAIL bit comes only after as many calls as configured.
THEOREM NoEarlyGivingUp == Spec => GivesUpAfterAllRetries
<1>1. ASSUME WInv, Next, Dispatched("STA_DISCONNECTED"), attempts' = attempts
      PROVE  attempts >= EXAMPLE_ESP_MAXIMUM_RETRY
  <2>1. \/ queue = <<"STA_DISCONNECTED">> /\ queue' = <<>>
        \/ queue = <<"STA_DISCONNECTED", "STA_GOT_IP">> /\ queue' = <<"STA_GOT_IP">>
    BY <1>1, DispatchShapes DEF WInv
  <2>2. link = "idle" /\ queue' # queue /\ attempts \in Nat
    BY <1>1, <2>1, RetryAssumption DEF WInv, RetryInv, LinkInv, OffShape, ConnectingShape,
       UpShape, Settled
  <2>3. ~MainTask
    BY <1>1, <2>2 DEF WInv, TaskInv, MainTask, WifiInitSoftap, WifiInitSta,
       WaitBitsReturns, radioVars
  <2>4. ~Radio
    <3>1. ~LeasePosted
      <4>1. CASE queue = <<"STA_DISCONNECTED">>
        BY <2>1, <4>1, Posting DEF LeasePosted, Post
      <4>2. CASE queue = <<"STA_DISCONNECTED", "STA_GOT_IP">>
        BY <1>1, <2>2, <4>2 DEF LeasePosted, WInv, LinkInv, IdleShape, Settled
      <4>3. QED
        BY <2>1, <4>1, <4>2
    <3>2. QED
      BY <2>2, <3>1 DEF Radio, AttemptFails, AttemptSucceeds, LinkLost, LeaseArrives
  <2>5. Head(queue) = "STA_DISCONNECTED"
    BY <1>1 DEF Dispatched
  <2>6. OnStaDisconnectedGiveUp
    BY <1>1, <2>2, <2>3, <2>4, <2>5 DEF Next, EventLoop, OnStaStart, OnStaConnected,
       OnStaDisconnectedRetry, OnStaGotIp, Dispatched, EspWifiConnect
  <2>7. QED
    BY <1>1, <2>6, RetryAssumption
    DEF OnStaDisconnectedGiveUp, RetriesLeft, WInv, RetryInv
<1>2. WInv /\ [Next]_vars
        => [Dispatched("STA_DISCONNECTED") /\ attempts' = attempts
              => attempts >= EXAMPLE_ESP_MAXIMUM_RETRY]_vars
  BY <1>1
<1>3. QED
  BY <1>2, WInit, WStep, PTL DEF Spec, GivesUpAfterAllRetries

-----------------------------------------------------------------------------
(* What config_handler makes of a plain form: a form that came in one      *)
(* piece into a cleared buffer.  First what strtok and the token loop      *)
(* return for it, whatever the values and the sizes of the buffers; then   *)
(* that no other piece of the body can look like one.                      *)

\* What a buffer cell that came from a form, or was cleared, can hold.
Cells == Chars \cup Delim \cup {"red", "contrasena", "NUL"}

\* What strtok makes of one more character.
TokenStep(b, i, tokens) ==
  IF b[i] \in Delim THEN tokens
  ELSE IF i = 1 \/ b[i - 1] \in Delim THEN Append(tokens, <<b[i]>>)
  ELSE [tokens EXCEPT ![Len(tokens)] = Append(@, b[i])]

\* f is the tokens of each first part of b.
TokensTo(b, f) ==
  f = [i \in 0..StackSize |->
        IF i = 0 THEN <<>>
        ELSE IF b[i] \in Delim THEN f[i - 1]
        ELSE IF i = 1 \/ b[i - 1] \in Delim THEN Append(f[i - 1], <<b[i]>>)
        ELSE [f[i - 1] EXCEPT ![Len(f[i - 1])] = Append(@, b[i])]]

\* The same, one step at a time.
MakesTokens(b, f) == \A i \in 1..StackSize : f[i] = TokenStep(b, i, f[i - 1])

\* There are such tokens for every buffer.
LEMMA TokensExist ==
  ASSUME NEW S, NEW b \in [1..StackSize -> S]
  PROVE  \E f : TokensTo(b, f)
<1> DEFINE V == Seq(Seq(S))
           step == [i \in 1..StackSize |-> [v \in V |-> TokenStep(b, i, v)]]
<1>1. StackSize \in Nat
  BY FormAssumption
<1>2. ASSUME NEW i \in 1..StackSize, NEW v \in V PROVE TokenStep(b, i, v) \in V
  <2>1. b[i] \in S
    OBVIOUS
  <2>2. Append(v, <<b[i]>>) \in V
    BY <2>1
  <2>3. [v EXCEPT ![Len(v)] = Append(@, b[i])] \in V
    <3>1. CASE v = <<>>
      <4>1. Len(v) \notin DOMAIN v
        BY <3>1
      <4>2. [v EXCEPT ![Len(v)] = Append(@, b[i])] = v
        BY <4>1
      <4> QED BY <4>2
    <3>2. CASE v # <<>>
      <4>1. Len(v) \in 1..Len(v) /\ v[Len(v)] \in Seq(S)
        BY <3>2
      <4>2. Append(v[Len(v)], b[i]) \in Seq(S)
        BY <4>1, <2>1
      <4>3. Len(v) \in Nat /\ v \in [1..Len(v) -> Seq(S)]
        OBVIOUS
      <4>4. [v EXCEPT ![Len(v)] = Append(@, b[i])] \in [1..Len(v) -> Seq(S)]
        BY <4>2, <4>3
      <4> QED BY <4>3, <4>4, SeqDef
    <3> QED BY <3>1, <3>2
  <2> QED BY <2>2, <2>3 DEF TokenStep
<1>3. <<>> \in V
  OBVIOUS
<1>4. step \in [1..StackSize -> [V -> V]]
  BY <1>2
<1>5. PICK g \in [0..StackSize -> V] : MakesSteps(g, StackSize, <<>>, step)
  <2> HIDE DEF V, step
  <2> QED BY <1>1, <1>3, <1>4, StepByStep
<1>6. ASSUME NEW i \in 1..StackSize PROVE g[i] = TokenStep(b, i, g[i - 1])
  <2>1. i - 1 \in 0..StackSize
    BY <1>1
  <2>2. g[i - 1] \in V
    BY <2>1
  <2> HIDE DEF V
  <2> QED BY <1>5, <2>2 DEF MakesSteps
<1>7. g = [i \in 0..StackSize |-> g[i]] /\ g[0] = <<>> /\ \A i \in 0..StackSize : i = 0 \/ i \in 1..StackSize
  <2> HIDE DEF V, step
  <2> QED BY <1>1, <1>5 DEF MakesSteps
<1> HIDE DEF V, step
<1>8. g = [i \in 0..StackSize |-> IF i = 0 THEN <<>> ELSE TokenStep(b, i, g[i - 1])]
  BY <1>6, <1>7
<1>9. TokensTo(b, g)
  BY <1>8 DEF TokensTo, TokenStep
<1> QED BY <1>9

\* The tokens of b are those of the part that strtok can see.
LEMMA TokensAre ==
  ASSUME NEW S, NEW b \in [1..StackSize -> S]
  PROVE  \E f : Tokens(b) = f[TextLength(b)] /\ f[0] = <<>> /\ MakesTokens(b, f)
<1> DEFINE f == CHOOSE f : TokensTo(b, f)
<1>1. TokensTo(b, f)
  BY TokensExist, Zenon
<1>2. Tokens(b) = f[TextLength(b)]
  BY Zenon DEF Tokens, TokensTo
<1> HIDE DEF f
<1>3. StackSize \in Nat
  BY FormAssumption
<1>4. f = [i \in 0..StackSize |-> IF i = 0 THEN <<>> ELSE TokenStep(b, i, f[i - 1])]
  BY <1>1 DEF TokensTo, TokenStep
<1>5. f[0] = <<>> /\ \A i \in 1..StackSize : f[i] = TokenStep(b, i, f[i - 1])
  BY <1>3, <1>4
<1> QED BY <1>2, <1>5 DEF MakesTokens

\* The characters v are in b after the first k, at the start or after a delimiter.
IsRun(b, k, v) ==
  /\ v # <<>> /\ k + Len(v) <= StackSize
  /\ k = 0 \/ b[k] \in Delim
  /\ \A j \in 1..Len(v) : b[k + j] = v[j] /\ v[j] \notin Delim

\* Of the tokens f, those after k cells have one more, v, after the cells of v.
OneMore(f, k, v) == f[k + Len(v)] = Append(f[k], v)

\* They are a token.
LEMMA RunIsToken ==
  ASSUME NEW v \in Seq(Cells), NEW k \in Nat, NEW b, IsRun(b, k, v),
         NEW f, MakesTokens(b, f), f[k] \in Seq(Seq(Cells))
  PROVE  OneMore(f, k, v)
<1> DEFINE T == Cells
           tokens == f[k]
           n == Len(v)
           Good == {j \in 0..(n - 1) : f[k + 1 + j] = Append(tokens, SubSeq(v, 1, j + 1))}
<1> HIDE DEF T
<1>t. v \in Seq(T) /\ f[k] \in Seq(Seq(T))
  BY DEF T
<1>0. /\ n \in Nat /\ n >= 1 /\ StackSize \in Nat /\ n - 1 \in Nat
      /\ k + n <= StackSize /\ (k = 0 \/ b[k] \in Delim)
  BY FormAssumption DEF IsRun
<1>a. \A j \in 1..n : b[k + j] = v[j] /\ v[j] \notin Delim
  BY DEF IsRun
<1>b. \A i \in 1..StackSize : f[i] = TokenStep(b, i, f[i - 1])
  BY DEF MakesTokens
<1>c. tokens \in Seq(Seq(T)) /\ f[k] = tokens
  BY <1>t
<1> HIDE DEF tokens
<1>1. 0 \in Good
  <2>1. k + 1 \in 1..StackSize /\ 1 \in 1..n /\ 0 \in 0..(n - 1) /\ (k + 1) - 1 = k
    BY <1>0
  <2>2. b[k + 1] = v[1] /\ v[1] \notin Delim
    BY <1>a, <2>1
  <2>3. k + 1 = 1 \/ b[(k + 1) - 1] \in Delim
    BY <1>0, <2>1
  <2>4. f[k + 1] = Append(f[(k + 1) - 1], <<v[1]>>)
    BY <1>b, <2>1, <2>2, <2>3 DEF TokenStep
  <2>5. f[k + 1] = Append(tokens, <<v[1]>>)
    BY <1>c, <2>1, <2>4
  <2>6. SubSeq(v, 1, 0 + 1) = <<v[1]>>
    <3> DEFINE s == SubSeq(v, 1, 1)
    <3>1. s \in Seq(T) /\ Len(s) = 1 /\ s[1] = v[1] /\ v[1] \in T
      BY <1>0, <1>t
    <3>2. <<v[1]>> \in Seq(T) /\ Len(<<v[1]>>) = 1 /\ <<v[1]>>[1] = v[1]
      BY <3>1
    <3>3. s = <<v[1]>>
      <4> HIDE DEF s
      <4> QED BY <3>1, <3>2, SeqEqual
    <3> QED BY <3>3
  <2>7. k + 1 + 0 = k + 1
    OBVIOUS
  <2> QED BY <2>1, <2>5, <2>6, <2>7
<1>2. ASSUME NEW j \in 0..(n - 1), j < n - 1, j \in Good PROVE j + 1 \in Good
  <2> DEFINE t == SubSeq(v, 1, j + 1)
             i == k + 1 + (j + 1)
  <2>1. /\ i \in 1..StackSize /\ i - 1 = k + (j + 1) /\ i = k + (j + 2) /\ i # 1
        /\ j + 1 \in 1..n /\ j + 2 \in 1..n /\ j + 1 \in 0..(n - 1) /\ i - 1 = k + 1 + j
    BY <1>0, <1>2
  <2>2. b[i] = v[j + 2] /\ v[j + 2] \notin Delim
    BY <1>a, <2>1
  <2>3. b[i - 1] = v[j + 1] /\ v[j + 1] \notin Delim
    BY <1>a, <2>1
  <2>4. f[i - 1] = Append(tokens, t)
    BY <1>2, <2>1
  <2>5. f[i] = TokenStep(b, i, f[i - 1])
    BY <1>b, <2>1
  <2>6. t \in Seq(T) /\ v[j + 2] \in T
    BY <1>t, <2>1
  <2>7. Append(t, v[j + 2]) = SubSeq(v, 1, (j + 1) + 1)
    BY <1>0, <2>1
  <2> HIDE DEF t, i
  <2>8. f[i] = [Append(tokens, t) EXCEPT ![Len(Append(tokens, t))] = Append(@, v[j + 2])]
    BY <2>1, <2>2, <2>3, <2>4, <2>5 DEF TokenStep
  <2>9. [Append(tokens, t) EXCEPT ![Len(Append(tokens, t))] = Append(@, v[j + 2])]
          = Append(tokens, Append(t, v[j + 2]))
    <3> DEFINE c == v[j + 2]
               l == Append(tokens, t)
               r == [l EXCEPT ![Len(l)] = Append(@, c)]
    <3> HIDE DEF c
    <3>1. /\ l \in Seq(Seq(T)) /\ Len(l) = Len(tokens) + 1 /\ Len(tokens) \in Nat
          /\ l[Len(tokens) + 1] = t /\ \A x \in 1..Len(tokens) : l[x] = tokens[x]
      BY <1>c, <2>6
    <3>2. Append(t, c) \in Seq(T)
      BY <2>6 DEF c
    <3> HIDE DEF l
    <3>0. Len(l) \in 1..Len(l) /\ r = [l EXCEPT ![Len(l)] = Append(t, c)]
      BY <3>1
    <3> HIDE DEF r
    <3>3. /\ r \in Seq(Seq(T)) /\ Len(r) = Len(tokens) + 1
          /\ \A x \in 1..Len(l) : r[x] = IF x = Len(l) THEN Append(t, c) ELSE l[x]
      BY <3>0, <3>1, <3>2, ExceptSeq
    <3>4. \A x \in 1..(Len(tokens) + 1) :
            r[x] = IF x = Len(tokens) + 1 THEN Append(t, c) ELSE tokens[x]
      <4> SUFFICES ASSUME NEW x \in 1..(Len(tokens) + 1)
                   PROVE  r[x] = IF x = Len(tokens) + 1 THEN Append(t, c) ELSE tokens[x]
        OBVIOUS
      <4>1. x \in 1..Len(l) /\ (x = Len(l) <=> x = Len(tokens) + 1)
        BY <3>1
      <4>2. x # Len(l) => x \in 1..Len(tokens)
        BY <3>1
      <4>3. x # Len(l) => l[x] = tokens[x]
        BY <3>1, <4>2
      <4> QED BY <3>3, <4>1, <4>3
    <3> DEFINE u == Append(tokens, Append(t, c))
    <3>5. /\ u \in Seq(Seq(T)) /\ Len(u) = Len(tokens) + 1
          /\ \A x \in 1..(Len(tokens) + 1) :
               u[x] = IF x = Len(tokens) + 1 THEN Append(t, c) ELSE tokens[x]
      BY <1>c, <3>2
    <3> HIDE DEF r, u
    <3>6. Len(r) = Len(u) /\ \A x \in 1..Len(r) : r[x] = u[x]
      BY <3>3, <3>4, <3>5
    <3>7. r = u
      BY <3>3, <3>5, <3>6, SeqEqual
    <3> QED BY <3>7 DEF r, l, c, u
  <2> QED BY <2>1, <2>7, <2>8, <2>9 DEF i
<1>3. n - 1 \in Good
  <2> HIDE DEF Good
  <2>1. n - 1 \in 0..(n - 1)
    BY <1>0
  <2> QED BY <1>0, <1>1, <1>2, <2>1, UpTo
<1>4. k + 1 + (n - 1) = k + n /\ (n - 1) + 1 = n /\ SubSeq(v, 1, n) = v
  BY <1>0
<1> QED BY <1>3, <1>4 DEF tokens, OneMore

\* g is what each first part of v is posted as.
EncodedTo(v, g) ==
  g = [i \in 0..Len(v) |-> IF i = 0 THEN <<>> ELSE g[i - 1] \o Posted(v[i])]

\* A value is posted in the cells of values: every delimiter in it is escaped.
LEMMA EncodedIs ==
  ASSUME NEW v \in Seq(Typed)
  PROVE  /\ UrlEncoded(v) \in Seq(Chars)
         /\ v \in Seq(Plain) => UrlEncoded(v) = v
<1> DEFINE n == Len(v)
           V == Seq(Chars)
           step == [i \in 1..n |-> [w \in V |-> w \o Posted(v[i])]]
<1>1. n \in Nat /\ \A i \in 1..n : v[i] \in Typed
  OBVIOUS
<1>2. \A i \in 1..n : Posted(v[i]) \in V
  <2> SUFFICES ASSUME NEW c \in Typed PROVE Posted(c) \in V
    BY <1>1
  <2> QED BY FormAssumption DEF Posted, Typed
<1>3. \A w \in V, x \in V : w \o x \in V
  OBVIOUS
<1>4. <<>> \in V
  OBVIOUS
<1> HIDE DEF V, n
<1>5. step \in [1..n -> [V -> V]]
  BY <1>2, <1>3
<1>6. PICK h \in [0..n -> V] : MakesSteps(h, n, <<>>, step)
  <2> HIDE DEF step
  <2> QED BY <1>1, <1>4, <1>5, StepByStep
<1>7. EncodedTo(v, h)
  <2>1. ASSUME NEW i \in 0..n PROVE h[i] = IF i = 0 THEN <<>> ELSE h[i - 1] \o Posted(v[i])
    <3>1. CASE i = 0
      BY <1>6, <3>1 DEF MakesSteps
    <3>2. CASE i # 0
      <4>1. i \in 1..n /\ i - 1 \in 0..n /\ h[i - 1] \in V
        BY <1>1, <3>2
      <4>2. h[i] = step[i][h[i - 1]]
        BY <1>6, <4>1 DEF MakesSteps
      <4> QED BY <3>2, <4>1, <4>2
    <3> QED BY <3>1, <3>2
  <2>2. h = [i \in 0..n |-> h[i]]
    OBVIOUS
  <2>3. h = [i \in 0..n |-> IF i = 0 THEN <<>> ELSE h[i - 1] \o Posted(v[i])]
    BY <2>1, <2>2
  <2> QED BY <2>3 DEF EncodedTo, n
<1> DEFINE g == CHOOSE g : EncodedTo(v, g)
<1>8. EncodedTo(v, g)
  BY <1>7, Zenon
<1>9. UrlEncoded(v) = g[n]
  BY Zenon DEF UrlEncoded, EncodedTo, n
<1> HIDE DEF g, step
<1>10. /\ g[0] = <<>>
       /\ \A i \in 1..n : g[i] = g[i - 1] \o Posted(v[i])
  <2>1. g = [i \in 0..n |-> IF i = 0 THEN <<>> ELSE g[i - 1] \o Posted(v[i])]
    BY <1>8 DEF EncodedTo, n
  <2>2. 0 \in 0..n /\ \A i \in 1..n : i \in 0..n /\ i # 0
    BY <1>1
  <2>3. \A i \in 0..n : g[i] = IF i = 0 THEN <<>> ELSE g[i - 1] \o Posted(v[i])
    BY <2>1, Zenon
  <2> QED BY <2>2, <2>3
<1>11. UrlEncoded(v) \in V
  <2> DEFINE T == {i \in 0..n : g[i] \in V}
  <2>1. 0 \in T
    BY <1>1, <1>4, <1>10
  <2>2. ASSUME NEW i \in 0..n, i < n, i \in T PROVE i + 1 \in T
    <3>1. i + 1 \in 1..n /\ i + 1 \in 0..n /\ (i + 1) - 1 = i
      BY <1>1, <2>2
    <3> QED BY <1>2, <1>3, <1>10, <2>2, <3>1
  <2> HIDE DEF T
  <2>3. \A i \in 0..n : i \in T
    BY <1>1, <2>1, <2>2, UpTo
  <2> QED BY <1>1, <1>9, <2>3 DEF T
<1>12. ASSUME v \in Seq(Plain) PROVE UrlEncoded(v) = v
  <2> DEFINE T == {i \in 0..n : g[i] = SubSeq(v, 1, i)}
  <2>1. 0 \in T
    <3>1. SubSeq(v, 1, 0) = <<>>
      BY <1>12
    <3> QED BY <1>1, <1>10, <3>1
  <2>2. ASSUME NEW i \in 0..n, i < n, i \in T PROVE i + 1 \in T
    <3>1. i + 1 \in 1..n /\ i + 1 \in 0..n /\ (i + 1) - 1 = i /\ i \in Nat
      BY <1>1, <2>2
    <3>2. v[i + 1] \in Plain
      BY <1>12, <3>1 DEF n
    <3>3. Posted(v[i + 1]) = <<v[i + 1]>>
      BY <3>2 DEF Posted, Plain
    <3>4. g[i + 1] = SubSeq(v, 1, i) \o <<v[i + 1]>>
      BY <1>10, <2>2, <3>1, <3>3
    <3>5. SubSeq(v, 1, i) \o <<v[i + 1]>> = SubSeq(v, 1, i + 1)
      BY <3>1 DEF n
    <3> QED BY <3>1, <3>4, <3>5
  <2> HIDE DEF T
  <2>3. \A i \in 0..n : i \in T
    BY <1>1, <2>1, <2>2, UpTo
  <2>4. g[n] = SubSeq(v, 1, n)
    BY <1>1, <2>3 DEF T
  <2>5. SubSeq(v, 1, n) = v
    BY DEF n
  <2> QED BY <1>9, <2>4, <2>5
<1> QED BY <1>11, <1>12 DEF V

\* A form that a user can type.
FormType == [red : Seq(Typed), contrasena : Seq(Typed)]

\* Both fields of it as they are posted.
LEMMA FieldsAreCells ==
  ASSUME NEW m \in FormType
  PROVE  UrlEncoded(m.red) \in Seq(Chars) /\ UrlEncoded(m.contrasena) \in Seq(Chars)
<1>1. m.red \in Seq(Typed) /\ m.contrasena \in Seq(Typed)
  BY DEF FormType
<1> QED BY <1>1, EncodedIs

\* q is the body of a form with the values v and w, of the lengths a and c.
IsBody(q, v, w, a, c) ==
  /\ q \in Seq(Cells) /\ Len(q) = a + c + 5
  /\ q[1] = "red" /\ q[2] = "="
  /\ \A j \in 1..a : q[2 + j] = v[j]
  /\ q[a + 3] = "&" /\ q[a + 4] = "contrasena" /\ q[a + 5] = "="
  /\ \A j \in 1..c : q[a + 5 + j] = w[j]

\* The body of a form cell by cell.
LEMMA BodyIs ==
  ASSUME NEW m \in FormType
  PROVE  IsBody(Body(m), UrlEncoded(m.red), UrlEncoded(m.contrasena),
                Len(UrlEncoded(m.red)), Len(UrlEncoded(m.contrasena)))
<1> DEFINE v == UrlEncoded(m.red)
           w == UrlEncoded(m.contrasena)
           a == Len(v)
           c == Len(w)
           x == <<"red", "=">> \o v
           y == x \o <<"&", "contrasena", "=">>
<1>1. /\ v \in Seq(Cells) /\ w \in Seq(Cells)
      /\ a \in Nat /\ c \in Nat
  BY FieldsAreCells DEF Cells
<1>2. <<"red", "=">> \in Seq(Cells) /\ <<"&", "contrasena", "=">> \in Seq(Cells)
  BY DEF Cells, Delim
<1>3. Body(m) = y \o w
  <2>1. Body(m) = <<"red", "=">> \o v \o <<"&", "contrasena", "=">> \o w
    BY DEF Body
  <2> QED BY <2>1
<1> HIDE DEF v, w
<1>4. /\ x \in Seq(Cells) /\ Len(x) = a + 2 /\ x[1] = "red" /\ x[2] = "="
      /\ \A j \in 1..a : x[2 + j] = v[j]
  BY <1>1, <1>2
<1> HIDE DEF x
<1>5. /\ y \in Seq(Cells) /\ Len(y) = a + 5 /\ \A i \in 1..(a + 2) : y[i] = x[i]
      /\ y[a + 3] = "&" /\ y[a + 4] = "contrasena" /\ y[a + 5] = "="
  BY <1>1, <1>2, <1>4
<1> HIDE DEF y
<1> DEFINE z == y \o w
<1>6. /\ z \in Seq(Cells) /\ Len(z) = a + c + 5 /\ \A i \in 1..(a + 5) : z[i] = y[i]
      /\ \A j \in 1..c : z[a + 5 + j] = w[j]
  <2>1. z \in Seq(Cells) /\ Len(z) = Len(y) + Len(w)
    BY <1>1, <1>5, ConcatProperties
  <2>2. \A i \in 1..Len(z) : z[i] = IF i <= Len(y) THEN y[i] ELSE w[i - Len(y)]
    BY <1>1, <1>5, <2>1, ConcatProperties
  <2>3. Len(z) = a + c + 5
    BY <1>1, <1>5, <2>1
  <2> HIDE DEF z
  <2>4. ASSUME NEW i \in 1..(a + 5) PROVE z[i] = y[i]
    <3>1. i \in 1..Len(z) /\ i <= Len(y)
      BY <1>1, <1>5, <2>3
    <3> QED BY <2>2, <3>1
  <2>5. ASSUME NEW j \in 1..c PROVE z[a + 5 + j] = w[j]
    <3>1. a + 5 + j \in 1..Len(z) /\ ~ (a + 5 + j <= Len(y)) /\ (a + 5 + j) - Len(y) = j
      BY <1>1, <1>5, <2>3
    <3> QED BY <2>2, <3>1
  <2> QED BY <2>1, <2>3, <2>4, <2>5
<1> HIDE DEF z
<1>7. /\ 1 \in 1..(a + 2) /\ 2 \in 1..(a + 2) /\ \A j \in 1..a : 2 + j \in 1..(a + 2)
      /\ \A i \in 1..(a + 2) : i \in 1..(a + 5)
      /\ a + 3 \in 1..(a + 5) /\ a + 4 \in 1..(a + 5) /\ a + 5 \in 1..(a + 5)
  BY <1>1
<1>8. /\ z[1] = "red" /\ z[2] = "=" /\ \A j \in 1..a : z[2 + j] = v[j]
      /\ z[a + 3] = "&" /\ z[a + 4] = "contrasena" /\ z[a + 5] = "="
  BY <1>4, <1>5, <1>6, <1>7
<1> QED BY <1>3, <1>6, <1>8 DEF z, v, w, IsBody

\* What strtok can see ends before the first NUL.
LEMMA TextIs ==
  ASSUME NEW b, NEW n \in 0..StackSize, \A i \in 1..n : b[i] # "NUL",
         n < StackSize => b[n + 1] = "NUL"
  PROVE  TextLength(b) = n
<1> DEFINE ends == {i \in 1..StackSize : b[i] = "NUL"}
<1>1. StackSize \in Nat /\ n \in Nat
  BY FormAssumption
<1>2. CASE n = StackSize
  <2>1. ends = {}
    BY <1>1, <1>2
  <2> QED BY <1>2, <2>1 DEF TextLength
<1>3. CASE n < StackSize
  <2>1. n + 1 \in ends /\ \A i \in ends : n + 1 <= i
    BY <1>1, <1>3
  <2>2. \A i \in ends : (\A j \in ends : i <= j) => i = n + 1
    BY <1>1, <2>1
  <2>3. Min(ends) = n + 1
    <3> HIDE DEF ends
    <3> QED BY <2>1, <2>2, Zenon DEF Min
  <2>4. TextLength(b) = (n + 1) - 1
    BY <2>1, <2>3 DEF TextLength
  <2> QED BY <1>1, <2>4
<1> QED BY <1>1, <1>2, <1>3

\* b holds the form m in one piece, and nothing after it.
HoldsForm(b, m) ==
  /\ b \in [1..StackSize -> Cells]
  /\ Len(Body(m)) <= StackSize
  /\ \A i \in 1..StackSize : b[i] = IF i <= Len(Body(m)) THEN Body(m)[i] ELSE "NUL"

\* k is l with x after it.
Ends(k, l, x) ==
  Len(k) = Len(l) + 1 /\ k[Len(l) + 1] = x /\ \A i \in 1..Len(l) : k[i] = l[i]

\* A sequence is known by its first elements and its last.
LEMMA AppendIs ==
  ASSUME NEW S, NEW l \in Seq(S), NEW x \in S, NEW k \in Seq(S), Ends(k, l, x)
  PROVE  Append(l, x) = k
<1> DEFINE m == Append(l, x)
           n == Len(l)
<1>0. n \in Nat /\ Len(k) = n + 1 /\ k[n + 1] = x /\ \A i \in 1..n : k[i] = l[i]
  BY DEF Ends
<1>1. /\ m \in Seq(S) /\ Len(m) = Len(k) /\ m[n + 1] = x /\ \A i \in 1..n : m[i] = l[i]
  BY <1>0, AppendProperties
<1> HIDE DEF m, n
<1>2. \A i \in 1..Len(m) : m[i] = k[i]
  BY <1>0, <1>1
<1>3. m = k
  BY <1>1, <1>2, SeqEqual
<1> QED BY <1>3 DEF m

LEMMA FourAppended ==
  ASSUME NEW p \in Seq(Cells), NEW q \in Seq(Cells), NEW r \in Seq(Cells),
         NEW s \in Seq(Cells)
  PROVE  Append(Append(Append(Append(<<>>, p), q), r), s) = <<p, q, r, s>>
<1> DEFINE S == Seq(Cells)
<1> HIDE DEF S
<1>0. p \in S /\ q \in S /\ r \in S /\ s \in S
  BY DEF S
<1> DEFINE l1 == <<p>>
           l2 == <<p, q>>
           l3 == <<p, q, r>>
           l4 == <<p, q, r, s>>
<1>1. /\ l1 \in Seq(S) /\ Len(l1) = 1 /\ l1[1] = p
      /\ l2 \in Seq(S) /\ Len(l2) = 2 /\ l2[1] = p /\ l2[2] = q
      /\ l3 \in Seq(S) /\ Len(l3) = 3 /\ l3[1] = p /\ l3[2] = q /\ l3[3] = r
      /\ l4 \in Seq(S) /\ Len(l4) = 4 /\ l4[1] = p /\ l4[2] = q /\ l4[3] = r /\ l4[4] = s
  BY <1>0
<1>2. Append(<<>>, p) = l1
  OBVIOUS
<1> HIDE DEF l1, l2, l3, l4
<1>3. Append(l1, q) = l2
  <2>1. Ends(l2, l1, q)
    BY <1>1 DEF Ends
  <2> QED BY <1>0, <1>1, <2>1, AppendIs
<1>4. Append(l2, r) = l3
  <2>1. Ends(l3, l2, r)
    BY <1>1 DEF Ends
  <2> QED BY <1>0, <1>1, <2>1, AppendIs
<1>5. Append(l3, s) = l4
  <2>1. Ends(l4, l3, s)
    BY <1>1 DEF Ends
  <2> QED BY <1>0, <1>1, <2>1, AppendIs
<1> QED BY <1>2, <1>3, <1>4, <1>5, Zenon DEF l4

\* strtok finds four tokens in a plain form: the keys, each with its value.
LEMMA PlainTokens ==
  ASSUME NEW m \in FormType, UrlEncoded(m.red) # <<>>, UrlEncoded(m.contrasena) # <<>>,
         NEW b, HoldsForm(b, m)
  PROVE  Tokens(b) = <<<<"red">>, UrlEncoded(m.red),
                       <<"contrasena">>, UrlEncoded(m.contrasena)>>
<1> DEFINE v == UrlEncoded(m.red)
           w == UrlEncoded(m.contrasena)
           a == Len(v)
           c == Len(w)
           n == a + c + 5
<1>1. /\ v \in Seq(Chars) /\ v \in Seq(Cells) /\ w \in Seq(Chars) /\ w \in Seq(Cells)
      /\ a \in Nat /\ a >= 1 /\ c \in Nat /\ c >= 1
  BY FieldsAreCells DEF Cells
<1>2. /\ Body(m) \in Seq(Cells) /\ Len(Body(m)) = n
      /\ Body(m)[1] = "red" /\ Body(m)[2] = "="
      /\ \A j \in 1..a : Body(m)[2 + j] = v[j]
      /\ Body(m)[a + 3] = "&" /\ Body(m)[a + 4] = "contrasena" /\ Body(m)[a + 5] = "="
      /\ \A j \in 1..c : Body(m)[a + 5 + j] = w[j]
  BY BodyIs DEF IsBody
<1> HIDE DEF v, w
<1>3. StackSize \in Nat /\ n <= StackSize /\ n \in Nat
  BY <1>1, <1>2, FormAssumption DEF HoldsForm
<1>4. \A i \in 1..n : i \in 1..StackSize /\ b[i] = Body(m)[i]
  BY <1>1, <1>2, <1>3 DEF HoldsForm
<1>5. \A x \in Chars : x \notin Delim /\ x # "NUL"
  BY FormAssumption
<1>6. /\ b[1] = "red" /\ b[2] = "="
      /\ \A j \in 1..a : b[2 + j] = v[j] /\ v[j] \in Chars
      /\ b[a + 3] = "&" /\ b[a + 4] = "contrasena" /\ b[a + 5] = "="
      /\ \A j \in 1..c : b[a + 5 + j] = w[j] /\ w[j] \in Chars
  <2>1. /\ 1 \in 1..n /\ 2 \in 1..n /\ a + 3 \in 1..n /\ a + 4 \in 1..n /\ a + 5 \in 1..n
        /\ \A j \in 1..a : 2 + j \in 1..n
        /\ \A j \in 1..c : a + 5 + j \in 1..n
    BY <1>1
  <2>2. (\A j \in 1..a : v[j] \in Chars) /\ \A j \in 1..c : w[j] \in Chars
    BY <1>1
  <2> HIDE DEF n, a, c
  <2> QED BY <1>2, <1>4, <2>1, <2>2
<1>7. TextLength(b) = n
  <2>1. ASSUME NEW i \in 1..n PROVE b[i] # "NUL"
    <3>1. \/ i = 1 \/ i = 2 \/ i - 2 \in 1..a \/ i = a + 3 \/ i = a + 4 \/ i = a + 5
          \/ i - (a + 5) \in 1..c
      BY <1>1
    <3>2. 2 + (i - 2) = i /\ a + 5 + (i - (a + 5)) = i
      BY <1>1
    <3> HIDE DEF n, a, c
    <3> QED BY <1>5, <1>6, <3>1, <3>2
  <2>2. n < StackSize => b[n + 1] = "NUL"
    BY <1>1, <1>2, <1>3 DEF HoldsForm
  <2>3. n \in 0..StackSize
    BY <1>3
  <2> HIDE DEF n
  <2> QED BY <2>1, <2>2, <2>3, TextIs
<1>8. PICK f : Tokens(b) = f[n] /\ f[0] = <<>> /\ MakesTokens(b, f)
  <2>1. b \in [1..StackSize -> Cells]
    BY DEF HoldsForm
  <2> HIDE DEF n
  <2> QED BY <1>7, <2>1, TokensAre
<1>9. \A i \in 1..StackSize : b[i] \in Delim => f[i] = f[i - 1]
  BY <1>8 DEF MakesTokens, TokenStep
<1>10. /\ 1 \in 1..StackSize /\ 2 \in 1..StackSize /\ b[2] \in Delim
       /\ a + 3 \in 1..StackSize /\ b[a + 3] \in Delim /\ (a + 3) - 1 = 2 + a
       /\ a + 5 \in 1..StackSize /\ b[a + 5] \in Delim /\ (a + 5) - 1 = a + 4
       /\ a + 5 + c = n
  BY <1>1, <1>3, <1>6 DEF Delim
<1> DEFINE t1 == Append(<<>>, <<"red">>)
           t2 == Append(t1, v)
           t3 == Append(t2, <<"contrasena">>)
<1>11. /\ <<"red">> \in Seq(Cells) /\ <<"contrasena">> \in Seq(Cells)
       /\ t1 \in Seq(Seq(Cells)) /\ t2 \in Seq(Seq(Cells)) /\ t3 \in Seq(Seq(Cells))
  <2>1. <<"red">> \in Seq(Cells) /\ <<"contrasena">> \in Seq(Cells)
    BY DEF Cells
  <2>2. t1 \in Seq(Seq(Cells))
    BY <2>1
  <2> HIDE DEF t1
  <2>3. t2 \in Seq(Seq(Cells))
    BY <1>1, <2>2
  <2> HIDE DEF t2
  <2>4. t3 \in Seq(Seq(Cells))
    BY <2>1, <2>3
  <2> QED BY <2>1, <2>2, <2>3, <2>4
<1>12. f[2] = t1
  <2> DEFINE u == <<"red">>
  <2>1. u \in Seq(Cells) /\ u # <<>> /\ Len(u) = 1 /\ f[0] \in Seq(Seq(Cells))
    BY <1>8, <1>11
  <2>2. IsRun(b, 0, u)
    <3>1. \A j \in 1..Len(u) : b[0 + j] = u[j] /\ u[j] \notin Delim
      BY <1>6 DEF Delim
    <3> HIDE DEF u
    <3> QED BY <1>3, <1>10, <2>1, <3>1 DEF IsRun
  <2> HIDE DEF u
  <2>3. OneMore(f, 0, u)
    BY <1>8, <2>1, <2>2, RunIsToken
  <2>4. f[1] = Append(<<>>, u)
    BY <1>8, <2>1, <2>3 DEF OneMore
  <2>5. f[2] = f[2 - 1]
    BY <1>9, <1>10
  <2> QED BY <2>4, <2>5 DEF u
<1>13. f[a + 3] = t2
  <2>1. IsRun(b, 2, v)
    <3>1. v # <<>> /\ 2 + a <= StackSize
      BY <1>1, <1>3
    <3>2. \A j \in 1..a : b[2 + j] = v[j] /\ v[j] \notin Delim
      BY <1>5, <1>6
    <3> QED BY <1>10, <3>1, <3>2 DEF IsRun
  <2>a. f[2] \in Seq(Seq(Cells)) /\ 2 \in Nat
    BY <1>11, <1>12
  <2> HIDE DEF t1
  <2>b. OneMore(f, 2, v)
    BY <1>1, <1>8, <2>a, <2>1, RunIsToken
  <2>2. f[2 + a] = Append(f[2], v)
    BY <2>b DEF OneMore
  <2>3. f[a + 3] = f[2 + a]
    BY <1>9, <1>10
  <2> QED BY <1>12, <2>2, <2>3
<1>14. f[a + 5] = t3
  <2> DEFINE u == <<"contrasena">>
             k == a + 3
  <2>1. u \in Seq(Cells) /\ u # <<>> /\ Len(u) = 1 /\ k \in Nat /\ k + 1 = a + 4
    BY <1>1, <1>11
  <2>2. IsRun(b, k, u)
    <3>1. k + Len(u) <= StackSize /\ b[k] \in Delim
      BY <1>3, <1>1, <1>10, <2>1
    <3>2. \A j \in 1..Len(u) : b[k + j] = u[j] /\ u[j] \notin Delim
      BY <1>6, <2>1 DEF Delim
    <3> HIDE DEF u, k
    <3> QED BY <2>1, <3>1, <3>2 DEF IsRun
  <2>3. f[k] \in Seq(Seq(Cells)) /\ f[k] = t2
    BY <1>11, <1>13
  <2>4. f[a + 5] = f[a + 4]
    BY <1>9, <1>10
  <2> HIDE DEF u, k, t2
  <2>5. OneMore(f, k, u)
    BY <1>8, <2>1, <2>2, <2>3, RunIsToken
  <2> QED BY <2>1, <2>3, <2>4, <2>5 DEF u, OneMore
<1>15. f[n] = Append(t3, w)
  <2> DEFINE k == a + 5
  <2>1. k \in Nat /\ k + c = n /\ k + c <= StackSize /\ b[k] \in Delim
    BY <1>1, <1>3, <1>10
  <2>2. \A j \in 1..c : b[k + j] = w[j] /\ w[j] \notin Delim
    BY <1>5, <1>6
  <2>3. w # <<>>
    BY <1>1
  <2>4. f[k] = t3 /\ f[k] \in Seq(Seq(Cells))
    BY <1>11, <1>14
  <2> HIDE DEF k, t3, n
  <2>5. IsRun(b, k, w)
    BY <2>1, <2>2, <2>3 DEF IsRun
  <2>6. OneMore(f, k, w)
    BY <1>1, <1>8, <2>1, <2>4, <2>5, RunIsToken
  <2> QED BY <2>1, <2>4, <2>6 DEF OneMore
<1>16. Append(t3, w) = <<<<"red">>, v, <<"contrasena">>, w>>
  <2> DEFINE p == <<"red">>
             r == <<"contrasena">>
  <2>1. p \in Seq(Cells) /\ v \in Seq(Cells) /\ r \in Seq(Cells) /\ w \in Seq(Cells)
    BY <1>1, <1>11
  <2> HIDE DEF p, r
  <2>2. Append(Append(Append(Append(<<>>, p), v), r), w) = <<p, v, r, w>>
    BY <2>1, FourAppended
  <2> QED BY <2>2 DEF p, r
<1> QED BY <1>8, <1>15, <1>16 DEF v, w

\* f is the fields after each first part of the tokens.
FieldsTo(tokens, s, p, f) ==
  f = [k \in 0..Len(tokens) |->
        IF k = 0 THEN [ssid |-> s, password |-> p, expect |-> <<>>]
                 ELSE Take(f[k - 1], tokens[k])]

\* A value that is short enough is copied whole.
LEMMA CopiedWhole ==
  ASSUME NEW size \in Nat \ {0}, NEW v \in Seq(Chars), v # <<>>, Len(v) <= size - 1
  PROVE  Copied(v, size) = v
<1>1. Len(v) \in Nat /\ ~ (Len(v) < size - 1) => Len(v) = size - 1
  OBVIOUS
<1>2. Copied(v, size) = SubSeq(v, 1, Len(v))
  BY <1>1 DEF Copied, FirstChars
<1>3. SubSeq(v, 1, Len(v)) = v
  OBVIOUS
<1> QED BY <1>2, <1>3

\* From the four tokens of a plain form the loop takes its two values.
LEMMA PlainFields ==
  ASSUME NEW v, NEW w, NEW s, NEW p
  PROVE  \E f : /\ FieldsTo(<<<<"red">>, v, <<"contrasena">>, w>>, s, p, f)
                /\ f[4] = [ssid |-> Copied(v, SsidSize),
                           password |-> Copied(w, PasswordSize), expect |-> <<>>]
<1> DEFINE tokens == <<<<"red">>, v, <<"contrasena">>, w>>
           x == Copied(v, SsidSize)
           y == Copied(w, PasswordSize)
           r0 == [ssid |-> s, password |-> p, expect |-> <<>>]
           r1 == [ssid |-> s, password |-> p, expect |-> <<"red">>]
           r2 == [ssid |-> x, password |-> p, expect |-> <<>>]
           r3 == [ssid |-> x, password |-> p, expect |-> <<"contrasena">>]
           r4 == [ssid |-> x, password |-> y, expect |-> <<>>]
           f == [k \in 0..4 |-> IF k = 0 THEN r0 ELSE IF k = 1 THEN r1
                                ELSE IF k = 2 THEN r2 ELSE IF k = 3 THEN r3 ELSE r4]
<1>1. <<>> # <<"red">> /\ <<>> # <<"contrasena">> /\ <<"red">> # <<"contrasena">>
  <2>1. Len(<<>>) = 0 /\ Len(<<"red">>) = 1 /\ Len(<<"contrasena">>) = 1
    OBVIOUS
  <2>2. <<"red">>[1] = "red" /\ <<"contrasena">>[1] = "contrasena"
    OBVIOUS
  <2>3. "red" # "contrasena"
    OBVIOUS
  <2> QED BY <2>1, <2>2, <2>3
<1>2. /\ Len(tokens) = 4 /\ tokens[1] = <<"red">> /\ tokens[2] = v
      /\ tokens[3] = <<"contrasena">> /\ tokens[4] = w
  OBVIOUS
<1> HIDE DEF tokens, x, y
<1>3. Take(r0, <<"red">>) = r1
  BY <1>1 DEF Take, Keys
<1>4. Take(r1, v) = r2
  BY <1>1 DEF Take, x
<1>5. Take(r2, <<"contrasena">>) = r3
  BY <1>1 DEF Take, Keys
<1>6. Take(r3, w) = r4
  BY <1>1 DEF Take, y
<1> HIDE DEF r0, r1, r2, r3, r4
<1>7. ASSUME NEW k \in 0..4
      PROVE  f[k] = IF k = 0 THEN r0 ELSE Take(f[k - 1], tokens[k])
  <2>1. k = 0 \/ k = 1 \/ k = 2 \/ k = 3 \/ k = 4
    OBVIOUS
  <2>2. f[0] = r0 /\ f[1] = r1 /\ f[2] = r2 /\ f[3] = r3 /\ f[4] = r4
    OBVIOUS
  <2>3. 1 - 1 = 0 /\ 2 - 1 = 1 /\ 3 - 1 = 2 /\ 4 - 1 = 3
    OBVIOUS
  <2> HIDE DEF f
  <2> QED BY <1>2, <1>3, <1>4, <1>5, <1>6, <2>1, <2>2, <2>3
<1>8. f = [k \in 0..4 |-> f[k]] /\ f[4] = r4
  OBVIOUS
<1> HIDE DEF f
<1>9. f = [k \in 0..4 |-> IF k = 0 THEN r0 ELSE Take(f[k - 1], tokens[k])]
  BY <1>7, <1>8
<1>10. FieldsTo(tokens, s, p, f)
  BY <1>2, <1>9 DEF FieldsTo, r0
<1> QED BY <1>8, <1>10 DEF tokens, r4, x, y

\* So the token loop has copied both values when it ends, whatever ssid and
\* password held before.
LEMMA PlainParsed ==
  ASSUME NEW m \in FormType, NEW b, HoldsForm(b, m), NEW s, NEW p,
         Len(UrlEncoded(m.red)) \in 1..(SsidSize - 1),
         Len(UrlEncoded(m.contrasena)) \in 1..(PasswordSize - 1)
  PROVE  /\ Parsed(b, s, p).ssid = UrlEncoded(m.red)
         /\ Parsed(b, s, p).password = UrlEncoded(m.contrasena)
<1> DEFINE v == UrlEncoded(m.red)
           w == UrlEncoded(m.contrasena)
           tokens == <<<<"red">>, v, <<"contrasena">>, w>>
<1>1. v \in Seq(Chars) /\ w \in Seq(Chars) /\ v # <<>> /\ w # <<>>
  BY FieldsAreCells
<1>2. Tokens(b) = tokens
  BY <1>1, PlainTokens
<1>3. Copied(v, SsidSize) = v /\ Copied(w, PasswordSize) = w
  <2>1. /\ SsidSize \in Nat \ {0} /\ Len(v) <= SsidSize - 1
        /\ PasswordSize \in Nat \ {0} /\ Len(w) <= PasswordSize - 1
    BY FormAssumption
  <2> HIDE DEF v, w
  <2> QED BY <1>1, <2>1, CopiedWhole
<1> DEFINE r4 == [ssid |-> v, password |-> w, expect |-> <<>>]
<1>4. PICK g : FieldsTo(tokens, s, p, g) /\ g[4] = r4
  BY <1>3, PlainFields
<1>5. Len(tokens) = 4
  OBVIOUS
<1> HIDE DEF tokens
<1> DEFINE f == CHOOSE f : FieldsTo(tokens, s, p, f)
<1>6. FieldsTo(tokens, s, p, f)
  BY <1>4, Zenon
<1>7. Parsed(b, s, p) = f[4]
  <2>1. Parsed(b, s, p) = f[Len(tokens)]
    BY <1>2, Zenon DEF Parsed, FieldsTo
  <2> QED BY <1>5, <2>1
<1> HIDE DEF f
<1>8. f[4] = r4
  <2> HIDE DEF r4
  <2> DEFINE r0 == [ssid |-> s, password |-> p, expect |-> <<>>]
  <2>0. /\ \A k \in 0..4 : f[k] = IF k = 0 THEN r0 ELSE Take(f[k - 1], tokens[k])
        /\ \A k \in 0..4 : g[k] = IF k = 0 THEN r0 ELSE Take(g[k - 1], tokens[k])
    BY <1>4, <1>5, <1>6 DEF FieldsTo
  <2> HIDE DEF r0
  <2>1. f[0] = g[0]
    BY <2>0
  <2>2. f[1] = g[1]
    BY <2>0, <2>1
  <2>3. f[2] = g[2]
    BY <2>0, <2>2
  <2>4. f[3] = g[3]
    BY <2>0, <2>3
  <2>5. f[4] = g[4]
    BY <2>0, <2>4
  <2> QED BY <1>4, <2>5
<1> QED BY <1>7, <1>8

\* Until the body has come in one piece, "=" cannot be second in the buffer:
\* strtok has put a NUL over the one that was there, and in what is left of the
\* body every "=" follows the second key.
FormInv ==
  /\ FormIsKeptAsPosted
  /\ pc = "recv" =>
       /\ form \in Forms
       /\ remaining \in Seq(Cells)
       /\ \/ remaining = Body(form)
          \/ /\ buf[2] # "="
             /\ \A i \in 2..Len(remaining) :
                  remaining[i] = "=" => remaining[i - 1] = "contrasena"

\* strtok ends a token at a "=" that is second, whatever key is before it.
LEMMA SecondIsCut ==
  ASSUME NEW b, b[2] = "=" => b[1] \in {"red", "contrasena"}
  PROVE  AfterStrtok(b)[2] # "="
<1>0. StackSize \in Nat /\ 1 \in 1..StackSize /\ 2 \in 1..StackSize
  BY FormAssumption
<1>1. CASE b[2] # "="
  BY <1>0, <1>1 DEF AfterStrtok
<1>2. CASE b[2] = "="
  <2> DEFINE ends == {i \in 1..StackSize : b[i] = "NUL"}
  <2>1. b[1] # "NUL" /\ b[2] # "NUL" /\ b[1] \notin Delim /\ b[2] \in Delim
    BY <1>2 DEF Delim
  <2>2. TextLength(b) \in Nat /\ TextLength(b) >= 2
    <3>1. CASE ends = {}
      BY <3>1, <1>0, FormAssumption DEF TextLength
    <3>2. CASE ends # {}
      <4>1. ends \in SUBSET Nat
        BY <1>0
      <4>2. PICK e \in ends : \A i \in ends : e <= i
        BY <3>2, <4>1, Least
      <4>3. e \in Nat /\ e > 2
        BY <2>1, <4>2, <1>0
      <4>4. \A k \in ends : (\A i \in ends : k <= i) => k = e
        BY <4>1, <4>2
      <4>5. Min(ends) = e
        <5> HIDE DEF ends
        <5> QED BY <4>2, <4>4, Zenon DEF Min
      <4> QED BY <3>2, <4>3, <4>5 DEF TextLength
    <3> QED BY <3>1, <3>2
  <2>3. 2 \in 2..TextLength(b) /\ 2 - 1 = 1
    BY <2>2
  <2>4. AfterStrtok(b)[2] = "NUL"
    <3>1. AfterStrtok(b)[2] = IF /\ 2 \in 2..TextLength(b)
                                 /\ b[2] \in Delim
                                 /\ b[2 - 1] \notin Delim THEN "NUL" ELSE b[2]
      BY <1>0 DEF AfterStrtok
    <3> QED BY <2>1, <2>3, <3>1
  <2> QED BY <2>4
<1> QED BY <1>1, <1>2

\* Where "=" is in the body of a form.
LEMMA EqualsOfBody ==
  ASSUME NEW m \in FormType, NEW i \in 1..Len(Body(m)), Body(m)[i] = "="
  PROVE  i = 2 \/ (i > 2 /\ Body(m)[i - 1] = "contrasena")
<1> DEFINE v == UrlEncoded(m.red)
           w == UrlEncoded(m.contrasena)
           a == Len(v)
           c == Len(w)
           q == Body(m)
<1>1. v \in Seq(Chars) /\ w \in Seq(Chars) /\ a \in Nat /\ c \in Nat
  BY FieldsAreCells
<1>2. IsBody(q, v, w, a, c)
  BY BodyIs
<1>3. (\A j \in 1..a : v[j] \in Chars) /\ \A j \in 1..c : w[j] \in Chars
  BY <1>1
<1>4. "=" \notin Chars
  BY FormAssumption DEF Delim
<1> HIDE DEF v, w, q, a, c
<1>5. i \in 1..(a + c + 5) /\ q[i] = "="
  BY <1>1, <1>2 DEF IsBody, q
<1>6. \/ i = 1 \/ i = 2 \/ i - 2 \in 1..a \/ i = a + 3 \/ i = a + 4 \/ i = a + 5
      \/ i - (a + 5) \in 1..c
  BY <1>1, <1>5
<1>7. 2 + (i - 2) = i /\ a + 5 + (i - (a + 5)) = i
  BY <1>1, <1>5
<1>8. /\ q[1] = "red" /\ \A j \in 1..a : q[2 + j] = v[j]
      /\ q[a + 3] = "&" /\ q[a + 4] = "contrasena"
      /\ \A j \in 1..c : q[a + 5 + j] = w[j]
  BY <1>2 DEF IsBody
<1>9. i = 2 \/ i = a + 5
  BY <1>3, <1>4, <1>5, <1>6, <1>7, <1>8
<1>10. i = a + 5 => i > 2 /\ i - 1 = a + 4
  BY <1>1
<1> QED BY <1>8, <1>9, <1>10 DEF q

\* No form is being received yet.
LEMMA FormInit == CredsInit => FormInv
  BY DEF CredsInit, FormInv, FormIsKeptAsPosted

\* One piece of the body.
LEMMA RecvForm ==
  ASSUME FormInv, NEW delivery \in Deliveries, Recv(delivery)
  PROVE  FormInv'
<1> DEFINE b == delivery.buf
           q == Body(form)
<1>1. PICK n \in 1..BufSize :
        /\ n <= Len(remaining)
        /\ b = Received(buf, SubSeq(remaining, 1, n))
        /\ delivery.rest = SubSeq(remaining, n + 1, Len(remaining))
  BY DEF Deliveries, StillRemaining
<1>2. /\ pc = "recv" /\ form' = form
      /\ buf' = AfterStrtok(b) /\ remaining' = delivery.rest
      /\ exact' = (b = Received([i \in 1..StackSize |-> "NUL"], q))
      /\ pc' = IF remaining' = <<>> THEN "fopen" ELSE "recv"
      /\ ssid' = Parsed(b, ssid, password).ssid
      /\ password' = Parsed(b, ssid, password).password
  BY DEF Recv
<1>3. form \in FormType /\ remaining \in Seq(Cells)
  BY <1>2, FormsAssumption DEF FormInv, FormType
<1>4. StackSize \in Nat /\ n \in Nat /\ n >= 1 /\ StackSize >= 2 /\ 1 \in 1..StackSize /\ 2 \in 1..StackSize
  BY FormAssumption
<1>5. /\ q \in Seq(Cells) /\ Len(q) \in Nat /\ Len(q) >= 5
      /\ q[1] = "red" /\ q[2] = "="
  <2> DEFINE v == UrlEncoded(form.red)
             w == UrlEncoded(form.contrasena)
             a == Len(v)
             c == Len(w)
  <2>0. v \in Seq(Chars) /\ w \in Seq(Chars)
    BY <1>3, FieldsAreCells
  <2>1. a \in Nat /\ c \in Nat /\ IsBody(q, v, w, a, c)
    BY <1>3, <2>0, BodyIs
  <2> HIDE DEF q, a, c
  <2>2. q \in Seq(Cells) /\ q[1] = "red" /\ q[2] = "="
    BY <2>1 DEF IsBody
  <2>3. Len(q) = a + c + 5
    BY <2>1 DEF IsBody
  <2>4. Len(q) \in Nat /\ Len(q) >= 5
    BY <2>1, <2>3
  <2> QED BY <2>2, <2>4
<1> HIDE DEF b, q
<1>6. \A i \in 1..StackSize : b[i] = IF i <= n THEN remaining[i] ELSE buf[i]
  <2>1. Len(SubSeq(remaining, 1, n)) = n /\ \A i \in 1..n : SubSeq(remaining, 1, n)[i] = remaining[i]
    BY <1>1, <1>3, <1>4
  <2> QED BY <1>1, <1>4, <2>1 DEF Received
<1>7. \/ remaining = q
      \/ /\ buf[2] # "="
         /\ \A i \in 2..Len(remaining) : remaining[i] = "=" => remaining[i - 1] = "contrasena"
  BY <1>2 DEF FormInv, q
<1>8. /\ remaining' \in Seq(Cells) /\ Len(remaining') = Len(remaining) - n
      /\ Len(remaining) \in Nat
      /\ \A i \in 1..Len(remaining') : remaining'[i] = remaining[n + i]
  BY <1>1, <1>2, <1>3, <1>4
<1>9. \A i \in 2..Len(remaining) :
        remaining[i] = "=" => i = 2 \/ remaining[i - 1] = "contrasena"
  BY <1>3, <1>7, EqualsOfBody DEF q
<1>10. b[2] = "=" => b[1] \in {"red", "contrasena"}
  <2>1. b[1] = remaining[1] /\ (n >= 2 => b[2] = remaining[2]) /\ (n < 2 => b[2] = buf[2])
    BY <1>4, <1>6
  <2>2. CASE remaining = q
    BY <1>5, <2>1, <2>2
  <2>3. CASE /\ buf[2] # "="
             /\ \A i \in 2..Len(remaining) : remaining[i] = "=" => remaining[i - 1] = "contrasena"
    <3>1. n >= 2 => 2 \in 2..Len(remaining) /\ 2 - 1 = 1
      BY <1>1, <1>8
    <3> QED BY <1>4, <2>1, <2>3, <3>1
  <2> QED BY <1>7, <2>2, <2>3
<1>11. buf'[2] # "="
  BY <1>2, <1>10, SecondIsCut
<1>12. ASSUME NEW i \in 2..Len(remaining'), remaining'[i] = "="
       PROVE  remaining'[i - 1] = "contrasena"
  <2>1. /\ i \in 1..Len(remaining') /\ i - 1 \in 1..Len(remaining')
        /\ n + i \in 2..Len(remaining) /\ n + i # 2 /\ n + (i - 1) = (n + i) - 1
    BY <1>4, <1>8
  <2>2. remaining'[i] = remaining[n + i] /\ remaining'[i - 1] = remaining[(n + i) - 1]
    BY <1>8, <2>1
  <2> QED BY <1>9, <1>12, <2>1, <2>2
\* What came in one piece is the whole body: a later piece cannot bring both
\* "red" and "=" to the start of the buffer.
<1>13. ASSUME exact' PROVE remaining = q
  <2>1. b[1] = "red" /\ b[2] = "="
    <3>1. b = [i \in 1..StackSize |-> IF i <= Len(q) THEN q[i] ELSE "NUL"]
      BY <1>2, <1>13 DEF Received
    <3>2. 1 <= Len(q) /\ 2 <= Len(q)
      BY <1>5
    <3> QED BY <1>4, <1>5, <3>1, <3>2
  <2>2. SUFFICES ASSUME buf[2] # "=",
                        \A i \in 2..Len(remaining) :
                          remaining[i] = "=" => remaining[i - 1] = "contrasena"
                 PROVE  FALSE
    BY <1>7
  <2>3. n >= 2
    BY <1>4, <1>6, <2>1, <2>2
  <2>4. 2 \in 2..Len(remaining) /\ 2 - 1 = 1 /\ remaining[1] = "red" /\ remaining[2] = "="
    BY <1>1, <1>4, <1>6, <1>8, <2>1, <2>3
  <2> QED BY <2>2, <2>4
<1>14. FormIsKeptAsPosted'
  <2> SUFFICES ASSUME pc' = "fopen", exact',
                      Len(UrlEncoded(form.red)) \in 1..(SsidSize - 1),
                      Len(UrlEncoded(form.contrasena)) \in 1..(PasswordSize - 1)
               PROVE  /\ ssid' = UrlEncoded(form.red)
                      /\ password' = UrlEncoded(form.contrasena)
    BY <1>2 DEF FormIsKeptAsPosted, Fits
  <2>1. remaining' = <<>>
    BY <1>2
  <2>2. n = Len(q)
    BY <1>1, <1>8, <1>13, <2>1
  <2>3. HoldsForm(b, form)
    <3>1. b = [i \in 1..StackSize |-> IF i <= Len(q) THEN q[i] ELSE "NUL"]
      BY <1>2 DEF Received
    <3>2. \A i \in 1..StackSize : (IF i <= Len(q) THEN q[i] ELSE "NUL") \in Cells
      BY <1>5 DEF Cells
    <3>3. b \in [1..StackSize -> Cells] /\ \A i \in 1..StackSize : b[i] = IF i <= Len(q) THEN q[i] ELSE "NUL"
      BY <3>1, <3>2
    <3>4. Len(q) <= StackSize
      BY <1>4, <2>2, FormAssumption
    <3> QED BY <3>3, <3>4 DEF HoldsForm, q
  <2> QED BY <1>2, <1>3, <2>3, PlainParsed
<1>15. pc' = "recv" => form' \in Forms
  BY <1>2 DEF FormInv
<1> QED BY <1>8, <1>11, <1>12, <1>14, <1>15 DEF FormInv

\* Only a piece of the body can bring the handler to the save.
LEMMA FormStep == FormInv /\ [CredsNext]_credsVars => FormInv'
<1> SUFFICES ASSUME FormInv, [CredsNext]_credsVars PROVE FormInv'
  OBVIOUS
<1>1. CASE Guardar
  <2>1. form' \in Forms /\ remaining' = Body(form') /\ pc' = "recv" /\ ~ exact'
    BY <1>1 DEF Guardar
  <2>2. form' \in FormType
    BY <2>1, FormsAssumption DEF FormType
  <2>3. remaining' \in Seq(Cells)
    BY <2>1, <2>2, BodyIs DEF IsBody
  <2> QED BY <2>1, <2>3 DEF FormInv, FormIsKeptAsPosted
<1>2. CASE \E delivery \in Deliveries : Recv(delivery)
  BY <1>2, RecvForm
<1>3. CASE ReadPassword \/ Restart \/ RecvFails \/ SaveFails \/ SaveRunsOut
             \/ SaveOpens \/ SaveWrites
  <2>1. pc' \in {"idle", "read_password", "fprintf"}
    BY <1>3 DEF ReadPassword, Restart, RecvFails, SaveFails, SaveRunsOut, SaveOpens, SaveWrites
  <2> QED BY <2>1 DEF FormInv, FormIsKeptAsPosted
<1>4. CASE UNCHANGED credsVars
  BY <1>4 DEF credsVars, handlerVars, FormInv, FormIsKeptAsPosted
<1> QED BY <1>1, <1>2, <1>3, <1>4 DEF CredsNext, HttpTask, RecvPanics, PowerLoss

\* A form that arrives in one piece into a cleared buffer, both fields filled in
\* and short enough as posted, reaches save_config_to_file as it was posted, for
\* every form, every escaping and every size of buf, ssid and password.
THEOREM FormKeptAsPosted == CredsSpec => []FormIsKeptAsPosted
<1>1. FormInv => FormIsKeptAsPosted
  BY DEF FormInv
<1>2. QED
  BY <1>1, FormInit, FormStep, PTL DEF CredsSpec

\* If none of its characters has to be escaped, it is as it was typed.
THEOREM PlainFormKept == CredsSpec => []PlainFormIsKept
<1>1. ASSUME NEW v \in Seq(Plain) PROVE UrlEncoded(v) = v
  <2>1. v \in Seq(Typed)
    BY DEF Plain, Typed
  <2> QED BY <2>1, EncodedIs
<1>2. FormIsKeptAsPosted => PlainFormIsKept
  BY <1>1 DEF FormIsKeptAsPosted, PlainFormIsKept
<1>3. QED
  BY <1>2, FormKeptAsPosted, PTL
=============================================================================
