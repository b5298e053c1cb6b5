--------------------------- MODULE Services_proofs ---------------------------
(***************************************************************************)
(* The properties of MCServices that are proved, for every value of its    *)
(* constants: what is proved of a component holds of the instance of it in *)
(* MCServices.  Each time the invariant of the component holds whenever    *)
(* that component is active; no step changes which one is.                 *)
(***************************************************************************)
EXTENDS MCServices, TLAPS

\* A step is a step of the component that is active.
LEMMA OneComponent ==
  ASSUME [Next]_vars
  PROVE  /\ active' = active
         /\ \/ UNCHANGED vars
            \/ active = "hosts" /\ Hosts!Next
            \/ active = "l3" /\ Hosts!LearningNext
            \/ active = "balancer" /\ Respond!BalancerNext
            \/ active = "arp" /\ Respond!Next
            \/ active = "stats" /\ Connection!Next
            \/ active = "sender" /\ Connection!SenderNext
            \/ active = "requests" /\ Requests!Next
            \/ active = "dealer" /\ Requests!DealerNext
            \/ active \notin {"hosts", "l3", "balancer", "arp", "stats", "sender",
                              "requests", "dealer"}
BY DEF Next, vars, TelnetStep, EditorStep, CoreStep, WebStep, IoStep, PathsStep,
  ForestStep, RipStep, HostsStep, L3Step, BalancerStep, SyncStep, TextsStep, ArpStep,
  StatsStep, RequestsStep, SenderStep, DealerStep

-----------------------------------------------------------------------------
BalancerRuns == active = "balancer" => Respond!BalancerInv

\* A connection keeps its server while that one answers every probe in time
\* (misc/ip_loadbalancer.py, _handle_PacketIn, _do_probe).
THEOREM StaysWithServerCorrect == ASSUME Respond!PortsAndTimeout PROVE Spec => []StaysWithServer
<1>1. Init => BalancerRuns
  BY Respond!InitBalancer DEF Init, BalancerRuns
<1>2. BalancerRuns /\ [Next]_vars => BalancerRuns'
  BY OneComponent, Respond!NextBalancer DEF BalancerRuns, vars, Respond!balancerVars
<1>3. BalancerRuns => StaysWithServer
  BY DEF BalancerRuns, StaysWithServer, Respond!BalancerInv
<1> QED
  BY <1>1, <1>2, <1>3, PTL DEF Spec

-----------------------------------------------------------------------------
ArpRuns == active = "arp" => Respond!ResponderInv

\* An address the switches answer for is never taken over by what a host says, and an
\* answer is the configured one or the last heard (proto/arp_responder.py).
THEOREM AnswersRightCorrect == ASSUME Respond!NamesApart PROVE Spec => []AnswersRight
<1>1. Init => ArpRuns
  BY Respond!InitResponder DEF Init, ArpRuns
<1>2. ArpRuns /\ [Next]_vars => ArpRuns'
  BY OneComponent, Respond!NextResponder DEF ArpRuns, vars, Respond!vars
<1>3. ArpRuns => AnswersRight
  BY DEF ArpRuns, AnswersRight, Respond!ResponderInv, Respond!EntryRight, Respond!AnswersRight
<1> QED
  BY <1>1, <1>2, <1>3, PTL DEF Spec

-----------------------------------------------------------------------------
StatsRuns == active = "stats" => Connection!WholeInv

\* Statistics events are whole replies, and a reply that comes undisturbed is raised
\* (openflow/of_01.py, _incoming_stats_reply).
THEOREM RepliesWholeCorrect == ASSUME Connection!RequestsTyped PROVE Spec => []RepliesWhole
<1>1. Init => StatsRuns
  BY Connection!InitReplies DEF Init, StatsRuns
<1>2. StatsRuns /\ [Next]_vars => StatsRuns'
  BY OneComponent, Connection!NextReplies DEF StatsRuns, vars, Connection!vars
<1>3. StatsRuns => RepliesWhole
  BY DEF StatsRuns, RepliesWhole, Connection!WholeInv
<1> QED
  BY <1>1, <1>2, <1>3, PTL DEF Spec

-----------------------------------------------------------------------------
SenderRuns == active = "sender" => Connection!SenderInv

\* The task and the thread write to each socket what was sent, in its order and without
\* a gap (openflow/of_01.py, Connection.send, DeferredSender).
THEOREM StreamIntactCorrect == ASSUME Connection!NobodyIsNone PROVE Spec => []StreamIntact
<1>1. Init => SenderRuns
  BY Connection!InitSender DEF Init, SenderRuns
<1>2. SenderRuns /\ [Next]_vars => SenderRuns'
  BY OneComponent, Connection!NextSender DEF SenderRuns, vars, Connection!senderVars
<1>3. SenderRuns => StreamIntact
  BY DEF SenderRuns, StreamIntact, Connection!SenderInv
<1> QED
  BY <1>1, <1>2, <1>3, PTL DEF Spec

-----------------------------------------------------------------------------
HostsRun == active = "hosts" => Hosts!TrackerInv

\* A host that answers every ping where the tracker has it is never given up, and neither
\* is its address (host_tracker/host_tracker.py, _check_timeouts).
THEOREM HostsStayCorrect == ASSUME Hosts!TimesAreNatural PROVE Spec => HostsStay
<1>1. Init => HostsRun
  BY Hosts!InitTracker DEF Init, HostsRun
<1>2. HostsRun /\ [Next]_vars => HostsRun'
  BY OneComponent, Hosts!NextTracker DEF HostsRun, vars, Hosts!vars
<1>3. HostsRun /\ [Next]_vars => [active = "hosts" => Hosts!HostStays]_vars
  BY OneComponent, Hosts!StaysStep DEF HostsRun
<1> QED
  BY <1>1, <1>2, <1>3, PTL DEF Spec, HostsStay

-----------------------------------------------------------------------------
LearningRuns == active = "l3" => Hosts!LearningInv

\* A buffered packet is let go at most once and none waits for an address that is known;
\* flows follow a host that was seen elsewhere (forwarding/l3_learning.py,
\* _send_lost_buffers, _handle_openflow_PacketIn).
THEOREM WaitsOnceCorrect == ASSUME Hosts!BucketLimited PROVE Spec => []WaitsOnce
<1>1. Init => LearningRuns
  BY Hosts!InitLearning DEF Init, LearningRuns
<1>2. LearningRuns /\ [Next]_vars => LearningRuns'
  BY OneComponent, Hosts!NextLearning DEF LearningRuns, vars, Hosts!learningVars
<1>3. LearningRuns => WaitsOnce
  BY Hosts!LearningSound DEF LearningRuns, WaitsOnce
<1> QED
  BY <1>1, <1>2, <1>3, PTL DEF Spec

-----------------------------------------------------------------------------
RequestsRun == active = "requests" => Requests!RequestsInv

\* A request for the flows has the answer the switch gave to it; who is told that the table
\* is set had every flow taken, and finds the table it wanted; nobody is left listening
\* (web/webservice.py, OFConRequest, OFSetTableRequest, OFFlowStatsRequest).
THEOREM RequestsAnsweredCorrect ==
  ASSUME Requests!RequestsAssumption PROVE Spec => []RequestsAnswered
<1>1. Init => RequestsRun
  BY Requests!InitAnswers DEF Init, RequestsRun
<1>2. RequestsRun /\ [Next]_vars => RequestsRun'
  BY OneComponent, Requests!NextAnswers DEF RequestsRun, vars, Requests!vars
<1>3. RequestsRun => RequestsAnswered
  BY Requests!AnswersSound DEF RequestsRun, RequestsAnswered
<1> QED
  BY <1>1, <1>2, <1>3, PTL DEF Spec

-----------------------------------------------------------------------------
DealerRuns == active = "dealer" => Requests!DealerInv

\* The dealer's WaitGroup stays above zero, nodes get transactions in one order, and a
\* result that comes in time reaches its call (Launcher/dealer.go).
THEOREM DealerSoundCorrect == ASSUME Requests!DealerAssumption PROVE Spec => []DealerSound
<1>1. Init => DealerRuns
  BY Requests!InitDealer DEF Init, DealerRuns
<1>2. DealerRuns /\ [Next]_vars => DealerRuns'
  BY OneComponent, Requests!NextDealer DEF DealerRuns, vars, Requests!dealerVars
<1>3. DealerRuns => DealerSound
  BY Requests!DealerInvSound DEF DealerRuns, DealerSound
<1> QED
  BY <1>1, <1>2, <1>3, PTL DEF Spec
=============================================================================
