------------------------------ MODULE Services ------------------------------
(***************************************************************************)
(* The services beside the engine and the gateway: the chat graph, the     *)
(* ingestion queue, the resume bridge, the rate limiter, the custody of    *)
(* credentials and the authority of a request.  They share no state, so    *)
(* what each of them guarantees is what it guarantees alone: a behaviour   *)
(* of this module picks one of them and leaves the others in their initial *)
(* states.                                                                 *)
(***************************************************************************)
EXTENDS ChatGraph, IngestionQueue, ResumeBridge, RateLimiter, CredentialSlots,
        RequestAuthority

VARIABLE service   \* the service that runs

servicesVars == <<service, chatVars, queueVars, bridgeVars, limiterVars, slotVars,
                  authorityVars>>

ServicesInit ==
  /\ service \in {"chat", "queue", "bridge", "limiter", "slots", "authority"}
  /\ ChatInit /\ QueueInit /\ BridgeInit /\ LimiterInit /\ SlotsInit
  /\ AuthorityInit

Only(name, others) == service = name /\ UNCHANGED <<service, others>>

OnlyChat ==
  Only("chat", <<queueVars, bridgeVars, limiterVars, slotVars, authorityVars>>)
OnlyQueue ==
  Only("queue", <<chatVars, bridgeVars, limiterVars, slotVars, authorityVars>>)
OnlyBridge ==
  Only("bridge", <<chatVars, queueVars, limiterVars, slotVars, authorityVars>>)
OnlyLimiter ==
  Only("limiter", <<chatVars, queueVars, bridgeVars, slotVars, authorityVars>>)
OnlySlots ==
  Only("slots", <<chatVars, queueVars, bridgeVars, limiterVars, authorityVars>>)
OnlyAuthority ==
  Only("authority", <<chatVars, queueVars, bridgeVars, limiterVars, slotVars>>)

ServicesNext ==
  \/ OnlyChat /\ ChatNext
  \/ OnlyQueue /\ QueueNext
  \/ OnlyBridge /\ BridgeNext
  \/ OnlyLimiter /\ LimiterNext
  \/ OnlySlots /\ SlotsNext
  \/ OnlyAuthority /\ AuthorityNext

\* LangGraph runs the next node of a turn; the worker's loop goes on until it
\* is stopped; the middleware's wait times out and its checks are answered or
\* time out.  Clients, handlers and faults are not forced.
ServicesFairness ==
  /\ \A t \in Turns : WF_chatVars(OnlyChat /\ TurnStep(t))
  /\ \A w \in Workers : WF_queueVars(OnlyQueue /\ WorkerStep(w))
  /\ WF_authorityVars(OnlyAuthority /\ WatchStep)
  /\ WF_authorityVars(OnlyAuthority /\ TimePasses)

ServicesSpec == ServicesInit /\ [][ServicesNext]_servicesVars /\ ServicesFairness

ServicesTypeOK ==
  /\ ChatTypeOK /\ QueueTypeOK /\ BridgeTypeOK /\ LimiterTypeOK /\ SlotsTypeOK
  /\ AuthorityTypeOK
=============================================================================
