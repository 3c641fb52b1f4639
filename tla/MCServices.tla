----------------------------- MODULE MCServices -----------------------------
(***************************************************************************)
(* The services that share no state with each other, explored in one run:  *)
(* "part" says which of them a behaviour is about, the others stay in an   *)
(* initial state (one fixed one where a module has several).  The state    *)
(* space is the sum of the parts', not their product.                      *)
(***************************************************************************)
EXTENDS TWSQuotes, TokenStore, RequestThrottle, CPOrders, Watchdog, CommandListener,
        TWSRequests, ReadCaches, TWSReads, AppLifespan, TopicAdapters,
        PaperRuns, OrderViews, WhatIf, WsConnection

VARIABLE part

Raw(prop, opens, closes) == [prop |-> prop, opens |-> opens, closes |-> closes]

MCWishes == {<<1, 2>>}
MCTickers == {[last |-> 3, close |-> 2, volume |-> 7]}
MCIssued == {[scopes |-> {"orders:read"}, expires |-> TRUE],
             [scopes |-> {"admin:*"}, expires |-> FALSE]}

\* A day with an early, a regular and a late session, and one with a lunch break.
MCSchedules == {<<Raw("EXT", 0, 1), Raw("LIQUID", 1, 2), Raw("EXT", 2, 3)>>,
                <<Raw("LIQUID", 0, 1), Raw("LIQUID", 2, 3)>>}

\* Two orders that are affordable, but not together.
MCWorth == [o \in TestOrders |-> IF o = CHOOSE t \in TestOrders : TRUE THEN 2 ELSE 5]

ServiceParts == {"quotes", "tokens", "throttle", "cp orders", "watchdog", "listener",
           "requests", "caches", "reads", "lifespan", "topics", "paper",
           "views", "whatif", "ws"}

\* The states a part that is not explored starts from.
OneOfEach ==
    /\ part # "tokens" => disk = NoTokens
    /\ part # "cp orders" => wanted = [h \in Handlers |-> "BUY"]
    /\ part # "lifespan" => env = CHOOSE e \in Environments : TRUE
    /\ part # "paper" =>
            killSwitch = "on" /\ account = "live" /\ \A o \in TestOrders : standing[o] = "none"
    /\ part # "topics" => known.raw = CHOOSE raw \in Schedules : TRUE

MCInit ==
    /\ part \in ServiceParts
    /\ QuotesInit /\ TokensInit /\ ThrottleInit /\ CPOrdersInit
    /\ WatchdogInit /\ ListenerInit /\ RequestsInit /\ CachesInit
    /\ ReadsInit /\ LifespanInit /\ TopicsInit /\ PaperInit
    /\ OrderViewsInit /\ WhatIfInit /\ WsInit
    /\ OneOfEach

MCNext ==
    \/ part = "quotes" /\ QuotesNext
       /\ UNCHANGED <<part, tokenVars, throttleVars, cpOrderVars, watchdogVars, listenerVars,
                      requestVars, cacheVars, readVars, lifespanVars,
                      topicVars, paperVars, orderViewVars,
                      whatIfVars, wsVars>>
    \/ part = "tokens" /\ TokensNext
       /\ UNCHANGED <<part, quoteVars, throttleVars, cpOrderVars, watchdogVars, listenerVars,
                      requestVars, cacheVars, readVars, lifespanVars,
                      topicVars, paperVars, orderViewVars,
                      whatIfVars, wsVars>>
    \/ part = "throttle" /\ ThrottleNext
       /\ UNCHANGED <<part, quoteVars, tokenVars, cpOrderVars, watchdogVars, listenerVars,
                      requestVars, cacheVars, readVars, lifespanVars,
                      topicVars, paperVars, orderViewVars,
                      whatIfVars, wsVars>>
    \/ part = "cp orders" /\ CPOrdersNext
       /\ UNCHANGED <<part, quoteVars, tokenVars, throttleVars, watchdogVars, listenerVars,
                      requestVars, cacheVars, readVars, lifespanVars,
                      topicVars, paperVars, orderViewVars,
                      whatIfVars, wsVars>>
    \/ part = "watchdog" /\ WatchdogNext
       /\ UNCHANGED <<part, quoteVars, tokenVars, throttleVars, cpOrderVars, listenerVars,
                      requestVars, cacheVars, readVars, lifespanVars,
                      topicVars, paperVars, orderViewVars,
                      whatIfVars, wsVars>>
    \/ part = "listener" /\ ListenerNext
       /\ UNCHANGED <<part, quoteVars, tokenVars, throttleVars, cpOrderVars, watchdogVars,
                      requestVars, cacheVars, readVars, lifespanVars,
                      topicVars, paperVars, orderViewVars,
                      whatIfVars, wsVars>>
    \/ part = "requests" /\ RequestsNext
       /\ UNCHANGED <<part, quoteVars, tokenVars, throttleVars, cpOrderVars, watchdogVars,
                      listenerVars, cacheVars, readVars, lifespanVars,
                      topicVars, paperVars, orderViewVars,
                      whatIfVars, wsVars>>
    \/ part = "caches" /\ CachesNext
       /\ UNCHANGED <<part, quoteVars, tokenVars, throttleVars, cpOrderVars, watchdogVars,
                      listenerVars, requestVars, readVars, lifespanVars,
                      topicVars, paperVars, orderViewVars,
                      whatIfVars, wsVars>>
    \/ part = "reads" /\ ReadsNext
       /\ UNCHANGED <<part, quoteVars, tokenVars, throttleVars, cpOrderVars, watchdogVars,
                      listenerVars, requestVars, cacheVars, lifespanVars,
                      topicVars, paperVars, orderViewVars,
                      whatIfVars, wsVars>>
    \/ part = "lifespan" /\ LifespanNext
       /\ UNCHANGED <<part, quoteVars, tokenVars, throttleVars, cpOrderVars, watchdogVars,
                      listenerVars, requestVars, cacheVars, readVars,
                      topicVars, paperVars, orderViewVars,
                      whatIfVars, wsVars>>
    \/ part = "topics" /\ TopicsNext
       /\ UNCHANGED <<part, quoteVars, tokenVars, throttleVars, cpOrderVars, watchdogVars,
                      listenerVars, requestVars, cacheVars, readVars,
                      lifespanVars, paperVars, orderViewVars,
                      whatIfVars, wsVars>>
    \/ part = "paper" /\ PaperNext
       /\ UNCHANGED <<part, quoteVars, tokenVars, throttleVars, cpOrderVars, watchdogVars,
                      listenerVars, requestVars, cacheVars, readVars,
                      lifespanVars, topicVars, orderViewVars,
                      whatIfVars, wsVars>>
    \/ part = "views" /\ OrderViewsNext
       /\ UNCHANGED <<part, quoteVars, tokenVars, throttleVars, cpOrderVars, watchdogVars,
                      listenerVars, requestVars, cacheVars, readVars,
                      lifespanVars, topicVars, paperVars, whatIfVars,
                      wsVars>>
    \/ part = "whatif" /\ WhatIfNext
       /\ UNCHANGED <<part, quoteVars, tokenVars, throttleVars, cpOrderVars, watchdogVars,
                      listenerVars, requestVars, cacheVars, readVars,
                      lifespanVars, topicVars, paperVars,
                      orderViewVars, wsVars>>
    \/ part = "ws" /\ WsNext
       /\ UNCHANGED <<part, quoteVars, tokenVars, throttleVars, cpOrderVars, watchdogVars,
                      listenerVars, requestVars, cacheVars, readVars,
                      lifespanVars, topicVars, paperVars,
                      orderViewVars, whatIfVars>>

allVars == <<part, quoteVars, tokenVars, throttleVars, cpOrderVars, watchdogVars,
             listenerVars, requestVars, cacheVars, readVars, lifespanVars,
             topicVars, paperVars, orderViewVars, whatIfVars, wsVars>>

MCSpec == MCInit /\ [][MCNext]_allVars

\* The types of all parts.
ServicesTypeOK ==
    /\ part \in ServiceParts
    /\ QuotesTypeOK /\ TokensTypeOK /\ ThrottleTypeOK /\ CPOrdersTypeOK
    /\ WatchdogTypeOK /\ ListenerTypeOK /\ RequestsTypeOK /\ CachesTypeOK
    /\ ReadsTypeOK /\ LifespanTypeOK /\ TopicsTypeOK /\ PaperTypeOK
    /\ OrderViewsTypeOK /\ WhatIfTypeOK /\ WsTypeOK
=============================================================================
