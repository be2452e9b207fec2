---------------------------- MODULE LiveDiscovery ----------------------------
(***************************************************************************)
(* The watcher's live sources when the app owns the mDNS port: the         *)
(* zeroconf subscription (output/mdns_zeroconf.py), whose browser thread   *)
(* posts to the event loop and whose services are resolved by a task per   *)
(* event, the SSDP listener for DLNA renderers, and the watcher they feed, *)
(* from its start to its stop (output/watcher.py).                         *)
(*                                                                         *)
(* An mDNS device is registered under the address it was resolved to; its  *)
(* service name leads to the key it was last registered under.             *)
(***************************************************************************)
EXTENDS Integers, Sequences, FiniteSets

LOCAL INSTANCE SequencesExt

CONSTANTS Names, Addresses, None,
          Renderer,  \* the DLNA renderer's key
          MaxMoves,  \* arrivals, departures and renumberings
          MaxMisses, \* resolves that time out, lost datagrams, failed descriptions
          MaxSweeps

VARIABLES net,       \* [name -> its address on the network, or None]
          cached,    \* [name -> the address its records last told]
          renderer,  \* whether the renderer is on the network
          posted,    \* events the browser thread posted to the loop
          resolving, \* resolve tasks, by name
          datagrams, \* SSDP announcements on their way
          describing,\* a description of the renderer is being fetched
          sub,       \* the subscription: "none", "live" or "off"
          phase,     \* the watcher: "new", "up", "draining" or "down"
          reg,       \* [key -> "none", "online" or "offline"]
          names,     \* _name_index: [name -> key or None]
          timers,    \* grace timers
          debounce,  \* the broadcast timer runs
          missed,    \* names and keys an event of which was missed
          spent      \* what the bounds count
liveVars == <<net, cached, renderer, posted, resolving, datagrams, describing, sub,
              phase, reg, names, timers, debounce, missed, spent>>

Keys == (Names \X Addresses) \cup {Renderer}
LiveInit ==
    /\ net \in [Names -> Addresses \cup {None}]
    /\ cached = net /\ renderer \in BOOLEAN
    /\ posted = <<>> /\ resolving = <<>> /\ datagrams = {} /\ describing = FALSE
    /\ sub = "none" /\ phase = "new"
    /\ reg = [k \in Keys |-> "none"] /\ names = [n \in Names |-> None]
    /\ timers = {} /\ debounce = FALSE /\ missed = {}
    /\ spent = [moves |-> 0, misses |-> 0, sweeps |-> 0]

Spends(k, max) == spent[k] < max /\ spent' = [spent EXCEPT ![k] = @ + 1]
Up == phase = "up"
\* The watcher's half of the state, and what the sources leave alone.
Kept == UNCHANGED <<reg, names, timers, debounce>>
Sources == <<net, cached, renderer, posted, resolving, datagrams, describing, sub, phase>>

(***************************************************************************)
(* The network.                                                            *)
(***************************************************************************)
Post(n, kind) == posted' = IF sub = "live" THEN Append(posted, [name |-> n, kind |-> kind]) ELSE posted
Announces(n, a) ==
    /\ net[n] # a /\ Spends("moves", MaxMoves)
    /\ net' = [net EXCEPT ![n] = a]
    /\ cached' = IF a = None THEN cached ELSE [cached EXCEPT ![n] = a]
    /\ Post(n, IF a = None THEN "gone" ELSE "new")
    /\ UNCHANGED <<renderer, resolving, datagrams, describing, sub, phase, missed>> /\ Kept
RendererMoves ==
    /\ Spends("moves", MaxMoves) /\ renderer' = ~renderer
    /\ datagrams' = datagrams \cup {IF renderer THEN "byebye" ELSE "alive"}
    /\ UNCHANGED <<net, cached, posted, resolving, describing, sub, phase, missed>> /\ Kept
DatagramLost(d) ==
    /\ d \in datagrams /\ Spends("misses", MaxMisses)
    /\ datagrams' = datagrams \ {d} /\ missed' = missed \cup {Renderer}
    /\ UNCHANGED <<net, cached, renderer, posted, resolving, describing, sub, phase>> /\ Kept

(***************************************************************************)
(* Start and stop.                                                         *)
(***************************************************************************)
\* A browser started on a network reports every service it finds.
Starts ==
    /\ phase = "new" /\ phase' = "up" /\ sub' = "live"
    /\ posted' = LET found == SetToSeq({n \in Names : net[n] # None})
                 IN  [i \in DOMAIN found |-> [name |-> found[i], kind |-> "new"]]
    /\ UNCHANGED <<net, cached, renderer, resolving, datagrams, describing, missed, spent>> /\ Kept
StartsDegraded ==
    /\ phase = "new" /\ phase' = "up"
    /\ missed' = missed \cup Names
    /\ UNCHANGED <<net, cached, renderer, posted, resolving, datagrams, describing, sub, spent>> /\ Kept
\* Timers and tasks go at once, the subscriptions after the tasks have ended.
Stops ==
    /\ Up /\ phase' = "draining"
    /\ timers' = {} /\ debounce' = FALSE /\ describing' = FALSE
    /\ UNCHANGED <<net, cached, renderer, posted, resolving, datagrams, sub, reg, names, missed, spent>>
Unsubscribes ==
    /\ phase = "draining" /\ phase' = "down"
    /\ sub' = "off" /\ resolving' = <<>>
    /\ UNCHANGED <<net, cached, renderer, posted, datagrams, describing, missed, spent>> /\ Kept

(***************************************************************************)
(* The watcher's handlers: silent once it is stopped.                      *)
(***************************************************************************)
Arrives(k) ==
    /\ reg' = [reg EXCEPT ![k] = "online"]
    /\ timers' = timers \ {k}
    /\ debounce' = (debounce \/ reg[k] # "online")
StartsGrace(k) ==
    /\ timers' = IF reg[k] = "online" THEN timers \cup {k} ELSE timers
    /\ UNCHANGED <<reg, debounce>>
Ignored == UNCHANGED <<reg, timers, debounce>>
OnNew(n, a) ==
    IF ~Up THEN Ignored /\ UNCHANGED names
    ELSE Arrives(<<n, a>>) /\ names' = [names EXCEPT ![n] = <<n, a>>]
OnRemove(n) ==
    IF Up /\ names[n] # None THEN StartsGrace(names[n]) ELSE Ignored

(***************************************************************************)
(* The subscription.                                                       *)
(***************************************************************************)
\* A subscription that asks once for a name, like the one-shot discover().
DispatchOnce ==
    /\ posted # <<>> /\ posted' = Tail(posted)
    /\ LET e == Head(posted) IN
       IF sub # "live" THEN Ignored /\ UNCHANGED resolving
       ELSE IF e.kind = "gone" THEN OnRemove(e.name) /\ UNCHANGED resolving
       ELSE /\ Ignored
            /\ resolving' = IF names[e.name] # None THEN resolving ELSE Append(resolving, e.name)
    /\ UNCHANGED <<net, cached, renderer, datagrams, describing, sub, phase, names, missed, spent>>
Dispatch ==
    /\ posted # <<>> /\ posted' = Tail(posted)
    /\ LET e == Head(posted) IN
       IF sub # "live" THEN Ignored /\ UNCHANGED resolving
       ELSE IF e.kind = "gone" THEN OnRemove(e.name) /\ UNCHANGED resolving
       ELSE Ignored /\ resolving' = Append(resolving, e.name)
    /\ UNCHANGED <<net, cached, renderer, datagrams, describing, sub, phase, names, missed, spent>>
\* The records of a service that is gone may still be in the cache.
Resolves(i) ==
    /\ i \in DOMAIN resolving /\ cached[resolving[i]] # None
    /\ resolving' = RemoveAt(resolving, i)
    /\ OnNew(resolving[i], cached[resolving[i]])
    /\ UNCHANGED <<net, cached, renderer, posted, datagrams, describing, sub, phase, missed, spent>>
ResolveFails(i) ==
    /\ i \in DOMAIN resolving
    /\ IF net[resolving[i]] = None THEN UNCHANGED <<missed, spent>>
       ELSE Spends("misses", MaxMisses) /\ missed' = missed \cup {resolving[i]}
    /\ resolving' = RemoveAt(resolving, i)
    /\ UNCHANGED <<net, cached, renderer, posted, datagrams, describing, sub, phase>> /\ Kept

(***************************************************************************)
(* The SSDP listener, and the sweep that backs it.                         *)
(***************************************************************************)
ListensLate == TRUE
Listens == Up
Packet(d) ==
    /\ d \in datagrams /\ datagrams' = datagrams \ {d}
    /\ IF ~Listens THEN Ignored /\ UNCHANGED describing
       ELSE IF d = "byebye" THEN StartsGrace(Renderer) /\ UNCHANGED describing
       ELSE IF reg[Renderer] # "none" THEN Arrives(Renderer) /\ UNCHANGED describing
       ELSE Ignored /\ describing' = TRUE
    /\ UNCHANGED <<net, cached, renderer, posted, resolving, sub, phase, names, missed, spent>>
Described ==
    /\ describing /\ describing' = FALSE
    /\ Arrives(Renderer)
    /\ UNCHANGED <<net, cached, renderer, posted, resolving, datagrams, sub, phase, names, missed, spent>>
DescribeFails ==
    /\ describing /\ describing' = FALSE
    /\ IF renderer THEN Spends("misses", MaxMisses) /\ missed' = missed \cup {Renderer}
       ELSE UNCHANGED <<missed, spent>>
    /\ UNCHANGED <<net, cached, renderer, posted, resolving, datagrams, sub, phase>> /\ Kept
Sweeps ==
    /\ Up /\ Spends("sweeps", MaxSweeps)
    /\ IF renderer THEN Arrives(Renderer) ELSE StartsGrace(Renderer)
    /\ UNCHANGED <<names, missed>> /\ UNCHANGED Sources
GraceExpires(k) ==
    /\ k \in timers /\ timers' = timers \ {k}
    /\ reg' = [reg EXCEPT ![k] = "offline"] /\ debounce' = TRUE
    /\ UNCHANGED <<names, missed, spent>> /\ UNCHANGED Sources
DebounceFires ==
    /\ debounce /\ debounce' = FALSE
    /\ UNCHANGED <<reg, names, timers, missed, spent>> /\ UNCHANGED Sources

LiveNext ==
    \/ \E n \in Names : \E a \in Addresses \cup {None} : Announces(n, a)
    \/ RendererMoves \/ \E d \in datagrams : DatagramLost(d) \/ Packet(d)
    \/ Starts \/ StartsDegraded \/ Stops \/ Unsubscribes
    \/ Dispatch \/ \E i \in DOMAIN resolving : Resolves(i) \/ ResolveFails(i)
    \/ Described \/ DescribeFails \/ Sweeps
    \/ \E k \in timers : GraceExpires(k)
    \/ DebounceFires

LiveSpec == LiveInit /\ [][LiveNext]_liveVars
\* The loop runs what is posted, resolves and descriptions end, timers fire.
LiveWorks ==
    \/ Starts \/ Dispatch \/ Described \/ DescribeFails
    \/ \E i \in DOMAIN resolving : Resolves(i) \/ ResolveFails(i)
    \/ \E d \in datagrams : Packet(d)
    \/ \E k \in timers : GraceExpires(k)
LiveFair == WF_liveVars(LiveWorks)
LiveFairSpec == LiveSpec /\ LiveFair

-----------------------------------------------------------------------------
\* The state is well typed.
LiveTypeOK ==
    /\ \A i \in DOMAIN resolving : resolving[i] \in Names
    /\ datagrams \subseteq {"alive", "byebye"} /\ describing \in BOOLEAN
    /\ sub \in {"none", "live", "off"} /\ phase \in {"new", "up", "draining", "down"}
    /\ reg \in [Keys -> {"none", "online", "offline"}]
    /\ names \in [Names -> Keys \cup {None}]
    /\ timers \subseteq Keys /\ debounce \in BOOLEAN

\* From the moment the watcher is stopped, no late event, resolve, datagram or
\* description touches the registry or leaves a timer behind.
StopIsQuietStep ==
    (phase \in {"draining", "down"}) => UNCHANGED <<reg, names, timers>>
StopIsQuiet == [][StopIsQuietStep]_liveVars

\* A device that stays at its address is shown online there, however its
\* events and resolves overlap, unless one of them was missed.
StayersUp == Up => \A n \in Names \ missed : net[n] # None => reg[<<n, net[n]>>] = "online"
StayerShown == []<>StayersUp

=============================================================================
