------------------------------- MODULE Discovery -------------------------------
(***************************************************************************)
(* The list of speakers of the desktop app (desktop-app/app_discovery.go,  *)
(* uninstall_str.go and discoverBoxes of frontend/src/main.js).  A scan    *)
(* (DiscoverBoxes) gathers sightings for seconds, merges them into what    *)
(* the app remembers, and drops the second tile of a speaker that moved;   *)
(* a refresh (RefreshKnownBoxes) probes only what is remembered.  Three    *)
(* memories keep a speaker from being taken for one without STR: a cache   *)
(* by address, pins for an update, and the identity of devices.            *)
(***************************************************************************)
EXTENDS Naturals, FiniteSets

CONSTANTS Devices,       \* speakers
          Hosts,         \* their addresses, numbers (the order of the strings)
          Scans,         \* full scans that may be under way at once
          Races,         \* FALSE: one scan, refresh or uninstall at a time, and no uninstall soon after
                         \* an update or of a speaker that is remembered at two addresses
          Reuse,         \* TRUE: an address may be leased to another speaker
          MaxEvents      \* bound on what happens to the speakers

ASSUME DiscoveryAssumption == Hosts \subseteq Nat \ {0} /\ "?" \notin Devices /\ {Races, Reuse} \subseteq BOOLEAN /\ MaxEvents \in Nat

VARIABLES
  net,          \* per speaker: its address or Nowhere, what it runs, whether its agent answers
  had,          \* the leases there have been: an address with a speaker
  echoes,       \* announcements of STR that are still about, of a speaker that has left the address
  cache,        \* discCache: per address a tile and how long its speaker has been missed
  pins,         \* otaPinned, the addresses whose pin is fresh
  known,        \* strKnown: per device the address of its record, or Nowhere
  list,         \* what the app shows
  scans,        \* per scan where it is, what it has found, what it will show
  refresh,      \* the same of the refresh
  removing,     \* the address UninstallSTR is working on, or Nowhere
  forgotten,    \* the devices uninstalled in the app that have not got STR since
  events

discVars == <<net, had, echoes, cache, pins, known, list, scans, refresh, removing, forgotten, events>>

Nowhere == 0
NoTile == [kind |-> "none", id |-> "?"]
Str(id) == [kind |-> "str", id |-> id]
Stock(id) == [kind |-> "stock", id |-> id]
Present(t) == t.kind # "none"
TileOf(e) == [kind |-> e.kind, id |-> e.id]
NoEntry == [kind |-> "none", id |-> "?", miss |-> "none"]
Nothing == [h \in Hosts |-> NoTile]
Resting == [pc |-> "idle", found |-> Nothing, shown |-> Nothing]

DiscInit ==
  /\ net \in [Devices -> [at : Hosts, sw : {"str", "stock"}, agent : BOOLEAN]]
  /\ \A d, e \in Devices : d # e => net[d].at # net[e].at
  /\ \A d \in Devices : net[d].agent = (net[d].sw = "str")
  /\ had = {<<net[d].at, d>> : d \in Devices}
  /\ echoes = {} /\ cache = [h \in Hosts |-> NoEntry] /\ pins = {} /\ known = [d \in Devices |-> Nowhere]
  /\ list = Nothing /\ scans = [s \in Scans |-> Resting]
  /\ refresh = [pc |-> "idle", seen |-> Nothing, presence |-> {}, offline |-> {}]
  /\ removing = Nowhere /\ forgotten = {} /\ events = 0

-----------------------------------------------------------------------------
(***************************************************************************)
(* mergeDiscoveryCacheWith.                                                *)
(***************************************************************************)
\* mergeBoxInfo: an agent once seen outranks a stock sighting; an identity is kept.
MergeBoxInfo(prev, cur) ==
  [kind |-> IF prev.kind = "str" THEN "str" ELSE cur.kind, id |-> IF cur.id = "?" THEN prev.id ELSE cur.id]

\* Seen this time, merged with the record of the address.
Fresh(seen) == [h \in Hosts |-> IF Present(seen[h]) THEN MergeBoxInfo(cache[h], seen[h]) ELSE NoTile]

\* Missed this time: not the old address of a speaker seen elsewhere, and not silent for a day.
Moved(h, fresh) == cache[h].id # "?" /\ \E g \in Hosts : fresh[g].id = cache[h].id
Kept(h, fresh) == ~Present(fresh[h]) /\ Present(cache[h]) /\ ~Moved(h, fresh) /\ cache[h].miss # "gone"

\* An address under an update is STR whatever it says, and even when it says nothing.
Pinned(seen) ==
  LET fresh == Fresh(seen)
      shown == [h \in Hosts |-> IF Kept(h, fresh) THEN TileOf(cache[h]) ELSE fresh[h]]
  IN  [h \in Hosts |-> IF h \in pins THEN Str(shown[h].id) ELSE shown[h]]

\* The memory of identities is refreshed by every tile of the list but those of presence only.
Confirmed(shown, presence, d) == {h \in Hosts \ presence : shown[h] = Str(d)}
Remember(shown, presence) ==
  [d \in Devices |-> IF Confirmed(shown, presence, d) # {} THEN CHOOSE h \in Confirmed(shown, presence, d) : TRUE ELSE known[d]]

\* A stock sighting of a device known as STR is relabelled.
Relabelled(shown, memory) == {h \in Hosts : shown[h].kind = "stock" /\ shown[h].id # "?" /\ memory[shown[h].id] # Nowhere}

Merged(seen, presence) ==
  LET fresh  == Fresh(seen)
      shown  == Pinned(seen)
      memory == Remember(shown, presence)
      again  == Relabelled(shown, memory)
      out    == [h \in Hosts |-> IF h \in again THEN Str(shown[h].id) ELSE shown[h]]
      miss(h) == IF Present(fresh[h]) \/ h \in pins \cup again \/ ~Present(out[h]) THEN "none"
                 ELSE IF cache[h].miss = "none" THEN "missed" ELSE cache[h].miss
  IN  [out |-> out,
       cache |-> [h \in Hosts |-> [kind |-> out[h].kind, id |-> out[h].id, miss |-> miss(h)]],
       known |-> [d \in Devices |-> IF \E h \in again : shown[h].id = d
                                    THEN CHOOSE h \in again : shown[h].id = d ELSE memory[d]]]

-----------------------------------------------------------------------------
(***************************************************************************)
(* Scans and refreshes.                                                    *)
(***************************************************************************)
Busy == removing # Nowhere \/ refresh.pc # "idle" \/ \E s \in Scans : scans[s].pc # "idle"
MayStart == Races \/ ~Busy
At(h) == {d \in Devices : net[d].at = h}
Agents(h) == {d \in At(h) : net[d].agent}

\* What the phases of a scan may have found at an address, mDNS without an identity included.
Sightings(h) ==
  {NoTile} \cup {Stock(i) : i \in At(h) \cup IF At(h) = {} THEN {} ELSE {"?"}}
           \cup {Str(i) : i \in Agents(h) \cup IF Agents(h) = {} THEN {} ELSE {"?"}}
           \cup {Str(d) : d \in {e \in Devices : <<h, e>> \in echoes}}

ScanFinds(s, found) ==
  /\ scans[s].pc = "idle" /\ MayStart /\ \A h \in Hosts : found[h] \in Sightings(h)
  /\ scans' = [scans EXCEPT ![s] = [pc |-> "found", found |-> found, shown |-> Nothing]]
  /\ UNCHANGED <<net, had, echoes, cache, pins, known, list, refresh, removing, forgotten, events>>
Tiles == {NoTile} \cup {[kind |-> k, id |-> i] : k \in {"str", "stock"}, i \in Devices \cup {"?"}}
Scan(s) == \E found \in [Hosts -> Tiles] : ScanFinds(s, found)

MergeScan(s) ==
  /\ scans[s].pc = "found"
  /\ LET m == Merged(scans[s].found, {})
     IN  cache' = m.cache /\ known' = m.known /\ scans' = [scans EXCEPT ![s].pc = "merged", ![s].shown = m.out]
  /\ UNCHANGED <<net, had, echoes, pins, list, refresh, removing, forgotten, events>>

\* dedupeByDeviceID and pickLiveBoxKey: of two addresses of one device the one that answers stays.
Score_NoProbe(h, shown) == IF shown[h].kind = "str" THEN 1 ELSE 0
Score(h, shown) == (IF At(h) # {} THEN 2 ELSE 0) + (IF shown[h].kind = "str" THEN 1 ELSE 0)
Beats(h, g, shown) == Score(h, shown) > Score(g, shown) \/ (Score(h, shown) = Score(g, shown) /\ h < g)
Twins(h, shown) == {g \in Hosts \ {h} : shown[h].id # "?" /\ shown[g].id = shown[h].id}
Losers(shown) == {h \in Hosts : \E g \in Twins(h, shown) : Beats(g, h, shown)}
Dedupe(s) ==
  /\ scans[s].pc = "merged"
  /\ LET shown == scans[s].shown  gone == Losers(shown)
     IN  /\ list' = [h \in Hosts |-> IF h \in gone THEN NoTile ELSE shown[h]]
         /\ cache' = [h \in Hosts |-> IF h \in gone THEN NoEntry ELSE cache[h]]
  /\ scans' = [scans EXCEPT ![s] = Resting]
  /\ UNCHANGED <<net, had, echoes, pins, known, refresh, removing, forgotten, events>>

\* classifyKnownBox: the agent answered; only the stock port did, which is presence; nothing did.
RefreshProbes ==
  /\ refresh.pc = "idle" /\ MayStart /\ \E h \in Hosts : Present(cache[h])
  /\ LET cached == {h \in Hosts : Present(cache[h])}
     IN  \E stock \in SUBSET {h \in cached : At(h) # {}} :
         \E agent \in SUBSET {h \in cached \ stock : Agents(h) # {}} :
         \E nameless \in SUBSET agent :
           refresh' = [pc |-> "probed", presence |-> stock, offline |-> cached \ (stock \cup agent),
                       seen |-> [h \in Hosts |-> IF h \in agent
                                                 THEN Str(IF h \in nameless THEN "?" ELSE CHOOSE d \in Agents(h) : TRUE)
                                                 ELSE IF h \in cached THEN TileOf(cache[h]) ELSE NoTile]]
  /\ UNCHANGED <<net, had, echoes, cache, pins, known, list, scans, removing, forgotten, events>>
MergeRefresh ==
  /\ refresh.pc = "probed"
  /\ LET live == [h \in Hosts |-> IF h \in refresh.offline THEN NoTile ELSE refresh.seen[h]]
         m    == Merged(live, refresh.presence)
     IN  /\ cache' = m.cache /\ known' = m.known
         /\ list' = [h \in Hosts |-> IF ~Present(m.out[h]) /\ h \in refresh.offline THEN refresh.seen[h] ELSE m.out[h]]
  /\ refresh' = [pc |-> "idle", seen |-> Nothing, presence |-> {}, offline |-> {}]
  /\ UNCHANGED <<net, had, echoes, pins, scans, removing, forgotten, events>>

\* AddBoxByIP: the record replaces what was cached.
AddByIP(h) ==
  /\ MayStart
  /\ \E t \in Sightings(h) \ ({NoTile} \cup {Str(d) : d \in Devices \ Agents(h)} \cup {Stock("?")}) :
       cache' = [cache EXCEPT ![h] = [kind |-> t.kind, id |-> t.id, miss |-> "none"]]
  /\ UNCHANGED <<net, had, echoes, pins, known, list, scans, refresh, removing, forgotten, events>>

-----------------------------------------------------------------------------
(***************************************************************************)
(* What the app does to a speaker.                                         *)
(***************************************************************************)
Happens == events < MaxEvents /\ events' = events + 1

\* notePostOTA, and the reboot of the update.
Update(d) ==
  /\ Happens /\ net[d].agent /\ pins' = pins \cup {net[d].at} /\ net' = [net EXCEPT ![d].agent = FALSE]
  /\ UNCHANGED <<had, echoes, cache, known, list, scans, refresh, removing, forgotten>>

\* Another address still tells of the speaker.
Elsewhere(d) ==
  \/ \E h \in Hosts \ {net[d].at} :
       \/ <<h, d>> \in had /\ (Present(cache[h]) \/ h \in pins)
       \/ known[d] = h /\ cache[net[d].at].id # d
  \/ \E e \in echoes : e[2] = d
\* UninstallSTR: the script, then forgetSTRDeviceByHost and the reboot.
Uninstall(d) ==
  /\ Happens /\ net[d].sw = "str" /\ net[d].at # Nowhere /\ list[net[d].at].kind = "str" /\ removing = Nowhere
  /\ Races \/ ~(Busy \/ net[d].at \in pins \/ Elsewhere(d))
  /\ net' = [net EXCEPT ![d].sw = "stock", ![d].agent = FALSE]
  /\ removing' = net[d].at /\ forgotten' = forgotten \cup {d}
  /\ UNCHANGED <<had, echoes, cache, pins, known, list, scans, refresh>>
Forget_CacheOnly ==
  /\ removing # Nowhere /\ removing' = Nowhere /\ cache' = [cache EXCEPT ![removing] = NoEntry]
  /\ UNCHANGED <<net, had, echoes, pins, known, list, scans, refresh, forgotten, events>>
Forget ==
  /\ removing # Nowhere /\ removing' = Nowhere
  /\ known' = [d \in Devices |-> IF cache[removing].id = d \/ known[d] = removing THEN Nowhere ELSE known[d]]
  /\ cache' = [cache EXCEPT ![removing] = NoEntry]
  /\ UNCHANGED <<net, had, echoes, pins, list, scans, refresh, forgotten, events>>

-----------------------------------------------------------------------------
(***************************************************************************)
(* The speakers, the network and the clock.                                *)
(***************************************************************************)
\* A new lease, at once or after a while off; its old announcement may stay about.
Free(h, d) == At(h) = {} /\ (Reuse \/ \A e \in Devices : <<h, e>> \in had => e = d)
Moves(d, h) ==
  /\ Happens /\ h # net[d].at /\ (h # Nowhere => Free(h, d)) /\ net' = [net EXCEPT ![d].at = h, ![d].agent = FALSE]
  /\ had' = (IF h = Nowhere THEN had ELSE had \cup {<<h, d>>})
  /\ echoes' \in {echoes, echoes \cup IF net[d].agent THEN {<<net[d].at, d>>} ELSE {}}
  /\ UNCHANGED <<cache, pins, known, list, scans, refresh, removing, forgotten>>
\* STR removed by other means, or its flash wiped.
Reverts(d) ==
  /\ Happens /\ net[d].sw = "str" /\ net[d].at # Nowhere /\ net' = [net EXCEPT ![d].sw = "stock", ![d].agent = FALSE]
  /\ UNCHANGED <<had, echoes, cache, pins, known, list, scans, refresh, removing, forgotten>>
Installed(d) ==
  /\ Happens /\ net[d].sw = "stock" /\ net[d].at # Nowhere /\ net' = [net EXCEPT ![d].sw = "str"] /\ forgotten' = forgotten \ {d}
  /\ UNCHANGED <<had, echoes, cache, pins, known, list, scans, refresh, removing>>
\* The stock port answers before the agent does.
AgentUp(d) ==
  /\ net[d].sw = "str" /\ ~net[d].agent /\ net[d].at # Nowhere /\ net' = [net EXCEPT ![d].agent = TRUE]
  /\ UNCHANGED <<had, echoes, cache, pins, known, list, scans, refresh, removing, forgotten, events>>
EchoEnds(e) ==
  /\ e \in echoes /\ echoes' = echoes \ {e}
  /\ UNCHANGED <<net, had, cache, pins, known, list, scans, refresh, removing, forgotten, events>>

\* The day a tile stays offline, a pin, the memory of an identity.
MissAges(h) ==
  /\ cache[h].miss = "missed" /\ cache' = [cache EXCEPT ![h].miss = "gone"]
  /\ UNCHANGED <<net, had, echoes, pins, known, list, scans, refresh, removing, forgotten, events>>
PinEnds(h) ==
  /\ h \in pins /\ pins' = pins \ {h}
  /\ UNCHANGED <<net, had, echoes, cache, known, list, scans, refresh, removing, forgotten, events>>
MemoryEnds(d) ==
  /\ known[d] # Nowhere /\ known' = [known EXCEPT ![d] = Nowhere]
  /\ UNCHANGED <<net, had, echoes, cache, pins, list, scans, refresh, removing, forgotten, events>>

DiscNext ==
  \/ \E s \in Scans : Scan(s) \/ MergeScan(s) \/ Dedupe(s)
  \/ RefreshProbes \/ MergeRefresh \/ Forget
  \/ \E h \in Hosts : AddByIP(h) \/ MissAges(h) \/ PinEnds(h)
  \/ \E d \in Devices : Update(d) \/ Uninstall(d) \/ Reverts(d) \/ Installed(d) \/ AgentUp(d) \/ MemoryEnds(d)
  \/ \E d \in Devices, h \in Hosts \cup {Nowhere} : Moves(d, h)
  \/ \E e \in echoes : EchoEnds(e)

DiscSpec == DiscInit /\ [][DiscNext]_discVars

-----------------------------------------------------------------------------
(* Properties. *)

\* app_discovery.go:71 "An in-app uninstall clears the entry immediately": nothing the app remembers
\* makes a speaker STR that has been rid of it, wherever it was when, and wherever it goes.
Forgotten ==
  removing = Nowhere =>
    \A d \in forgotten : known[d] = Nowhere /\ \A h \in Hosts : cache[h].id = d => cache[h].kind = "stock"

\* app_discovery.go:53 "a speaker once sighted must not vanish from the list": an address is dropped
\* only after a day of silence, by an uninstall, or for another address of the same speaker.
SightedStays ==
  \A h \in Hosts : Present(cache[h]) /\ ~Present(cache'[h]) =>
    \/ cache[h].miss = "gone" \/ removing = h
    \/ cache[h].id # "?" /\ \E g \in Hosts : cache'[g].id = cache[h].id

\* Whatever is remembered, pinned and still announced, a scan that found every speaker shows each one
\* once, at the address where it is, and as STR when its agent answers (app_discovery.go:430, 583).
FoundAll(found) ==
  /\ \A d \in Devices : net[d].at # Nowhere => found[net[d].at].id = d /\ (net[d].agent => found[net[d].at].kind = "str")
  /\ \A h \in Hosts : At(h) = {} => found[h] # Str("?") /\ found[h] # Stock("?")
ScanShowsAll ==
  \A s \in Scans : scans[s].pc = "merged" /\ scans'[s].pc = "idle" /\ FoundAll(scans[s].found) =>
    \A d \in Devices : net[d].at # Nowhere =>
      /\ \A h \in Hosts : list'[h].id = d <=> h = net[d].at
      /\ net[d].agent => list'[net[d].at].kind = "str"

\* Both, of every step: the list keeps what was sighted, and shows what a scan found (app_discovery.go:53, 583).
ListKept == [][SightedStays /\ ScanShowsAll]_discVars

\* app_discovery.go:70 "a box genuinely reverted to stock ... eventually reclassifies": a speaker that
\* has lost STR is listed as one without it in the end, if scans that find it are made again and again.
ScanFindsAll(s) == Scan(s) /\ FoundAll(scans'[s].found)
ScansGoOn ==
  /\ \A s \in Scans : SF_discVars(ScanFindsAll(s)) /\ WF_discVars(MergeScan(s)) /\ WF_discVars(Dedupe(s))
  /\ WF_discVars(MergeRefresh) /\ WF_discVars(Forget)
  /\ \A d \in Devices : WF_discVars(MemoryEnds(d)) /\ WF_discVars(AgentUp(d))
  /\ \A h \in Hosts : WF_discVars(PinEnds(h))
RevertedReclassifies ==
  \A d \in Devices, h \in Hosts :
    <>[](net[d].at = h /\ net[d].sw = "stock") => <>(list[h] = Stock(d))
=============================================================================
