------------------------------ MODULE Startup ------------------------------
(***************************************************************************)
(* The life of a controller process up to its working state (cmd/main.go,  *)
(* metrics.go, informers.go, tlsutil.go): main checks its flags, registers *)
(* the collectors with empty stores and starts the manager. The manager    *)
(* serves /metrics at once; the stores behind the collectors are filled in *)
(* later, by a goroutine that runs only in the leader and publishes them   *)
(* in two steps while scrapes read them. The vmstats poller waits for them *)
(* in a goroutine of its own.                                              *)
(***************************************************************************)
EXTENDS Naturals, Sequences

CONSTANTS
    MetricsOf,   \* MetricsOf[c]: the metrics of collector c
    Configs      \* the flags and environment a process may be started with

Collectors == {"VM", "VMI", "Migration", "VMStats"}

(* SetupInformers' order. *)
Order == <<"VM", "VMI", "PVC", "Instancetype", "ClusterInstancetype", "Preference",
           "ClusterPreference", "ControllerRevision", "VMIMigration", "Pod">>
Kinds == {Order[i] : i \in 1..Len(Order)}

(* What the two published structs hold.                                    *)
Stores   == Kinds \ {"VMIMigration"}
Indexers == {"VMIMigration", "Pod"}

(* Flags. A list flag is a raw string that may be empty and the names      *)
(* found in it; "tls12", "tls13" and "unknown" stand for cipher names Go   *)
(* knows up to TLS 1.2, knows for TLS 1.3, and does not know.              *)
Lists(names) == [given : BOOLEAN, names : SUBSET names]
TLSVersions == {"VersionTLS10", "VersionTLS11", "VersionTLS12", "VersionTLS13"}
TLSFlags == [profile : {"", "Old", "Intermediate", "Modern", "Custom", "other"},
             minVersion : TLSVersions \cup {"", "other"},
             ciphers : Lists({"tls12", "tls13", "unknown"}),
             groups  : Lists({"known", "unknown"})]

(* No metric of the VMStats collector is one of another collector: the     *)
(* registry would refuse it.                                               *)
ASSUME StartupAssumption ==
    /\ DOMAIN MetricsOf = Collectors
    /\ \A c \in Collectors \ {"VMStats"} : MetricsOf[c] \cap MetricsOf["VMStats"] = {}
    /\ \A c \in Configs :
          /\ c.tls \in TLSFlags
          /\ c.vmstats \in {"off", "nocert", "on"}
          /\ {c.all, c.env} \subseteq BOOLEAN
          /\ c.denied \subseteq Kinds

VARIABLES
    config,      \* flags and environment of this process
    main,        \* what main does next
    tlsConfig,   \* what the metrics server was configured with
    registered,  \* metrics of the registered collectors
    mgr,         \* how far the manager has started
    cancelled,   \* the manager is stopping
    synced,      \* informers that have listed their kind
    setup,       \* SetupInformers
    current,     \* index in Order of the informer SetupInformers asks for
    storesRef, indexersRef,  \* the atomic pointers: "nil", "empty" or "full"
    poller,      \* the runnable of setupVMStats: "off", "wait", or the stores it
                 \* polls with
    scrape,      \* each collector of the running scrape
    denied       \* kinds the service account may not list

mainVars   == <<config, main, tlsConfig, registered>>
setupVars  == <<synced, setup, current>>
refVars    == <<storesRef, indexersRef>>
vars == <<mainVars, mgr, cancelled, setupVars, refVars, poller, scrape, denied>>

-----------------------------------------------------------------------------
(* main.go: flags that need a profile are refused without one. *)
FlagsRefused(t) == t.profile = "" /\ (t.minVersion # "" \/ t.ciphers.given)

(* Fault: cipher names nobody knows are dropped silently. *)
CiphersDropped(names) == FALSE

(* openSSLCiphersToIDs: an error unless some name resolves, or there is    *)
(* nothing to resolve besides TLS 1.3 names.                               *)
CiphersRefused(names) == names \cap {"tls12", "tls13"} = {} /\ ~(names \subseteq {"tls13"})

(* TLSSecurityProfileToTLSConfig: when it fails, and what it sets.         *)
ProfileRefused(t) ==
    \/ t.profile = "other"
    \/ /\ t.profile \in {"Old", "Intermediate", "Modern"}
       /\ t.minVersion # "" \/ t.ciphers.given \/ t.groups.given
    \/ /\ t.profile = "Custom"
       /\ \/ t.minVersion \in {"", "other"}
          \/ t.ciphers.names = {} /\ t.minVersion # "VersionTLS13"
          \/ CiphersRefused(t.ciphers.names)
          \/ "known" \notin t.groups.names

ProfileConfig(t) ==
    [minVersion |-> t.minVersion,
     suites     |-> t.ciphers.names \cap {"tls12", "tls13"},
     curves     |-> t.groups.names \cap {"known"}]

GoDefaults == [minVersion |-> "", suites |-> {}, curves |-> {}]

(* Fault: a collector with an allowed metric is kept whole. *)
KeptWhole(c) == IF config.all \/ MetricsOf[c] \cap config.names # {}
                  THEN MetricsOf[c] ELSE {}

(* filterCollector, filterVMStatsCollector: without a kept metric the      *)
(* collector is not registered.                                            *)
filterCollector(c) == IF config.all THEN MetricsOf[c] ELSE MetricsOf[c] \cap config.names

-----------------------------------------------------------------------------
Init ==
    /\ config \in Configs
    /\ main = "flags"
    /\ tlsConfig = GoDefaults
    /\ registered = {}
    /\ mgr = "off"
    /\ cancelled = FALSE
    /\ synced = {}
    /\ setup = "off"
    /\ current = 1
    /\ storesRef = "nil"
    /\ indexersRef = "nil"
    /\ poller = "off"
    /\ scrape = [c \in Collectors |-> "idle"]
    /\ denied = config.denied

Main(from, to) == main = from /\ main' = to

(* os.Exit(1) on any error before the manager runs: refused flags, no      *)
(* certificate, no API server, no namespace, a failed registration.        *)
Fail ==
    /\ main \in {"flags", "metrics", "manager", "env", "vmstats"}
    /\ main' = "exited"
    /\ UNCHANGED <<config, tlsConfig, registered, mgr, cancelled, setupVars, refVars,
                   poller, scrape, denied>>

CheckFlags ==
    /\ Main("flags", "metrics")
    /\ ~FlagsRefused(config.tls)
    /\ ~ProfileRefused(config.tls)
    /\ tlsConfig' = IF config.tls.profile = "Custom" THEN ProfileConfig(config.tls)
                                                     ELSE GoDefaults
    /\ UNCHANGED <<config, registered, mgr, cancelled, setupVars, refVars, poller, scrape, denied>>

(* SetupMetrics(nil, nil, allowlist), before any scrape can happen. *)
SetupMetrics ==
    /\ Main("metrics", "manager")
    /\ storesRef' = "empty"
    /\ indexersRef' = "empty"
    /\ registered' = UNION {filterCollector(c) : c \in {"VM", "VMI", "Migration"}}
    /\ UNCHANGED <<config, tlsConfig, mgr, cancelled, setupVars, poller, scrape, denied>>

NewManager ==
    /\ Main("manager", "env")
    /\ UNCHANGED <<config, tlsConfig, registered, mgr, cancelled, setupVars, refVars,
                   poller, scrape, denied>>

AddControllers ==
    /\ Main("env", "vmstats")
    /\ config.env
    /\ UNCHANGED <<config, tlsConfig, registered, mgr, cancelled, setupVars, refVars,
                   poller, scrape, denied>>

SetupVMStats ==
    /\ Main("vmstats", "running")
    /\ config.vmstats # "nocert"
    /\ registered' = IF config.vmstats = "on" THEN registered \cup filterCollector("VMStats")
                                              ELSE registered
    /\ mgr' = "http"
    /\ UNCHANGED <<config, tlsConfig, cancelled, setupVars, refVars, poller, scrape, denied>>

-----------------------------------------------------------------------------
(* mgr.Start: the HTTP servers are up; the caches of the controllers sync; *)
(* leader election, if enabled, is won; the remaining runnables start.     *)
CachesSynced ==
    /\ main = "running" /\ ~cancelled
    /\ mgr = "http"
    /\ mgr' = "electing"
    /\ UNCHANGED <<mainVars, cancelled, setupVars, refVars, poller, scrape, denied>>

Elected ==
    /\ main = "running" /\ ~cancelled
    /\ mgr = "electing"
    /\ mgr' = "leading"
    /\ setup' = "informer"
    /\ poller' = IF config.vmstats = "on" THEN "wait" ELSE "off"
    /\ UNCHANGED <<mainVars, cancelled, synced, current, refVars, scrape, denied>>

(* A signal, or the lease is lost. *)
Cancel ==
    /\ main = "running" /\ ~cancelled
    /\ cancelled' = TRUE
    /\ UNCHANGED <<mainVars, mgr, setupVars, refVars, poller, scrape, denied>>

(* The manager has stopped its runnables, or no longer waits for them. *)
Exit ==
    /\ Main("running", "exited")
    /\ cancelled
    /\ UNCHANGED <<config, tlsConfig, registered, mgr, cancelled, setupVars, refVars,
                   poller, scrape, denied>>

-----------------------------------------------------------------------------
Awaited == Order[current]

(* An informer created by GetInformer lists its kind. One that may not     *)
(* tries again and again, while GetInformer waits for it.                  *)
Sync ==
    /\ main = "running"
    /\ setup = "informer"
    /\ Awaited \notin synced
    /\ Awaited \notin denied
    /\ synced' = synced \cup {Awaited}
    /\ UNCHANGED <<mainVars, mgr, cancelled, setup, current, refVars, poller, scrape, denied>>

(* The permissions of the service account are completed. *)
Grant ==
    /\ denied # {}
    /\ denied' = {}
    /\ UNCHANGED <<mainVars, mgr, cancelled, setupVars, refVars, poller, scrape>>

(* Fault: GetInformer does not block until its informer has synced. *)
InformerForUnsynced ==
    /\ main = "running"
    /\ setup = "informer"
    /\ IF current = Len(Order) THEN setup' = "stores" /\ UNCHANGED current
                               ELSE current' = current + 1 /\ UNCHANGED setup
    /\ UNCHANGED <<mainVars, mgr, cancelled, synced, refVars, poller, scrape, denied>>

(* Fault: one informer too many. *)
InformerForOverrun ==
    /\ main = "running"
    /\ setup = "informer"
    /\ Awaited \in synced
    /\ IF current > Len(Order) THEN setup' = "stores" /\ UNCHANGED current
                               ELSE current' = current + 1 /\ UNCHANGED setup
    /\ UNCHANGED <<mainVars, mgr, cancelled, synced, refVars, poller, scrape, denied>>

(* informerFor returns a synced informer, and SetupInformers asks for the  *)
(* next one; the index of the migrations is added on the way.              *)
InformerFor ==
    /\ main = "running"
    /\ setup = "informer"
    /\ Awaited \in synced
    /\ IF current = Len(Order) THEN setup' = "stores" /\ UNCHANGED current
                               ELSE current' = current + 1 /\ UNCHANGED setup
    /\ UNCHANGED <<mainVars, mgr, cancelled, synced, refVars, poller, scrape, denied>>

(* Fault: the error of SetupInformers is only logged. *)
InformerFailsQuietly ==
    /\ main = "running"
    /\ setup = "informer"
    /\ setup' = "failed"
    /\ UNCHANGED <<mainVars, mgr, cancelled, synced, current, refVars, poller, scrape, denied>>

(* The kind is not installed, or the context is done: the error of this    *)
(* runnable stops the manager.                                             *)
InformerFails ==
    /\ main = "running"
    /\ setup = "informer"
    /\ setup' = "failed"
    /\ cancelled' = TRUE
    /\ UNCHANGED <<mainVars, mgr, synced, current, refVars, poller, scrape, denied>>

(* SetStores: two atomic stores, one after the other. *)
PublishStores ==
    /\ main = "running"
    /\ setup = "stores"
    /\ setup' = "indexers"
    /\ storesRef' = "full"
    /\ UNCHANGED <<mainVars, mgr, cancelled, synced, current, indexersRef, poller, scrape, denied>>

(* Fault: the indexers are not published. *)
PublishStoresOnly ==
    /\ main = "running"
    /\ setup = "indexers"
    /\ setup' = "done"
    /\ UNCHANGED <<mainVars, mgr, cancelled, synced, current, refVars, poller, scrape, denied>>

PublishIndexers ==
    /\ main = "running"
    /\ setup = "indexers"
    /\ setup' = "done"
    /\ indexersRef' = "full"
    /\ UNCHANGED <<mainVars, mgr, cancelled, synced, current, storesRef, poller, scrape, denied>>

-----------------------------------------------------------------------------
(* Fault: the wait ends when the pointer is set, whatever it points to. *)
PollerStartsEarly ==
    /\ main = "running"
    /\ poller = "wait"
    /\ storesRef # "nil"
    /\ poller' = storesRef
    /\ UNCHANGED <<mainVars, mgr, cancelled, setupVars, refVars, scrape, denied>>

(* The runnable of setupVMStats: it looks every second whether the stores  *)
(* it needs are there. A poller made with a nil store would skip every     *)
(* poll.                                                                   *)
PollerStarts ==
    /\ main = "running"
    /\ poller = "wait"
    /\ storesRef = "full"
    /\ poller' = storesRef
    /\ UNCHANGED <<mainVars, mgr, cancelled, setupVars, refVars, scrape, denied>>

PollerStops ==
    /\ main = "running"
    /\ cancelled
    /\ poller # "off"
    /\ poller' = "off"
    /\ UNCHANGED <<mainVars, mgr, cancelled, setupVars, refVars, scrape, denied>>

-----------------------------------------------------------------------------
Serving == main = "running" /\ mgr # "off"

(* A collector's callback loads a pointer, returns without a sample when   *)
(* there is no store behind it, and otherwise lists it.                    *)
ListObjects(c) ==
    /\ Serving
    /\ scrape[c] = "idle"
    /\ filterCollector(c) # {}
    /\ (IF c = "Migration" THEN indexersRef ELSE storesRef) = "full"
    /\ scrape' = [scrape EXCEPT ![c] = "listed"]
    /\ UNCHANGED <<mainVars, mgr, cancelled, setupVars, refVars, poller, denied>>

(* For every object it listed the VM and the VMI collector load the        *)
(* pointers again: stores for names and sizes, indexers for pods and       *)
(* migrations.                                                             *)
LookUp(c) ==
    /\ Serving
    /\ scrape[c] = "listed"
    /\ scrape' = [scrape EXCEPT ![c] = IF c = "VMI" /\ indexersRef # "full"
                                         THEN "partial" ELSE "complete"]
    /\ UNCHANGED <<mainVars, mgr, cancelled, setupVars, refVars, poller, denied>>

EndScrape(c) ==
    /\ scrape[c] \in {"partial", "complete"}
    /\ scrape' = [scrape EXCEPT ![c] = "idle"]
    /\ UNCHANGED <<mainVars, mgr, cancelled, setupVars, refVars, poller, denied>>

Boot == Fail \/ CheckFlags \/ SetupMetrics \/ NewManager \/ AddControllers \/ SetupVMStats

Manager == CachesSynced \/ Elected \/ Cancel \/ Exit

SetupInformers == \/ Sync \/ Grant \/ InformerFor \/ InformerFails
                  \/ PublishStores \/ PublishIndexers

VMStatsRunnable == PollerStarts \/ PollerStops

Scrape == \E c \in {"VM", "VMI", "Migration"} : ListObjects(c) \/ LookUp(c) \/ EndScrape(c)

Next == Boot \/ Manager \/ SetupInformers \/ VMStatsRunnable \/ Scrape

Spec == Init /\ [][Next]_vars

(* Goroutines that can run do run, the API server answers the list of      *)
(* every installed kind that may be listed, and a stopping manager ends.   *)
Fairness ==
    /\ WF_vars(Exit)
    /\ WF_vars(Sync)
    /\ WF_vars(InformerFor)
    /\ WF_vars(PublishStores)
    /\ WF_vars(PublishIndexers)
    /\ WF_vars(PollerStarts)

FairSpec == Spec /\ Fairness

-----------------------------------------------------------------------------
(* Type invariant of the process. *)
TypeOK ==
    /\ config \in Configs
    /\ main \in {"flags", "metrics", "manager", "env", "vmstats", "running", "exited"}
    /\ registered \subseteq UNION {MetricsOf[c] : c \in Collectors}
    /\ mgr \in {"off", "http", "electing", "leading"}
    /\ cancelled \in BOOLEAN
    /\ synced \subseteq Kinds
    /\ setup \in {"off", "informer", "stores", "indexers", "done", "failed"}
    /\ current \in 1..Len(Order)
    /\ {storesRef, indexersRef} \subseteq {"nil", "empty", "full"}
    /\ poller \in {"off", "wait", "full"}
    /\ scrape \in [Collectors -> {"idle", "listed", "partial", "complete"}]
    /\ denied \subseteq Kinds

(* A scrape never reports from an informer that has not listed its kind,   *)
(* which would make existing VMs vanish from the metrics: whatever is      *)
(* published has synced, and what a callback found published when it       *)
(* listed is still there when it loads the pointer again for its lookups.  *)
ScrapesReadSynced ==
    /\ storesRef = "full" => Stores \subseteq synced
    /\ indexersRef = "full" => Indexers \subseteq synced
    /\ scrape["VM"] = "listed" \/ scrape["VMI"] = "listed" => storesRef = "full"

(* --metrics-allowlist: only allowed metrics are registered, over both     *)
(* places that register collectors, and all of them.                       *)
AllowlistExact ==
    main = "running" =>
        registered = {m \in UNION {MetricsOf[c] : c \in Collectors} :
                         /\ config.all \/ m \in config.names
                         /\ config.vmstats = "on" \/ m \notin MetricsOf["VMStats"]}

(* A Custom profile that is served restricts what it was meant to: a list  *)
(* of ciphers or groups nobody knows stops the process and never falls     *)
(* back to Go's defaults, which is what an empty list means to crypto/tls. *)
NoSilentDefaults ==
    main = "running" /\ config.tls.profile = "Custom" =>
        /\ tlsConfig.minVersion \in TLSVersions \cap {config.tls.minVersion}
        /\ tlsConfig.curves # {}
        /\ tlsConfig.suites # {} \/ config.tls.ciphers.names = {}
        /\ tlsConfig.suites # {} \/ tlsConfig.minVersion = "VersionTLS13"

(* SetStores publishes in two steps: a scrape in between lists VMIs without *)
(* their pods and migrations. Once SetupInformers has returned no lookup    *)
(* misses them any more.                                                    *)
CompleteOncePublished ==
    [][setup = "done" /\ scrape["VMI"] = "listed" => scrape'["VMI"] # "partial"]_vars

(* A kind that is not installed does not leave a process behind that       *)
(* serves empty metrics: it ends, to be started again.                     *)
FailureExits == setup = "failed" ~> main = "exited"

(* The leader ends up with everything published and, with --enable-vmstats, *)
(* a poller that has its stores, or it stops. A kind it may not list holds  *)
(* it up, without an error, for as long as the permission is missing, and   *)
(* no longer: no restart is needed.                                         *)
BecomesReady ==
    <>[](denied = {}) =>
        (mgr = "leading" ~> \/ /\ storesRef = "full" /\ indexersRef = "full"
                               /\ config.vmstats = "on" => poller = "full"
                            \/ cancelled)
=============================================================================
