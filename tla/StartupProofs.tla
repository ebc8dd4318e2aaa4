--------------------------- MODULE StartupProofs ---------------------------
(***************************************************************************)
(* Proofs about start-up for any flags, allowlists and permissions: the    *)
(* safety properties of Startup follow from the inductive invariant IInv.  *)
(***************************************************************************)
EXTENDS Startup, TLAPS

Booting == main \in {"flags", "metrics", "manager", "env", "vmstats"}

(* Nothing the manager starts has begun before the manager runs, and       *)
(* SetupInformers not before the process leads.                            *)
QuietBoot ==
    /\ Booting => mgr = "off" /\ \A c \in Collectors : scrape[c] = "idle"
    /\ mgr # "leading" => setup = "off"

(* SetupInformers has waited for every informer it has gone past. *)
WaitedFor ==
    /\ \A i \in 1..Len(Order) : i < current => Order[i] \in synced
    /\ setup \in {"stores", "indexers", "done"} => Kinds \subseteq synced

(* The pointers say how far SetStores has come. *)
RefsOK ==
    /\ storesRef = "full" <=> setup \in {"indexers", "done"}
    /\ indexersRef = "full" <=> setup = "done"

(* A collector that has listed still finds the stores it has listed. *)
ListedOK == \A c \in {"VM", "VMI"} : scrape[c] = "listed" => storesRef = "full"

ObjectMetrics == UNION {filterCollector(c) : c \in {"VM", "VMI", "Migration"}}

(* What is registered after each step of main. *)
RegisteredOK ==
    /\ main \in {"flags", "metrics"} => registered = {}
    /\ main \in {"manager", "env", "vmstats"} => registered = ObjectMetrics
    /\ main = "running" =>
          registered = ObjectMetrics \cup (IF config.vmstats = "on" THEN filterCollector("VMStats")
                                                                    ELSE {})

(* From CheckFlags on a Custom profile is one that was not refused. *)
ProfileOK ==
    main \in {"metrics", "manager", "env", "vmstats", "running"} /\ config.tls.profile = "Custom" =>
        tlsConfig = ProfileConfig(config.tls) /\ ~ProfileRefused(config.tls)

IInv == /\ TypeOK
        /\ QuietBoot
        /\ WaitedFor
        /\ RefsOK
        /\ ListedOK
        /\ RegisteredOK
        /\ ProfileOK

-----------------------------------------------------------------------------
LEMMA OrderFacts ==
    /\ Len(Order) = 10
    /\ \A i \in 1..Len(Order) : Order[i] \in Kinds
    /\ Stores \subseteq Kinds
    /\ Indexers \subseteq Kinds
<1>1. Len(Order) = 10
  BY DEF Order
<1>2. \A i \in 1..Len(Order) : Order[i] \in Kinds
  BY DEF Kinds
<1>3. Order[9] = "VMIMigration" /\ Order[10] = "Pod"
  BY DEF Order
<1> QED
  BY <1>1, <1>2, <1>3 DEF Stores, Indexers

(* The variables main sets, and nothing else about them matters to the     *)
(* manager's goroutines.                                                   *)
LEMMA MainPartsKept ==
    ASSUME IInv, UNCHANGED mainVars
    PROVE  RegisteredOK' /\ ProfileOK'
BY DEF IInv, mainVars, RegisteredOK, ProfileOK, ObjectMetrics, filterCollector

LEMMA InitIInv == Init => IInv
<1> SUFFICES ASSUME Init PROVE IInv
  OBVIOUS
<1>1. TypeOK
  <2>1. config \in Configs /\ denied \subseteq Kinds
    BY StartupAssumption DEF Init
  <2>2. current \in 1..Len(Order)
    BY OrderFacts DEF Init
  <2> QED
    BY <2>1, <2>2 DEF Init, TypeOK
<1>2. QuietBoot /\ ListedOK /\ RefsOK /\ RegisteredOK /\ ProfileOK
  BY DEF Init, QuietBoot, ListedOK, RefsOK, RegisteredOK, ProfileOK, Collectors
<1>3. WaitedFor
  BY OrderFacts DEF Init, WaitedFor
<1> QED
  BY <1>1, <1>2, <1>3 DEF IInv

(* main up to mgr.Start. *)
LEMMA BootKeeps == IInv /\ Boot => IInv'
<1> SUFFICES ASSUME IInv, Boot PROVE IInv'
  OBVIOUS
<1> USE DEF IInv
<1>1. CASE Fail
  <2>1. TypeOK'
    BY <1>1 DEF Fail, TypeOK, setupVars, refVars
  <2>2. QuietBoot' /\ WaitedFor' /\ RefsOK' /\ ListedOK'
    BY <1>1 DEF Fail, QuietBoot, Booting, WaitedFor, RefsOK, ListedOK, setupVars, refVars
  <2> QED
    BY <1>1, <2>1, <2>2 DEF Fail, RegisteredOK, ProfileOK
<1>2. CASE CheckFlags
  <2>1. TypeOK'
    BY <1>2 DEF CheckFlags, Main, TypeOK, setupVars, refVars
  <2>2. QuietBoot' /\ WaitedFor' /\ RefsOK' /\ ListedOK'
    BY <1>2 DEF CheckFlags, Main, QuietBoot, Booting, WaitedFor, RefsOK, ListedOK, setupVars, refVars
  <2>3. RegisteredOK'
    BY <1>2 DEF CheckFlags, Main, RegisteredOK
  <2>4. ProfileOK'
    BY <1>2 DEF CheckFlags, Main, ProfileOK
  <2> QED
    BY <2>1, <2>2, <2>3, <2>4
<1>3. CASE SetupMetrics
  <2>1. registered' = ObjectMetrics /\ ObjectMetrics' = ObjectMetrics
    BY <1>3 DEF SetupMetrics, ObjectMetrics, filterCollector
  <2>2. ObjectMetrics \subseteq UNION {MetricsOf[c] : c \in Collectors}
    BY DEF ObjectMetrics, filterCollector, Collectors
  <2>3. TypeOK'
    BY <1>3, <2>1, <2>2 DEF SetupMetrics, Main, TypeOK, setupVars
  <2>4. QuietBoot' /\ WaitedFor' /\ RefsOK' /\ ListedOK'
    BY <1>3 DEF SetupMetrics, Main, QuietBoot, Booting, WaitedFor, RefsOK, ListedOK, setupVars, Collectors
  <2>5. RegisteredOK'
    BY <1>3, <2>1 DEF SetupMetrics, Main, RegisteredOK
  <2>6. ProfileOK'
    BY <1>3 DEF SetupMetrics, Main, ProfileOK
  <2> QED
    BY <2>3, <2>4, <2>5, <2>6
<1>4. CASE NewManager \/ AddControllers
  <2>1. TypeOK'
    BY <1>4 DEF NewManager, AddControllers, Main, TypeOK, setupVars, refVars
  <2>2. QuietBoot' /\ WaitedFor' /\ RefsOK' /\ ListedOK'
    BY <1>4 DEF NewManager, AddControllers, Main, QuietBoot, Booting, WaitedFor, RefsOK, ListedOK,
                setupVars, refVars
  <2>3. ObjectMetrics' = ObjectMetrics
    BY <1>4 DEF NewManager, AddControllers, ObjectMetrics, filterCollector
  <2>4. RegisteredOK' /\ ProfileOK'
    BY <1>4, <2>3 DEF NewManager, AddControllers, Main, RegisteredOK, ProfileOK
  <2> QED
    BY <2>1, <2>2, <2>4
<1>5. CASE SetupVMStats
  <2>1. ObjectMetrics' = ObjectMetrics /\ filterCollector("VMStats")' = filterCollector("VMStats")
    BY <1>5 DEF SetupVMStats, ObjectMetrics, filterCollector
  <2>2. filterCollector("VMStats") \subseteq UNION {MetricsOf[c] : c \in Collectors}
    BY DEF filterCollector, Collectors
  <2>3. TypeOK'
    BY <1>5, <2>2 DEF SetupVMStats, Main, TypeOK, setupVars, refVars
  <2>4. QuietBoot' /\ WaitedFor' /\ RefsOK' /\ ListedOK'
    BY <1>5 DEF SetupVMStats, Main, QuietBoot, Booting, WaitedFor, RefsOK, ListedOK, setupVars, refVars
  <2>5. RegisteredOK'
    BY <1>5, <2>1 DEF SetupVMStats, Main, RegisteredOK
  <2>6. ProfileOK'
    BY <1>5 DEF SetupVMStats, Main, ProfileOK
  <2> QED
    BY <2>3, <2>4, <2>5, <2>6
<1> QED
  BY <1>1, <1>2, <1>3, <1>4, <1>5 DEF Boot

(* The manager and the poller of vmstats touch neither informers nor       *)
(* pointers.                                                               *)
LEMMA ManagerKeeps == IInv /\ (Manager \/ VMStatsRunnable) => IInv'
<1> SUFFICES ASSUME IInv, Manager \/ VMStatsRunnable PROVE IInv'
  OBVIOUS
<1> USE DEF IInv
<1>1. CASE CachesSynced \/ Cancel \/ VMStatsRunnable
  <2>1. UNCHANGED <<mainVars, setupVars, refVars, scrape, denied>>
    BY <1>1 DEF CachesSynced, Cancel, VMStatsRunnable, PollerStarts, PollerStops
  <2>2. TypeOK'
    BY <1>1, <2>1 DEF CachesSynced, Cancel, VMStatsRunnable, PollerStarts, PollerStops, TypeOK, mainVars,
                      setupVars, refVars
  <2>3. QuietBoot' /\ WaitedFor' /\ RefsOK' /\ ListedOK'
    <3>1. WaitedFor' /\ RefsOK' /\ ListedOK'
      BY <2>1 DEF WaitedFor, RefsOK, ListedOK, setupVars, refVars
    <3>2. Booting' => Booting /\ mgr' = mgr
      BY <1>1, <2>1 DEF Booting, CachesSynced, Cancel, VMStatsRunnable, PollerStarts, PollerStops, mainVars
    <3>3. mgr' # "leading" => mgr # "leading"
      BY <1>1 DEF CachesSynced, Cancel, VMStatsRunnable, PollerStarts, PollerStops
    <3> QED
      BY <2>1, <3>1, <3>2, <3>3 DEF QuietBoot, setupVars
  <2> QED
    BY <2>1, <2>2, <2>3, MainPartsKept
<1>2. CASE Elected
  <2>1. TypeOK'
    BY <1>2 DEF Elected, TypeOK, mainVars, refVars
  <2>2. QuietBoot' /\ WaitedFor' /\ RefsOK' /\ ListedOK'
    BY <1>2 DEF Elected, QuietBoot, Booting, WaitedFor, RefsOK, ListedOK, mainVars, refVars
  <2> QED
    BY <1>2, <2>1, <2>2, MainPartsKept DEF Elected
<1>3. CASE Exit
  <2>1. TypeOK'
    BY <1>3 DEF Exit, Main, TypeOK, setupVars, refVars
  <2>2. QuietBoot' /\ WaitedFor' /\ RefsOK' /\ ListedOK'
    BY <1>3 DEF Exit, Main, QuietBoot, Booting, WaitedFor, RefsOK, ListedOK, setupVars, refVars
  <2> QED
    BY <1>3, <2>1, <2>2 DEF Exit, Main, RegisteredOK, ProfileOK
<1> QED
  BY <1>1, <1>2, <1>3 DEF Manager

(* SetupInformers: what it publishes, it has waited for. *)
LEMMA SetupKeeps == IInv /\ SetupInformers => IInv'
<1> SUFFICES ASSUME IInv, SetupInformers PROVE IInv'
  OBVIOUS
<1> USE DEF IInv
<1>1. UNCHANGED <<mainVars, mgr, poller, scrape>>
  BY DEF SetupInformers, Sync, Grant, InformerFor, InformerFails, PublishStores, PublishIndexers
<1>2. RegisteredOK' /\ ProfileOK'
  BY <1>1, MainPartsKept
<1>3. CASE Sync
  <2>1. Awaited \in Kinds
    BY OrderFacts DEF Awaited, TypeOK
  <2>2. TypeOK'
    BY <1>3, <2>1 DEF Sync, TypeOK, mainVars, refVars
  <2>3. QuietBoot' /\ WaitedFor' /\ RefsOK' /\ ListedOK'
    BY <1>3 DEF Sync, QuietBoot, Booting, WaitedFor, RefsOK, ListedOK, mainVars, refVars
  <2> QED
    BY <1>2, <2>2, <2>3
<1>4. CASE Grant
  <2>1. TypeOK'
    BY <1>4 DEF Grant, TypeOK, mainVars, setupVars, refVars
  <2>2. QuietBoot' /\ WaitedFor' /\ RefsOK' /\ ListedOK'
    BY <1>4 DEF Grant, QuietBoot, Booting, WaitedFor, RefsOK, ListedOK, mainVars, setupVars, refVars
  <2> QED
    BY <1>2, <2>1, <2>2
<1>5. CASE InformerFor
  <2>1. TypeOK'
    BY <1>5, OrderFacts DEF InformerFor, TypeOK, mainVars, refVars
  <2>2. QuietBoot' /\ RefsOK' /\ ListedOK'
    BY <1>5 DEF InformerFor, QuietBoot, Booting, RefsOK, ListedOK, mainVars, refVars, TypeOK
  <2>3. \A i \in 1..Len(Order) : i <= current => Order[i] \in synced
    BY <1>5, OrderFacts DEF InformerFor, Awaited, WaitedFor, TypeOK
  <2>4. CASE current = Len(Order)
    <3>1. Kinds \subseteq synced
      BY <2>3, <2>4 DEF Kinds
    <3> QED
      BY <1>2, <1>5, <2>1, <2>2, <2>4, <3>1 DEF InformerFor, WaitedFor
  <2>5. CASE current # Len(Order)
    <3>1. WaitedFor'
      BY <1>5, <2>3, <2>5, OrderFacts DEF InformerFor, WaitedFor, TypeOK
    <3> QED
      BY <1>2, <2>1, <2>2, <3>1
  <2> QED
    BY <2>4, <2>5
<1>6. CASE InformerFails
  <2>1. TypeOK'
    BY <1>6 DEF InformerFails, TypeOK, mainVars, refVars
  <2>2. QuietBoot' /\ WaitedFor' /\ RefsOK' /\ ListedOK'
    BY <1>6 DEF InformerFails, QuietBoot, Booting, WaitedFor, RefsOK, ListedOK, mainVars, refVars
  <2> QED
    BY <1>2, <2>1, <2>2
<1>7. CASE PublishStores \/ PublishIndexers
  <2>1. TypeOK'
    BY <1>7 DEF PublishStores, PublishIndexers, TypeOK, mainVars
  <2>2. QuietBoot' /\ WaitedFor' /\ RefsOK' /\ ListedOK'
    BY <1>7 DEF PublishStores, PublishIndexers, QuietBoot, Booting, WaitedFor, RefsOK, ListedOK, mainVars
  <2> QED
    BY <1>2, <2>1, <2>2
<1> QED
  BY <1>3, <1>4, <1>5, <1>6, <1>7 DEF SetupInformers

(* A scrape only reads. *)
LEMMA ScrapeKeeps == IInv /\ Scrape => IInv'
<1> SUFFICES ASSUME IInv, NEW c \in {"VM", "VMI", "Migration"},
                    ListObjects(c) \/ LookUp(c) \/ EndScrape(c)
             PROVE  IInv'
  BY DEF Scrape
<1> USE DEF IInv
<1>1. UNCHANGED <<mainVars, mgr, cancelled, setupVars, refVars, poller, denied>>
  BY DEF ListObjects, LookUp, EndScrape
<1>2. TypeOK'
  BY <1>1 DEF ListObjects, LookUp, EndScrape, TypeOK, Collectors, mainVars, setupVars, refVars
<1>3. RegisteredOK' /\ ProfileOK' /\ WaitedFor' /\ RefsOK'
  BY <1>1, MainPartsKept DEF WaitedFor, RefsOK, setupVars, refVars
<1>4. scrape[c] = "idle" => ~Booting
  BY DEF ListObjects, LookUp, EndScrape, Serving, Booting, TypeOK
<1>5. QuietBoot'
  BY <1>1, <1>4 DEF QuietBoot, Booting, Collectors, ListObjects, LookUp, EndScrape, Serving, mainVars,
                    setupVars
<1>6. ListedOK'
  BY <1>1 DEF ListedOK, ListObjects, LookUp, EndScrape, TypeOK, Collectors, refVars
<1> QED
  BY <1>2, <1>3, <1>5, <1>6

LEMMA NextKeeps == IInv /\ [Next]_vars => IInv'
<1>1. IInv /\ UNCHANGED vars => IInv'
  <2> SUFFICES ASSUME IInv, UNCHANGED vars PROVE IInv'
    OBVIOUS
  <2>1. TypeOK' /\ QuietBoot' /\ WaitedFor' /\ RefsOK' /\ ListedOK'
    BY DEF vars, mainVars, setupVars, refVars, IInv, TypeOK, QuietBoot, Booting, WaitedFor, RefsOK, ListedOK
  <2> QED
    BY <2>1, MainPartsKept DEF vars, IInv
<1> QED
  BY <1>1, BootKeeps, ManagerKeeps, SetupKeeps, ScrapeKeeps DEF Next

LEMMA Invariant == Spec => []IInv
BY InitIInv, NextKeeps, PTL DEF Spec

-----------------------------------------------------------------------------
(* The variables of a starting process keep their types; in particular     *)
(* SetupInformers never asks for an informer beyond its list.              *)
THEOREM TypeCorrect == Spec => []TypeOK
<1>1. IInv => TypeOK
  BY DEF IInv
<1> QED
  BY <1>1, Invariant, PTL

(* However scrapes, SetupInformers and the two steps of SetStores          *)
(* interleave, a scrape never reads an informer that has not listed.       *)
THEOREM NoUnsyncedScrape == Spec => []ScrapesReadSynced
<1>1. IInv => ScrapesReadSynced
  BY OrderFacts DEF IInv, RefsOK, WaitedFor, ListedOK, ScrapesReadSynced
<1> QED
  BY <1>1, Invariant, PTL

(* For any metrics and any allowlist, a running process has registered the *)
(* allowed metrics and no other.                                           *)
THEOREM AllowlistIsExact == Spec => []AllowlistExact
<1>1. IInv => AllowlistExact
  <2> SUFFICES ASSUME IInv, main = "running"
               PROVE  registered = {m \in UNION {MetricsOf[c] : c \in Collectors} :
                         /\ config.all \/ m \in config.names
                         /\ config.vmstats = "on" \/ m \notin MetricsOf["VMStats"]}
    BY DEF AllowlistExact
  <2> DEFINE Allowed(m) == config.all \/ m \in config.names
  <2>1. \A c \in Collectors : filterCollector(c) = {m \in MetricsOf[c] : Allowed(m)}
    BY DEF filterCollector
  <2>2. \A m : m \in ObjectMetrics <=>
            Allowed(m) /\ m \in MetricsOf["VM"] \cup MetricsOf["VMI"] \cup MetricsOf["Migration"]
    BY <2>1 DEF ObjectMetrics, Collectors
  <2>3. \A m : m \in UNION {MetricsOf[c] : c \in Collectors} <=>
            m \in MetricsOf["VM"] \cup MetricsOf["VMI"] \cup MetricsOf["Migration"] \cup MetricsOf["VMStats"]
    BY DEF Collectors
  <2>4. \A m : m \in MetricsOf["VMStats"] =>
            m \notin MetricsOf["VM"] \cup MetricsOf["VMI"] \cup MetricsOf["Migration"]
    BY StartupAssumption DEF Collectors
  <2>5. registered = ObjectMetrics \cup (IF config.vmstats = "on" THEN filterCollector("VMStats") ELSE {})
    BY DEF IInv, RegisteredOK
  <2>6. \A m : m \in filterCollector("VMStats") <=> Allowed(m) /\ m \in MetricsOf["VMStats"]
    BY <2>1 DEF Collectors
  <2> HIDE DEF Allowed
  <2>7. registered = {m \in UNION {MetricsOf[c] : c \in Collectors} :
                         /\ Allowed(m)
                         /\ config.vmstats = "on" \/ m \notin MetricsOf["VMStats"]}
    BY <2>2, <2>3, <2>4, <2>5, <2>6
  <2> QED
    BY <2>7 DEF Allowed
<1> QED
  BY <1>1, Invariant, PTL

(* For any flags, a process with a Custom profile that runs serves with    *)
(* the restrictions it was given, never with Go's defaults in their place. *)
THEOREM CustomProfileRestricts == Spec => []NoSilentDefaults
<1>1. IInv => NoSilentDefaults
  <2> SUFFICES ASSUME IInv, main = "running", config.tls.profile = "Custom"
               PROVE  /\ tlsConfig.minVersion \in TLSVersions \cap {config.tls.minVersion}
                      /\ tlsConfig.curves # {}
                      /\ tlsConfig.suites # {} \/ config.tls.ciphers.names = {}
                      /\ tlsConfig.suites # {} \/ tlsConfig.minVersion = "VersionTLS13"
    BY DEF NoSilentDefaults
  <2> DEFINE t == config.tls
  <2>1. tlsConfig = ProfileConfig(t) /\ ~ProfileRefused(t)
    BY DEF IInv, ProfileOK
  <2>2. t.minVersion \in TLSVersions \cup {"", "other"}
    BY StartupAssumption DEF IInv, TypeOK, TLSFlags
  <2>3. t.ciphers.names \subseteq {"tls12", "tls13", "unknown"}
    BY StartupAssumption DEF IInv, TypeOK, TLSFlags, Lists
  <2>4. /\ t.minVersion \notin {"", "other"}
        /\ ~CiphersRefused(t.ciphers.names)
        /\ t.ciphers.names = {} => t.minVersion = "VersionTLS13"
        /\ "known" \in t.groups.names
    BY <2>1 DEF ProfileRefused
  <2>5. /\ tlsConfig.minVersion = t.minVersion
        /\ tlsConfig.suites = t.ciphers.names \cap {"tls12", "tls13"}
        /\ tlsConfig.curves = t.groups.names \cap {"known"}
    BY <2>1 DEF ProfileConfig
  <2> HIDE DEF t
  <2>6. t.ciphers.names \cap {"tls12", "tls13"} # {} \/ t.ciphers.names = {}
    BY <2>4 DEF CiphersRefused
  <2>7. /\ tlsConfig.minVersion \in TLSVersions \cap {t.minVersion}
        /\ tlsConfig.curves # {}
        /\ tlsConfig.suites # {} \/ t.ciphers.names = {}
        /\ tlsConfig.suites # {} \/ tlsConfig.minVersion = "VersionTLS13"
    BY <2>2, <2>4, <2>5, <2>6
  <2> QED
    BY <2>7 DEF t
<1> QED
  BY <1>1, Invariant, PTL

(* Once SetupInformers has returned, no scrape misses the pods and         *)
(* migrations of the VMIs it lists.                                        *)
THEOREM ScrapesCompleteOncePublished == Spec => CompleteOncePublished
<1>1. IInv /\ [Next]_vars => [setup = "done" /\ scrape["VMI"] = "listed" => scrape'["VMI"] # "partial"]_vars
  <2> SUFFICES ASSUME IInv, Next, setup = "done", scrape["VMI"] = "listed"
               PROVE  scrape'["VMI"] # "partial"
    OBVIOUS
  <2>1. indexersRef = "full"
    BY DEF IInv, RefsOK
  <2>2. CASE Scrape
    BY <2>1, <2>2 DEF Scrape, ListObjects, LookUp, EndScrape, IInv, TypeOK, Collectors
  <2>3. CASE ~Scrape
    <3>1. scrape' = scrape
      BY <2>3 DEF Next, Boot, Fail, CheckFlags, SetupMetrics, NewManager, AddControllers, SetupVMStats,
                  Manager, CachesSynced, Elected, Cancel, Exit, SetupInformers, Sync, Grant, InformerFor,
                  InformerFails, PublishStores, PublishIndexers, VMStatsRunnable, PollerStarts, PollerStops
    <3> QED
      BY <3>1
  <2> QED
    BY <2>2, <2>3
<1> QED
  BY <1>1, Invariant, PTL DEF Spec, CompleteOncePublished
=============================================================================
