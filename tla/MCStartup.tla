----------------------------- MODULE MCStartup -----------------------------
(* Instances of Startup for TLC. *)
EXTENDS Startup

MCMetricsOf == [VM |-> {"vm_info", "vm_labels"}, VMI |-> {"vmi_info"},
                Migration |-> {"migrations"}, VMStats |-> {"cpu", "memory"}]

NoFlag  == [given |-> FALSE, names |-> {}]
NoTLS   == [profile |-> "", minVersion |-> "", ciphers |-> NoFlag, groups |-> NoFlag]
Old     == [NoTLS EXCEPT !.profile = "Old"]

(* A list flag that is not given has no names. *)
Sensible(t) == /\ ~t.ciphers.given => t.ciphers.names = {}
               /\ ~t.groups.given => t.groups.names = {}

(* Every combination of TLS flags, in a process without vmstats. *)
MCFlagConfigs == {[tls |-> t, vmstats |-> "off", all |-> FALSE, names |-> {}, env |-> TRUE,
                   denied |-> {}]
                     : t \in {f \in TLSFlags : Sensible(f)}}

(* Every allowlist that tells the collectors apart, with and without       *)
(* vmstats and its certificate, and a kind that may not be listed.         *)
MCRunConfigs == {[tls |-> t, vmstats |-> v, all |-> a, names |-> n, env |-> e, denied |-> d]
                    : t \in {NoTLS, Old}, v \in {"off", "nocert", "on"}, a \in BOOLEAN,
                      n \in {{}, {"vm_info", "cpu", "unknown"}, {"vmi_info", "migrations"}},
                      e \in BOOLEAN, d \in {{}, {"Pod"}}}

MCConfigs == MCFlagConfigs \cup MCRunConfigs
=============================================================================
