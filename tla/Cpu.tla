---------------------------------- MODULE Cpu ----------------------------------
(***************************************************************************)
(* query_cpu_fingerprint of cpu.cpp: the walk over the CPUID leaves, one   *)
(* action per query.  Nothing pins the querying thread, so on a machine    *)
(* whose cores differ it may be moved between two queries and the answers  *)
(* come from different cores.  A raw record therefore names the core that  *)
(* answered; what its registers hold is machine[core].                     *)
(*                                                                         *)
(* Leaf numbers keep their order and their offsets; the bases 0x40000000   *)
(* and 0x80000000 are 100 and 200.  Register texts are names and feature   *)
(* masks are sets of bits.                                                 *)
(***************************************************************************)
EXTENDS Integers, Sequences

CONSTANTS Cores,
          MAX_STRUCTURED_FEATURE_SUBLEAF, \* CPUID_MAX_STRUCTURED_FEATURE_SUBLEAF
          XSTATE_BITS,                    \* width of XCR0
          MaxMigrations                   \* moves of the thread that are explored

ASSUME CpuAssumption ==
    /\ MAX_STRUCTURED_FEATURE_SUBLEAF \in Nat \ {0}
    /\ XSTATE_BITS \in Nat \ {0, 1}
    /\ MaxMigrations \in Nat

VENDOR_LEAF              == 0
SIGNATURE_LEAF           == 1
STRUCTURED_FEATURES_LEAF == 7
XSTATE_LEAF              == 13
HYPERVISOR_LEAF          == 100
HYPERVISOR_INTERFACE     == 101
EXTENDED_LIMIT_LEAF      == 200
EXTENDED_FEATURES_LEAF   == 201
BRAND_FIRST_LEAF         == 202
BRAND_LAST_LEAF          == 204
ADDRESS_WIDTH_LEAF       == 208

\* CPUID_FEATURES: one feature of every leaf the table decodes.
CPUID_FEATURES ==
    { [ leaf |-> SIGNATURE_LEAF, subleaf |-> 0, name |-> "sse3" ],
      [ leaf |-> STRUCTURED_FEATURES_LEAF, subleaf |-> 0, name |-> "bmi1" ],
      [ leaf |-> EXTENDED_FEATURES_LEAF, subleaf |-> 0, name |-> "long_mode" ] }

VARIABLES
    machine,     \* what each core answers; never changes
    core,        \* the core the querying thread is on
    migrations,
    at,          \* next query of the walk
    subleaf,     \* the loop counters: a subleaf, or the next leaf of the brand
    fingerprint

cpuvars == <<machine, core, migrations, at, subleaf, fingerprint>>

\* The static of host_cpu_fingerprint before its initializer runs.  An optional
\* is a sequence of at most one value.
NoFingerprint ==
    [ vendor |-> "", signature |-> <<>>, maximum_basic_leaf |-> 0,
      hypervisor_present |-> FALSE, xsave |-> FALSE, osxsave |-> FALSE,
      xcr0_supported |-> <<>>, xss_supported |-> <<>>, xcr0 |-> <<>>,
      hypervisor_vendor |-> "", hypervisor_interface |-> "",
      maximum_extended_leaf |-> 0, brand |-> <<>>, address_width |-> <<>>,
      cpuid_features |-> {}, enabled_xstate |-> {}, raw_cpuid |-> <<>> ]

\* The registers hold numbers and masks, and a mask has XSTATE_BITS bits.
AnswersTyped(m) ==
    \A k \in DOMAIN m :
        /\ m[k].maximum_basic_leaf \in Nat /\ m[k].maximum_subleaf \in Nat
        /\ m[k].maximum_hypervisor_leaf \in Nat /\ m[k].maximum_extended_leaf \in Nat
        /\ m[k].hypervisor_present \in BOOLEAN /\ m[k].osxsave \in BOOLEAN
        /\ m[k].xcr0_supported \subseteq 0 .. XSTATE_BITS - 1
        /\ m[k].xss_supported \subseteq 0 .. XSTATE_BITS - 1

CpuInit(m) ==
    /\ machine = m
    /\ core \in DOMAIN m
    /\ migrations = 0
    /\ at = "unqueried"
    /\ subleaf = 0
    /\ fingerprint = NoFingerprint

\* The scheduler moves the thread while it is querying.
Migrate ==
    /\ at \notin {"unqueried", "ready"}
    /\ migrations < MaxMigrations
    /\ core' \in DOMAIN machine \ {core}
    /\ migrations' = migrations + 1
    /\ UNCHANGED <<machine, at, subleaf, fingerprint>>

-----------------------------------------------------------------------------
(* The walk.                                                               *)

\* append_record of what this core answers.
recorded(leaf, sub) ==
    Append(fingerprint.raw_cpuid, [ leaf |-> leaf, subleaf |-> sub, core |-> core ])

answer == machine[core]

\* The displayed family and model; the two vendors differ in when the extended
\* model counts.
decode_intel_signature(s) ==
    [ family |-> s.family + (IF s.family = 15 THEN s.extended_family ELSE 0),
      model  |-> s.model + (IF s.family \in {6, 15} THEN 16 * s.extended_model ELSE 0) ]
decode_amd_signature(s) ==
    [ family |-> s.family + (IF s.family = 15 THEN s.extended_family ELSE 0),
      model  |-> s.model + (IF s.family = 15 THEN 16 * s.extended_model ELSE 0) ]
decode_signature(vendor, s) ==
    IF vendor \in {"AuthenticAMD", "HygonGenuine"} THEN decode_amd_signature(s)
    ELSE decode_intel_signature(s)

Go(to) ==
    /\ at' = to
    /\ UNCHANGED <<machine, core, migrations>>

query_vendor ==
    /\ at = "vendor"
    /\ fingerprint' = [ fingerprint EXCEPT
           !.raw_cpuid = recorded(VENDOR_LEAF, 0),
           !.vendor = answer.vendor,
           !.maximum_basic_leaf = answer.maximum_basic_leaf ]
    /\ Go("signature")
    /\ UNCHANGED subleaf

query_signature ==
    /\ at = "signature"
    /\ fingerprint' =
           IF fingerprint.maximum_basic_leaf < SIGNATURE_LEAF THEN fingerprint
           ELSE [ fingerprint EXCEPT
                    !.raw_cpuid = recorded(SIGNATURE_LEAF, 0),
                    !.signature = <<decode_signature(fingerprint.vendor, answer.signature)>>,
                    !.hypervisor_present = answer.hypervisor_present,
                    !.xsave = answer.xsave,
                    !.osxsave = answer.osxsave ]
    /\ Go("structured")
    /\ UNCHANGED subleaf

query_structured ==
    /\ at = "structured"
    /\ IF fingerprint.maximum_basic_leaf < STRUCTURED_FEATURES_LEAF
       THEN Go("xstate") /\ UNCHANGED <<subleaf, fingerprint>>
       ELSE /\ fingerprint' = [ fingerprint EXCEPT
                   !.raw_cpuid = recorded(STRUCTURED_FEATURES_LEAF, 0) ]
            /\ subleaf' = 1
            /\ Go("subleaf")

\* The loop's limit is the answer to subleaf 0, from whichever core gave it.
maximum_subleaf ==
    LET r     == CHOOSE x \in { fingerprint.raw_cpuid[i] : i \in DOMAIN fingerprint.raw_cpuid } :
                     x.leaf = STRUCTURED_FEATURES_LEAF /\ x.subleaf = 0
        limit == machine[r.core].maximum_subleaf
    IN  IF limit < MAX_STRUCTURED_FEATURE_SUBLEAF THEN limit ELSE MAX_STRUCTURED_FEATURE_SUBLEAF

query_subleaf ==
    /\ at = "subleaf"
    /\ IF subleaf <= maximum_subleaf
       THEN /\ fingerprint' = [ fingerprint EXCEPT
                   !.raw_cpuid = recorded(STRUCTURED_FEATURES_LEAF, subleaf) ]
            /\ subleaf' = subleaf + 1
            /\ Go("subleaf")
       ELSE Go("xstate") /\ UNCHANGED <<subleaf, fingerprint>>

query_xstate ==
    /\ at = "xstate"
    /\ IF fingerprint.maximum_basic_leaf >= XSTATE_LEAF /\ fingerprint.xsave
       THEN /\ fingerprint' = [ fingerprint EXCEPT
                   !.raw_cpuid = recorded(XSTATE_LEAF, 0),
                   !.xcr0_supported = <<answer.xcr0_supported>> ]
            /\ Go("xss")
       ELSE Go("hypervisor") /\ UNCHANGED fingerprint
    /\ UNCHANGED subleaf

query_xss ==
    /\ at = "xss"
    /\ fingerprint' = [ fingerprint EXCEPT
           !.raw_cpuid = recorded(XSTATE_LEAF, 1),
           !.xss_supported = <<answer.xss_supported>> ]
    /\ subleaf' = 2
    /\ Go("component")

\* The next supported component; the last iteration is followed by XGETBV, which
\* raises #UD where the system has not set OSXSAVE.
query_component ==
    LET left == { bit \in fingerprint.xcr0_supported[1] \cup fingerprint.xss_supported[1] :
                    subleaf <= bit /\ bit < XSTATE_BITS }
    IN  /\ at = "component"
        /\ IF left # {}
           THEN \E bit \in left :
                  /\ \A other \in left : bit <= other
                  /\ fingerprint' = [ fingerprint EXCEPT !.raw_cpuid = recorded(XSTATE_LEAF, bit) ]
                  /\ subleaf' = bit + 1
                  /\ Go("component")
           ELSE Go("xgetbv") /\ UNCHANGED <<subleaf, fingerprint>>

query_xgetbv ==
    /\ at = "xgetbv"
    /\ fingerprint' = IF fingerprint.osxsave
                      THEN [ fingerprint EXCEPT !.xcr0 = <<answer.xcr0>> ] ELSE fingerprint
    /\ Go("hypervisor")
    /\ UNCHANGED subleaf

query_hypervisor ==
    /\ at = "hypervisor"
    /\ IF fingerprint.hypervisor_present
       THEN /\ fingerprint' = [ fingerprint EXCEPT
                   !.raw_cpuid = recorded(HYPERVISOR_LEAF, 0),
                   !.hypervisor_vendor = answer.hypervisor_vendor ]
            /\ Go(IF answer.maximum_hypervisor_leaf >= HYPERVISOR_INTERFACE
                  THEN "interface" ELSE "extended")
       ELSE Go("extended") /\ UNCHANGED fingerprint
    /\ UNCHANGED subleaf

\* Only Hyper-V defines the interface as text.
query_interface ==
    /\ at = "interface"
    /\ fingerprint' = [ fingerprint EXCEPT
           !.raw_cpuid = recorded(HYPERVISOR_INTERFACE, 0),
           !.hypervisor_interface = IF fingerprint.hypervisor_vendor = "Microsoft Hv"
                                    THEN answer.hypervisor_interface ELSE "" ]
    /\ Go("extended")
    /\ UNCHANGED subleaf

query_extended ==
    /\ at = "extended"
    /\ fingerprint' = [ fingerprint EXCEPT
           !.raw_cpuid = recorded(EXTENDED_LIMIT_LEAF, 0),
           !.maximum_extended_leaf = answer.maximum_extended_leaf ]
    /\ Go("features")
    /\ UNCHANGED subleaf

query_features ==
    /\ at = "features"
    /\ fingerprint' =
           IF fingerprint.maximum_extended_leaf >= EXTENDED_FEATURES_LEAF
           THEN [ fingerprint EXCEPT !.raw_cpuid = recorded(EXTENDED_FEATURES_LEAF, 0) ]
           ELSE fingerprint
    /\ subleaf' = BRAND_FIRST_LEAF
    /\ Go("brand")

query_brand ==
    /\ at = "brand"
    /\ IF fingerprint.maximum_extended_leaf >= BRAND_LAST_LEAF /\ subleaf <= BRAND_LAST_LEAF
       THEN /\ fingerprint' = [ fingerprint EXCEPT
                   !.raw_cpuid = recorded(subleaf, 0),
                   !.brand = Append(@, answer.brand) ]
            /\ subleaf' = subleaf + 1
            /\ Go("brand")
       ELSE Go("width") /\ UNCHANGED <<subleaf, fingerprint>>

query_width ==
    /\ at = "width"
    /\ fingerprint' =
           IF fingerprint.maximum_extended_leaf < ADDRESS_WIDTH_LEAF THEN fingerprint
           ELSE [ fingerprint EXCEPT !.raw_cpuid = recorded(ADDRESS_WIDTH_LEAF, 0),
                                     !.address_width = <<answer.address_width>> ]
    /\ Go("decode")
    /\ UNCHANGED subleaf

Records == { fingerprint.raw_cpuid[i] : i \in DOMAIN fingerprint.raw_cpuid }

\* Wrong: the features are those of the core the thread is on by now.
decode_features_here ==
    { f.name : f \in { g \in CPUID_FEATURES :
        \E r \in Records : r.leaf = g.leaf /\ r.subleaf = g.subleaf
                           /\ g.name \in answer.features } }

\* decode_features, through find_record: the first record of the leaf.
decode_features ==
    { f.name : f \in { g \in CPUID_FEATURES :
        \E i \in DOMAIN fingerprint.raw_cpuid :
            LET Is(j) == /\ fingerprint.raw_cpuid[j].leaf = g.leaf
                         /\ fingerprint.raw_cpuid[j].subleaf = g.subleaf
            IN  /\ Is(i)
                /\ \A j \in 1 .. i - 1 : ~Is(j)
                /\ g.name \in machine[fingerprint.raw_cpuid[i].core].features } }

decode_enabled_xstate ==
    IF fingerprint.xcr0_supported = <<>> \/ fingerprint.xcr0 = <<>> THEN {}
    ELSE fingerprint.xcr0_supported[1] \cap fingerprint.xcr0[1]

Decode ==
    /\ at = "decode"
    /\ fingerprint' = [ fingerprint EXCEPT !.cpuid_features = decode_features,
                                           !.enabled_xstate = decode_enabled_xstate ]
    /\ Go("ready")
    /\ UNCHANGED subleaf

Query ==
    \/ query_vendor \/ query_signature \/ query_structured \/ query_subleaf
    \/ query_xstate \/ query_xss \/ query_component \/ query_xgetbv
    \/ query_hypervisor \/ query_interface \/ query_extended \/ query_features
    \/ query_brand \/ query_width \/ Decode

-----------------------------------------------------------------------------
(* Properties.                                                             *)

\* cpu.hpp: "Raw registers stay sorted by leaf and subleaf", and no leaf occurs
\* twice, so that find_record cannot pick the wrong one.
RecordsSorted ==
    LET raw == fingerprint.raw_cpuid
    IN  \A i \in 1 .. Len(raw) - 1 :
            \/ raw[i].leaf < raw[i + 1].leaf
            \/ raw[i].leaf = raw[i + 1].leaf /\ raw[i].subleaf < raw[i + 1].subleaf

Find(leaf, sub) == { r \in Records : r.leaf = leaf /\ r.subleaf = sub }

\* No leaf or subleaf is asked for beyond what the records of the same fingerprint
\* advertise, and XGETBV is executed only where they say the system enabled it.
QueriesAllowed ==
    /\ \A r \in Records :
         /\ r.leaf \in 1 .. HYPERVISOR_LEAF - 1 =>
              \E v \in Find(VENDOR_LEAF, 0) : r.leaf <= machine[v.core].maximum_basic_leaf
         /\ r.leaf = STRUCTURED_FEATURES_LEAF =>
              /\ r.subleaf <= MAX_STRUCTURED_FEATURE_SUBLEAF
              /\ \E s \in Find(STRUCTURED_FEATURES_LEAF, 0) :
                     r.subleaf <= machine[s.core].maximum_subleaf
         /\ r.leaf \in HYPERVISOR_LEAF .. EXTENDED_LIMIT_LEAF - 1 =>
              \E s \in Find(SIGNATURE_LEAF, 0) : machine[s.core].hypervisor_present
         /\ r.leaf = HYPERVISOR_INTERFACE =>
              \E h \in Find(HYPERVISOR_LEAF, 0) :
                  machine[h.core].maximum_hypervisor_leaf >= HYPERVISOR_INTERFACE
         /\ r.leaf > EXTENDED_LIMIT_LEAF =>
              \E x \in Find(EXTENDED_LIMIT_LEAF, 0) : r.leaf <= machine[x.core].maximum_extended_leaf
    /\ fingerprint.xcr0 # <<>> => \E s \in Find(SIGNATURE_LEAF, 0) : machine[s.core].osxsave

\* A finished fingerprint says the same in its decoded fields as in its raw
\* records, also when the thread was moved to a different core on the way: each
\* feature, the family and model, the hypervisor, and every enabled state
\* component beyond SSE has the record of its own subleaf.
DecodedFromRecords ==
    at = "ready" =>
        /\ \A f \in CPUID_FEATURES :
             f.name \in fingerprint.cpuid_features
               <=> \E r \in Find(f.leaf, f.subleaf) : f.name \in machine[r.core].features
        /\ fingerprint.hypervisor_present
             <=> \E r \in Find(SIGNATURE_LEAF, 0) : machine[r.core].hypervisor_present
        /\ fingerprint.signature # <<>> =>
             \E v \in Find(VENDOR_LEAF, 0), s \in Find(SIGNATURE_LEAF, 0) :
                 fingerprint.signature[1] =
                     decode_signature(machine[v.core].vendor, machine[s.core].signature)
        /\ \A bit \in fingerprint.enabled_xstate :
             /\ bit \in fingerprint.xcr0[1]
             /\ \E r \in Find(XSTATE_LEAF, 0) : bit \in machine[r.core].xcr0_supported
             /\ bit >= 2 => Find(XSTATE_LEAF, bit) # {}
        /\ fingerprint.brand # <<>> => Len(fingerprint.brand) = 3

\* The fingerprint that every trace carries: its records are unambiguous, none was
\* asked for that the processor does not have, and what it says in words is what
\* the records say, wherever the thread ran meanwhile.
FingerprintSound == RecordsSorted /\ QueriesAllowed /\ DecodedFromRecords
===============================================================================
