----------------------------- MODULE EngineProofs -----------------------------
(***************************************************************************)
(* Proofs about Engine, for every number of callers, whatever they ask for *)
(* and however they interleave: the platform's slot belongs to one caller  *)
(* at a time, so the trace each one gets explains its own request; and the *)
(* fingerprint they share is sound, whichever caller queries it.           *)
(***************************************************************************)
EXTENDS Engine, PlatformProofs

-----------------------------------------------------------------------------
(* The walk of query_cpu_fingerprint, for every machine and wherever the   *)
(* scheduler moves the querying thread: the inductive invariant.           *)

Stage ==
    {"unqueried", "vendor", "signature", "structured", "subleaf", "xstate", "xss", "component",
     "xgetbv", "hypervisor", "interface", "extended", "features", "brand", "width", "decode",
     "ready"}

Fields ==
    {"vendor", "signature", "maximum_basic_leaf", "hypervisor_present", "xsave", "osxsave",
     "xcr0_supported", "xss_supported", "xcr0", "hypervisor_vendor", "hypervisor_interface",
     "maximum_extended_leaf", "brand", "address_width", "cpuid_features", "enabled_xstate",
     "raw_cpuid"}

Record(cores) == [ leaf : Nat, subleaf : Nat, core : cores ]

raw == fingerprint.raw_cpuid

WalkType ==
    /\ AnswersTyped(machine)
    /\ core \in DOMAIN machine
    /\ at \in Stage
    /\ subleaf \in Nat
    /\ DOMAIN fingerprint = Fields
    /\ raw \in Seq(Record(DOMAIN machine))
    /\ fingerprint.maximum_basic_leaf \in Nat
    /\ fingerprint.maximum_extended_leaf \in Nat

\* The order of leaves and subleaves.
Precedes(leaf1, sub1, leaf2, sub2) == leaf1 < leaf2 \/ (leaf1 = leaf2 /\ sub1 < sub2)

\* Every record comes before this leaf and subleaf.
AllBefore(q, leaf, sub) ==
    \A i \in 1 .. Len(q) : Precedes(q[i].leaf, q[i].subleaf, leaf, sub)

\* The records are in order, each of a leaf and subleaf of its own.
Ordered(q) ==
    \A i, j \in 1 .. Len(q) :
        i < j => Precedes(q[i].leaf, q[i].subleaf, q[j].leaf, q[j].subleaf)

\* The records of one leaf and subleaf.
Of(q, leaf, sub) == { r \in { q[i] : i \in 1 .. Len(q) } : r.leaf = leaf /\ r.subleaf = sub }

\* Nothing the walk has still to ask for has been asked yet.
FrontierInv ==
    /\ at \in {"unqueried", "vendor"} => AllBefore(raw, VENDOR_LEAF, 0)
    /\ at = "signature" => AllBefore(raw, SIGNATURE_LEAF, 0)
    /\ at = "structured" => AllBefore(raw, STRUCTURED_FEATURES_LEAF, 0)
    /\ at = "subleaf" => AllBefore(raw, STRUCTURED_FEATURES_LEAF, subleaf)
    /\ at = "xstate" => AllBefore(raw, XSTATE_LEAF, 0)
    /\ at = "xss" => AllBefore(raw, XSTATE_LEAF, 1)
    /\ at = "component" => AllBefore(raw, XSTATE_LEAF, subleaf)
    /\ at \in {"xgetbv", "hypervisor"} => AllBefore(raw, HYPERVISOR_LEAF, 0)
    /\ at = "interface" => AllBefore(raw, HYPERVISOR_INTERFACE, 0)
    /\ at = "extended" => AllBefore(raw, EXTENDED_LIMIT_LEAF, 0)
    /\ at = "features" => AllBefore(raw, EXTENDED_FEATURES_LEAF, 0)
    /\ at = "brand" => /\ subleaf \in BRAND_FIRST_LEAF .. BRAND_LAST_LEAF + 1
                       /\ AllBefore(raw, subleaf, 0)
    /\ at = "width" => AllBefore(raw, ADDRESS_WIDTH_LEAF, 0)

\* What the fingerprint says of the basic leaves comes from their records.
BasicInv ==
    /\ at \notin {"unqueried", "vendor"} =>
         \E v \in Of(raw, VENDOR_LEAF, 0) :
             /\ fingerprint.vendor = machine[v.core].vendor
             /\ fingerprint.maximum_basic_leaf = machine[v.core].maximum_basic_leaf
    /\ fingerprint.hypervisor_present
         <=> \E s \in Of(raw, SIGNATURE_LEAF, 0) : machine[s.core].hypervisor_present
    /\ fingerprint.osxsave => \E s \in Of(raw, SIGNATURE_LEAF, 0) : machine[s.core].osxsave
    /\ fingerprint.signature # <<>> =>
         \E v \in Of(raw, VENDOR_LEAF, 0), s \in Of(raw, SIGNATURE_LEAF, 0) :
             fingerprint.signature[1] =
                 decode_signature(machine[v.core].vendor, machine[s.core].signature)
    /\ at \in {"unqueried", "vendor", "signature"} => fingerprint.signature = <<>>
    /\ at = "subleaf" => /\ fingerprint.maximum_basic_leaf >= STRUCTURED_FEATURES_LEAF
                         /\ Of(raw, STRUCTURED_FEATURES_LEAF, 0) # {} /\ subleaf >= 1

\* The supported state components, and which of them have been asked for.
StateInv ==
    /\ at \in {"xss", "component"} => /\ fingerprint.maximum_basic_leaf >= XSTATE_LEAF
                                      /\ fingerprint.xcr0_supported # <<>>
    /\ at = "component" => /\ fingerprint.xss_supported[1] \subseteq 0 .. XSTATE_BITS - 1
                           /\ subleaf >= 2
    /\ fingerprint.xcr0_supported # <<>> =>
         /\ \E r \in Of(raw, XSTATE_LEAF, 0) :
                fingerprint.xcr0_supported = <<machine[r.core].xcr0_supported>>
         /\ at # "xss" =>
              \A bit \in fingerprint.xcr0_supported[1] :
                  2 <= bit /\ (at = "component" => bit < subleaf) => Of(raw, XSTATE_LEAF, bit) # {}
    /\ at \in {"unqueried", "vendor", "signature", "structured", "subleaf", "xstate"} =>
         fingerprint.xcr0_supported = <<>>
    /\ fingerprint.xcr0 # <<>> =>
         \E s \in Of(raw, SIGNATURE_LEAF, 0) : machine[s.core].osxsave

Brands(m) == { m[k].brand : k \in DOMAIN m }

\* The same for the hypervisor's leaves and the extended ones.
ExtendedInv ==
    /\ at = "interface" =>
         /\ fingerprint.hypervisor_present
         /\ \E h \in Of(raw, HYPERVISOR_LEAF, 0) :
                machine[h.core].maximum_hypervisor_leaf >= HYPERVISOR_INTERFACE
    /\ at \in {"features", "brand", "width"} =>
         \E x \in Of(raw, EXTENDED_LIMIT_LEAF, 0) :
             fingerprint.maximum_extended_leaf = machine[x.core].maximum_extended_leaf
    /\ at \notin {"brand", "width", "decode", "ready"} => fingerprint.brand = <<>>
    /\ at = "brand" => /\ fingerprint.brand \in Seq(Brands(machine))
                       /\ Len(fingerprint.brand) = subleaf - BRAND_FIRST_LEAF
    /\ at = "brand" /\ subleaf > BRAND_FIRST_LEAF =>
         fingerprint.maximum_extended_leaf >= BRAND_LAST_LEAF
    /\ at \in {"width", "decode", "ready"} /\ fingerprint.brand # <<>> =>
         Len(fingerprint.brand) = 3

\* QueriesAllowed for one record among the others.
Allowed(m, q, r) ==
    /\ r.leaf \in 1 .. HYPERVISOR_LEAF - 1 =>
         \E v \in Of(q, VENDOR_LEAF, 0) : r.leaf <= m[v.core].maximum_basic_leaf
    /\ r.leaf = STRUCTURED_FEATURES_LEAF =>
         /\ r.subleaf <= MAX_STRUCTURED_FEATURE_SUBLEAF
         /\ \E s \in Of(q, STRUCTURED_FEATURES_LEAF, 0) : r.subleaf <= m[s.core].maximum_subleaf
    /\ r.leaf \in HYPERVISOR_LEAF .. EXTENDED_LIMIT_LEAF - 1 =>
         \E s \in Of(q, SIGNATURE_LEAF, 0) : m[s.core].hypervisor_present
    /\ r.leaf = HYPERVISOR_INTERFACE =>
         \E h \in Of(q, HYPERVISOR_LEAF, 0) :
             m[h.core].maximum_hypervisor_leaf >= HYPERVISOR_INTERFACE
    /\ r.leaf > EXTENDED_LIMIT_LEAF =>
         \E x \in Of(q, EXTENDED_LIMIT_LEAF, 0) : r.leaf <= m[x.core].maximum_extended_leaf

AllAllowed(m, q) == \A i \in 1 .. Len(q) : Allowed(m, q, q[i])

WalkInv ==
    /\ WalkType /\ Ordered(raw) /\ FrontierInv
    /\ BasicInv /\ StateInv /\ ExtendedInv
    /\ AllAllowed(machine, raw) /\ DecodedFromRecords

-----------------------------------------------------------------------------
(* One more record.                                                        *)

\* Records are identified by numbers.
LEMMA RecordKey ==
    ASSUME NEW C
    PROVE  /\ \A r \in Record(C) : r.leaf \in Nat /\ r.subleaf \in Nat /\ r.core \in C
           /\ \A q \in Seq(Record(C)) : \A i \in 1 .. Len(q) :
                 q[i].leaf \in Nat /\ q[i].subleaf \in Nat
<1>1. \A r \in Record(C) : r.leaf \in Nat /\ r.subleaf \in Nat /\ r.core \in C
  BY DEF Record
<1>2. \A q \in Seq(Record(C)) : \A i \in 1 .. Len(q) : q[i] \in Record(C)
  OBVIOUS
<1> QED
  BY <1>1, <1>2

\* A record names a core of the machine.
LEMMA RecordCores ==
    ASSUME NEW C, NEW q \in Seq(Record(C)), NEW l, NEW s, NEW r \in Of(q, l, s)
    PROVE  r.core \in C
<1>1. \A i \in 1 .. Len(q) : q[i] \in Record(C)
  OBVIOUS
<1> QED
  BY <1>1, RecordKey DEF Of

\* A record of the next leaf or subleaf keeps the order and the other records.
LEMMA OneMoreRecord ==
    ASSUME NEW C, NEW q \in Seq(Record(C)),
           NEW r \in Record(C),
           Ordered(q), AllBefore(q, r.leaf, r.subleaf)
    PROVE  /\ Append(q, r) \in Seq(Record(C))
           /\ Ordered(Append(q, r))
           /\ \A l, s \in Nat :
                 Precedes(r.leaf, r.subleaf, l, s) => AllBefore(Append(q, r), l, s)
           /\ \A l, s : Of(q, l, s) \subseteq Of(Append(q, r), l, s)
           /\ \A l, s : l # r.leaf \/ s # r.subleaf => Of(Append(q, r), l, s) = Of(q, l, s)
           /\ Of(Append(q, r), r.leaf, r.subleaf) = {r}
<1> DEFINE p == Append(q, r)
<1>1. /\ p \in Seq(Record(C)) /\ Len(p) = Len(q) + 1
      /\ \A i \in 1 .. Len(q) : p[i] = q[i]
      /\ p[Len(q) + 1] = r /\ Len(q) \in Nat
  OBVIOUS
<1>key. /\ \A i \in 1 .. Len(q) : q[i].leaf \in Nat /\ q[i].subleaf \in Nat
      /\ r.leaf \in Nat /\ r.subleaf \in Nat
  BY RecordKey
<1> HIDE DEF p
<1>2. Ordered(p)
  <2> SUFFICES ASSUME NEW i \in 1 .. Len(p), NEW j \in 1 .. Len(p), i < j
               PROVE  Precedes(p[i].leaf, p[i].subleaf, p[j].leaf, p[j].subleaf)
    BY DEF Ordered
  <2>1. CASE j = Len(q) + 1
    <3>1. i \in 1 .. Len(q) /\ p[j] = r /\ p[i] = q[i]
      BY <1>1, <2>1
    <3> QED
      BY <3>1 DEF AllBefore
  <2>2. CASE j # Len(q) + 1
    <3>1. i \in 1 .. Len(q) /\ j \in 1 .. Len(q) /\ p[i] = q[i] /\ p[j] = q[j]
      BY <1>1, <2>2
    <3> QED
      BY <3>1 DEF Ordered
  <2> QED
    BY <2>1, <2>2
<1>3. ASSUME NEW l \in Nat, NEW s \in Nat, Precedes(r.leaf, r.subleaf, l, s)
      PROVE  AllBefore(p, l, s)
  <2> SUFFICES ASSUME NEW i \in 1 .. Len(p) PROVE Precedes(p[i].leaf, p[i].subleaf, l, s)
    BY DEF AllBefore
  <2>1. CASE i = Len(q) + 1
    BY <1>1, <1>3, <2>1
  <2>2. CASE i # Len(q) + 1
    <3>1. i \in 1 .. Len(q) /\ p[i] = q[i]
      BY <1>1, <2>2
    <3>2. Precedes(q[i].leaf, q[i].subleaf, r.leaf, r.subleaf)
      BY <3>1 DEF AllBefore
    <3> QED
      BY <1>key, <1>3, <3>1, <3>2 DEF Precedes
  <2> QED
    BY <2>1, <2>2
<1>4. { p[i] : i \in 1 .. Len(p) } = { q[i] : i \in 1 .. Len(q) } \cup {r}
  <2>1. \A i \in 1 .. Len(p) : i \in 1 .. Len(q) \/ i = Len(q) + 1
    BY <1>1
  <2>2. /\ \A i \in 1 .. Len(q) : i \in 1 .. Len(p)
        /\ Len(q) + 1 \in 1 .. Len(p)
    BY <1>1
  <2> QED
    BY <1>1, <2>1, <2>2
<1>5. \A l, s : /\ Of(q, l, s) \subseteq Of(p, l, s)
                /\ l # r.leaf \/ s # r.subleaf => Of(p, l, s) = Of(q, l, s)
  BY <1>4 DEF Of
<1>6. Of(q, r.leaf, r.subleaf) = {}
  BY <1>key DEF Of, AllBefore, Precedes
<1>7. Of(p, r.leaf, r.subleaf) = {r}
  <2>1. \A x : x \in Of(p, r.leaf, r.subleaf) <=> x \in Of(q, r.leaf, r.subleaf) \/ x = r
    BY <1>4 DEF Of
  <2> QED
    BY <1>6, <2>1
<1> QED
  BY <1>1, <1>2, <1>3, <1>5, <1>7 DEF p

\* The walk may skip leaves.
LEMMA FurtherOn ==
    ASSUME NEW C, NEW q \in Seq(Record(C)),
           NEW l1 \in Nat, NEW s1 \in Nat, NEW l2 \in Nat, NEW s2 \in Nat,
           AllBefore(q, l1, s1), Precedes(l1, s1, l2, s2)
    PROVE  AllBefore(q, l2, s2)
  BY RecordKey DEF AllBefore, Precedes

\* A new record that may be there leaves the others justified.
LEMMA StillAllowed ==
    ASSUME NEW C, NEW m, NEW q \in Seq(Record(C)),
           NEW r \in Record(C),
           AllAllowed(m, q), Allowed(m, Append(q, r), r),
           \A l, s : Of(q, l, s) \subseteq Of(Append(q, r), l, s)
    PROVE  AllAllowed(m, Append(q, r))
<1>1. /\ Len(Append(q, r)) = Len(q) + 1 /\ Append(q, r)[Len(q) + 1] = r /\ Len(q) \in Nat
      /\ \A i \in 1 .. Len(q) : Append(q, r)[i] = q[i]
  OBVIOUS
<1>2. \A x : Allowed(m, q, x) => Allowed(m, Append(q, r), x)
  BY DEF Allowed
<1> QED
  BY <1>1, <1>2 DEF AllAllowed

\* The record of one more answer: what AskStep establishes.
Grown(leaf, sub) ==
    /\ raw' \in Seq(Record(DOMAIN machine)) /\ Ordered(raw')
    /\ \A l, s \in Nat : Precedes(leaf, sub, l, s) => AllBefore(raw', l, s)
    /\ \A l, s : Of(raw, l, s) \subseteq Of(raw', l, s)
    /\ \A l, s : l # leaf \/ s # sub => Of(raw', l, s) = Of(raw, l, s)
    /\ Of(raw', leaf, sub) = {[ leaf |-> leaf, subleaf |-> sub, core |-> core ]}
    /\ Allowed(machine, raw', [ leaf |-> leaf, subleaf |-> sub, core |-> core ]) =>
         AllAllowed(machine, raw')

\* What a query leaves alone of the basic leaves, the state components, the rest.
SameBasic ==
    /\ fingerprint'.vendor = fingerprint.vendor
    /\ fingerprint'.signature = fingerprint.signature
    /\ fingerprint'.maximum_basic_leaf = fingerprint.maximum_basic_leaf
    /\ fingerprint'.hypervisor_present = fingerprint.hypervisor_present
    /\ fingerprint'.osxsave = fingerprint.osxsave
SameState ==
    /\ fingerprint'.xcr0_supported = fingerprint.xcr0_supported
    /\ fingerprint'.xss_supported = fingerprint.xss_supported
    /\ fingerprint'.xcr0 = fingerprint.xcr0
SameExtended ==
    /\ fingerprint'.maximum_extended_leaf = fingerprint.maximum_extended_leaf
    /\ fingerprint'.brand = fingerprint.brand

\* The walk asks for the next leaf or subleaf.
LEMMA AskStep ==
    ASSUME WalkInv, UNCHANGED machine, NEW leaf \in Nat, NEW sub \in Nat,
           AllBefore(raw, leaf, sub), raw' = recorded(leaf, sub)
    PROVE  Grown(leaf, sub)
<1> DEFINE r == [ leaf |-> leaf, subleaf |-> sub, core |-> core ]
<1>1. raw \in Seq(Record(DOMAIN machine)) /\ Ordered(raw) /\ AllAllowed(machine, raw)
  BY DEF WalkInv, WalkType
<1>2. r \in Record(DOMAIN machine) /\ r.leaf = leaf /\ r.subleaf = sub
  BY DEF WalkInv, WalkType, Record
<1>3. raw' = Append(raw, r)
  BY DEF recorded, raw
<1> HIDE DEF r
<1>4. /\ raw' \in Seq(Record(DOMAIN machine)) /\ Ordered(raw')
      /\ \A l, s \in Nat : Precedes(leaf, sub, l, s) => AllBefore(raw', l, s)
      /\ \A l, s : Of(raw, l, s) \subseteq Of(raw', l, s)
      /\ \A l, s : l # leaf \/ s # sub => Of(raw', l, s) = Of(raw, l, s)
      /\ Of(raw', leaf, sub) = {r}
  <2>1. /\ Append(raw, r) \in Seq(Record(DOMAIN machine)) /\ Ordered(Append(raw, r))
        /\ \A l, s \in Nat : Precedes(leaf, sub, l, s) => AllBefore(Append(raw, r), l, s)
        /\ \A l, s : Of(raw, l, s) \subseteq Of(Append(raw, r), l, s)
        /\ \A l, s : l # leaf \/ s # sub => Of(Append(raw, r), l, s) = Of(raw, l, s)
        /\ Of(Append(raw, r), leaf, sub) = {r}
    <3> DEFINE C == DOMAIN machine
               q == raw
    <3>1. q \in Seq(Record(C)) /\ r \in Record(C) /\ Ordered(q) /\ AllBefore(q, r.leaf, r.subleaf)
      BY <1>1, <1>2
    <3>2. leaf = r.leaf /\ sub = r.subleaf
      BY <1>2
    <3> HIDE DEF C, q
    <3>3. /\ Append(q, r) \in Seq(Record(C)) /\ Ordered(Append(q, r))
          /\ \A l, s \in Nat :
                Precedes(r.leaf, r.subleaf, l, s) => AllBefore(Append(q, r), l, s)
          /\ \A l, s : Of(q, l, s) \subseteq Of(Append(q, r), l, s)
          /\ \A l, s : l # r.leaf \/ s # r.subleaf => Of(Append(q, r), l, s) = Of(q, l, s)
          /\ Of(Append(q, r), r.leaf, r.subleaf) = {r}
      BY <3>1, OneMoreRecord, Zenon
    <3> QED
      BY <3>2, <3>3, Zenon DEF C, q
  <2> QED
    BY <1>3, <2>1
<1>5. Allowed(machine, raw', r) => AllAllowed(machine, raw')
  BY <1>1, <1>2, <1>3, <1>4, StillAllowed
<1> QED
  BY <1>4, <1>5 DEF r, Grown

\* The vendor leaf.
LEMMA VendorStep == ASSUME WalkInv, query_vendor PROVE WalkInv'
<1>walk. WalkInv
  OBVIOUS
<1>inv. /\ WalkType /\ Ordered(raw) /\ FrontierInv /\ BasicInv /\ StateInv /\ ExtendedInv
        /\ AllAllowed(machine, raw)
  BY DEF WalkInv
<1> USE DEF VENDOR_LEAF, SIGNATURE_LEAF, STRUCTURED_FEATURES_LEAF, XSTATE_LEAF, HYPERVISOR_LEAF,
       HYPERVISOR_INTERFACE, EXTENDED_LIMIT_LEAF, EXTENDED_FEATURES_LEAF, BRAND_FIRST_LEAF,
       BRAND_LAST_LEAF, ADDRESS_WIDTH_LEAF
<1>eff. /\ at = "vendor" /\ at' = "signature" /\ UNCHANGED <<machine, core>>
        /\ UNCHANGED subleaf /\ DOMAIN fingerprint' = Fields
        /\ raw' = recorded(VENDOR_LEAF, 0)
        /\ fingerprint'.vendor = answer.vendor
        /\ fingerprint'.maximum_basic_leaf = answer.maximum_basic_leaf
        /\ SameState /\ SameExtended
        /\ fingerprint'.signature = fingerprint.signature
        /\ fingerprint'.hypervisor_present = fingerprint.hypervisor_present
        /\ fingerprint'.osxsave = fingerprint.osxsave
  BY <1>inv DEF query_vendor, Go, raw, Fields, WalkType, SameState, SameExtended
<1>nat. VENDOR_LEAF \in Nat /\ 0 \in Nat /\ AllBefore(raw, VENDOR_LEAF, 0)
  BY <1>inv, <1>eff DEF FrontierInv, WalkType
<1>ask. Grown(VENDOR_LEAF, 0)
  BY <1>walk, <1>eff, <1>nat, AskStep
<1>1. WalkType'
  BY <1>inv, <1>eff, <1>nat, <1>ask
     DEF WalkType, Stage, SameBasic, SameExtended, Grown, AnswersTyped, answer
<1>2. FrontierInv'
  BY <1>inv, <1>eff, <1>nat, <1>ask DEF FrontierInv, WalkType, Precedes, Grown, answer
<1>3. BasicInv'
  BY <1>inv, <1>eff, <1>nat, <1>ask DEF BasicInv, WalkType, SameBasic, Grown, answer
<1>4. StateInv'
  BY <1>inv, <1>eff, <1>nat, <1>ask DEF StateInv, WalkType, SameBasic, SameState, Grown, answer
<1>5. ExtendedInv'
  BY <1>inv, <1>eff, <1>nat, <1>ask
     DEF ExtendedInv, WalkType, SameBasic, SameExtended, Grown, answer
<1>6. AllAllowed(machine, raw')
  BY <1>inv, <1>eff, <1>nat, <1>ask DEF Allowed, BasicInv, WalkType, Grown, answer
<1>7. DecodedFromRecords'
  BY <1>inv, <1>eff, <1>nat, <1>ask DEF DecodedFromRecords
<1>8. Ordered(raw')
  BY <1>inv, <1>eff, <1>nat, <1>ask DEF WalkType, Grown
<1> QED
  BY <1>eff, <1>1, <1>2, <1>3, <1>4, <1>5, <1>6, <1>7, <1>8 DEF WalkInv

\* The signature leaf, where there is one.
LEMMA SignatureStep == ASSUME WalkInv, query_signature PROVE WalkInv'
<1>walk. WalkInv
  OBVIOUS
<1>inv. /\ WalkType /\ Ordered(raw) /\ FrontierInv /\ BasicInv /\ StateInv /\ ExtendedInv
        /\ AllAllowed(machine, raw)
  BY DEF WalkInv
<1> USE DEF VENDOR_LEAF, SIGNATURE_LEAF, STRUCTURED_FEATURES_LEAF, XSTATE_LEAF, HYPERVISOR_LEAF,
       HYPERVISOR_INTERFACE, EXTENDED_LIMIT_LEAF, EXTENDED_FEATURES_LEAF, BRAND_FIRST_LEAF,
       BRAND_LAST_LEAF, ADDRESS_WIDTH_LEAF
<1>1. CASE fingerprint.maximum_basic_leaf < SIGNATURE_LEAF
  <2>eff. /\ at = "signature" /\ at' = "structured" /\ UNCHANGED <<machine, core>>
          /\ UNCHANGED subleaf /\ DOMAIN fingerprint' = Fields
          /\ UNCHANGED raw
          /\ SameBasic /\ SameState /\ SameExtended
    BY <1>1, <1>inv
       DEF query_signature, Go, raw, Fields, WalkType, SameBasic, SameState, SameExtended
  <2>1. WalkType'
    BY <1>1, <1>inv, <2>eff DEF WalkType, Stage, SameBasic, SameExtended
  <2>2. FrontierInv'
    BY <1>1, <1>inv, <2>eff, FurtherOn DEF FrontierInv, WalkType, Precedes
  <2>3. BasicInv'
    BY <1>1, <1>inv, <2>eff DEF BasicInv, WalkType, SameBasic
  <2>4. StateInv'
    BY <1>1, <1>inv, <2>eff DEF StateInv, WalkType, SameBasic, SameState
  <2>5. ExtendedInv'
    BY <1>1, <1>inv, <2>eff DEF ExtendedInv, WalkType, SameBasic, SameExtended
  <2>6. AllAllowed(machine, raw')
    BY <1>1, <1>inv, <2>eff DEF Allowed, BasicInv, WalkType
  <2>7. DecodedFromRecords'
    BY <1>1, <1>inv, <2>eff DEF DecodedFromRecords
  <2>8. Ordered(raw')
    BY <1>1, <1>inv, <2>eff DEF WalkType
  <2> QED
    BY <2>eff, <2>1, <2>2, <2>3, <2>4, <2>5, <2>6, <2>7, <2>8 DEF WalkInv
<1>2. CASE ~(fingerprint.maximum_basic_leaf < SIGNATURE_LEAF)
  <2>eff. /\ at = "signature" /\ at' = "structured" /\ UNCHANGED <<machine, core>>
          /\ UNCHANGED subleaf /\ DOMAIN fingerprint' = Fields
          /\ raw' = recorded(SIGNATURE_LEAF, 0)
          /\ fingerprint'.signature = <<decode_signature(fingerprint.vendor, answer.signature)>>
          /\ fingerprint'.hypervisor_present = answer.hypervisor_present
          /\ fingerprint'.osxsave = answer.osxsave
          /\ SameState /\ SameExtended
          /\ fingerprint'.vendor = fingerprint.vendor
          /\ fingerprint'.maximum_basic_leaf = fingerprint.maximum_basic_leaf
    BY <1>2, <1>inv DEF query_signature, Go, raw, Fields, WalkType, SameState, SameExtended
  <2>nat. SIGNATURE_LEAF \in Nat /\ 0 \in Nat /\ AllBefore(raw, SIGNATURE_LEAF, 0)
    BY <1>2, <1>inv, <2>eff DEF FrontierInv, WalkType
  <2>ask. Grown(SIGNATURE_LEAF, 0)
    BY <1>walk, <2>eff, <2>nat, AskStep
  <2>1. WalkType'
    BY <1>2, <1>inv, <2>eff, <2>nat, <2>ask
       DEF WalkType, Stage, SameBasic, SameExtended, Grown, answer, AnswersTyped
  <2>2. FrontierInv'
    BY <1>2, <1>inv, <2>eff, <2>nat, <2>ask
       DEF FrontierInv, WalkType, Precedes, Grown, answer, AnswersTyped
  <2>3. BasicInv'
    BY <1>2, <1>inv, <2>eff, <2>nat, <2>ask
       DEF BasicInv, WalkType, SameBasic, Grown, answer, AnswersTyped
  <2>4. StateInv'
    BY <1>2, <1>inv, <2>eff, <2>nat, <2>ask
       DEF StateInv, WalkType, SameBasic, SameState, Grown, answer, AnswersTyped
  <2>5. ExtendedInv'
    BY <1>2, <1>inv, <2>eff, <2>nat, <2>ask
       DEF ExtendedInv, WalkType, SameBasic, SameExtended, Grown, answer, AnswersTyped
  <2>6. AllAllowed(machine, raw')
    BY <1>2, <1>inv, <2>eff, <2>nat, <2>ask
       DEF Allowed, BasicInv, WalkType, Grown, answer, AnswersTyped
  <2>7. DecodedFromRecords'
    BY <1>2, <1>inv, <2>eff, <2>nat, <2>ask DEF DecodedFromRecords
  <2>8. Ordered(raw')
    BY <1>2, <1>inv, <2>eff, <2>nat, <2>ask DEF WalkType, Grown
  <2> QED
    BY <2>eff, <2>1, <2>2, <2>3, <2>4, <2>5, <2>6, <2>7, <2>8 DEF WalkInv
<1> QED
  BY <1>1, <1>2, <1>inv DEF query_signature, Go

\* The structured features, where there are any.
LEMMA StructuredStep == ASSUME WalkInv, query_structured PROVE WalkInv'
<1>walk. WalkInv
  OBVIOUS
<1>inv. /\ WalkType /\ Ordered(raw) /\ FrontierInv /\ BasicInv /\ StateInv /\ ExtendedInv
        /\ AllAllowed(machine, raw)
  BY DEF WalkInv
<1> USE DEF VENDOR_LEAF, SIGNATURE_LEAF, STRUCTURED_FEATURES_LEAF, XSTATE_LEAF, HYPERVISOR_LEAF,
       HYPERVISOR_INTERFACE, EXTENDED_LIMIT_LEAF, EXTENDED_FEATURES_LEAF, BRAND_FIRST_LEAF,
       BRAND_LAST_LEAF, ADDRESS_WIDTH_LEAF
<1>1. CASE fingerprint.maximum_basic_leaf < STRUCTURED_FEATURES_LEAF
  <2>eff. /\ at = "structured" /\ at' = "xstate" /\ UNCHANGED <<machine, core>>
          /\ UNCHANGED subleaf /\ DOMAIN fingerprint' = Fields
          /\ UNCHANGED raw
          /\ SameBasic /\ SameState /\ SameExtended
    BY <1>1, <1>inv
       DEF query_structured, Go, raw, Fields, WalkType, SameBasic, SameState, SameExtended
  <2>1. WalkType'
    BY <1>1, <1>inv, <2>eff DEF WalkType, Stage, SameBasic, SameExtended
  <2>2. FrontierInv'
    BY <1>1, <1>inv, <2>eff, FurtherOn DEF FrontierInv, WalkType, Precedes
  <2>3. BasicInv'
    BY <1>1, <1>inv, <2>eff DEF BasicInv, WalkType, SameBasic
  <2>4. StateInv'
    BY <1>1, <1>inv, <2>eff DEF StateInv, WalkType, SameBasic, SameState
  <2>5. ExtendedInv'
    BY <1>1, <1>inv, <2>eff DEF ExtendedInv, WalkType, SameBasic, SameExtended
  <2>6. AllAllowed(machine, raw')
    BY <1>1, <1>inv, <2>eff DEF Allowed, BasicInv, WalkType
  <2>7. DecodedFromRecords'
    BY <1>1, <1>inv, <2>eff DEF DecodedFromRecords
  <2>8. Ordered(raw')
    BY <1>1, <1>inv, <2>eff DEF WalkType
  <2> QED
    BY <2>eff, <2>1, <2>2, <2>3, <2>4, <2>5, <2>6, <2>7, <2>8 DEF WalkInv
<1>2. CASE ~(fingerprint.maximum_basic_leaf < STRUCTURED_FEATURES_LEAF)
  <2>eff. /\ at = "structured" /\ at' = "subleaf" /\ UNCHANGED <<machine, core>>
          /\ subleaf' = 1 /\ DOMAIN fingerprint' = Fields
          /\ raw' = recorded(STRUCTURED_FEATURES_LEAF, 0)
          /\ SameBasic /\ SameState /\ SameExtended
    BY <1>2, <1>inv
       DEF query_structured, Go, raw, Fields, WalkType, SameBasic, SameState, SameExtended
  <2>nat. /\ STRUCTURED_FEATURES_LEAF \in Nat
          /\ 0 \in Nat
          /\ AllBefore(raw, STRUCTURED_FEATURES_LEAF, 0)
    BY <1>2, <1>inv, <2>eff DEF FrontierInv, WalkType
  <2>ask. Grown(STRUCTURED_FEATURES_LEAF, 0)
    BY <1>walk, <2>eff, <2>nat, AskStep
  <2>1. WalkType'
    BY <1>2, <1>inv, <2>eff, <2>nat, <2>ask
       DEF WalkType, Stage, SameBasic, SameExtended, Grown, AnswersTyped
  <2>2. FrontierInv'
    BY <1>2, <1>inv, <2>eff, <2>nat, <2>ask
       DEF FrontierInv, WalkType, Precedes, Grown, AnswersTyped
  <2>3. BasicInv'
    <3>1. /\ at' = "subleaf" /\ subleaf' = 1 /\ fingerprint'.maximum_basic_leaf >= 7
          /\ Of(raw', STRUCTURED_FEATURES_LEAF, 0) # {} /\ machine' = machine
          /\ Of(raw', VENDOR_LEAF, 0) = Of(raw, VENDOR_LEAF, 0)
          /\ Of(raw', SIGNATURE_LEAF, 0) = Of(raw, SIGNATURE_LEAF, 0)
      BY <1>2, <1>inv, <2>eff, <2>nat, <2>ask DEF Grown, SameBasic, WalkType
    <3> QED
      BY <1>inv, <2>eff, <3>1 DEF BasicInv, SameBasic
  <2>4. StateInv'
    BY <1>2, <1>inv, <2>eff, <2>nat, <2>ask
       DEF StateInv, WalkType, SameBasic, SameState, Grown, AnswersTyped
  <2>5. ExtendedInv'
    BY <1>2, <1>inv, <2>eff, <2>nat, <2>ask
       DEF ExtendedInv, WalkType, SameBasic, SameExtended, Grown, AnswersTyped
  <2>6. AllAllowed(machine, raw')
    <3>1. \E v \in Of(raw', VENDOR_LEAF, 0) : 7 <= machine[v.core].maximum_basic_leaf
      BY <1>2, <1>inv, <2>eff, <2>nat, <2>ask DEF BasicInv, Grown, WalkType
    <3>2. \E s \in Of(raw', STRUCTURED_FEATURES_LEAF, 0) : 0 <= machine[s.core].maximum_subleaf
      BY <1>2, <1>inv, <2>eff, <2>nat, <2>ask DEF Grown, WalkType, AnswersTyped
    <3> QED
      BY <2>ask, <3>1, <3>2, CpuAssumption DEF Allowed, Grown
  <2>7. DecodedFromRecords'
    BY <1>2, <1>inv, <2>eff, <2>nat, <2>ask DEF DecodedFromRecords
  <2>8. Ordered(raw')
    BY <1>2, <1>inv, <2>eff, <2>nat, <2>ask DEF WalkType, Grown
  <2> QED
    BY <2>eff, <2>1, <2>2, <2>3, <2>4, <2>5, <2>6, <2>7, <2>8 DEF WalkInv
<1> QED
  BY <1>1, <1>2, <1>inv DEF query_structured, Go

\* The further subleaves of the structured features.
LEMMA SubleafStep == ASSUME WalkInv, query_subleaf PROVE WalkInv'
<1>walk. WalkInv
  OBVIOUS
<1>inv. /\ WalkType /\ Ordered(raw) /\ FrontierInv /\ BasicInv /\ StateInv /\ ExtendedInv
        /\ AllAllowed(machine, raw)
  BY DEF WalkInv
<1> USE DEF VENDOR_LEAF, SIGNATURE_LEAF, STRUCTURED_FEATURES_LEAF, XSTATE_LEAF, HYPERVISOR_LEAF,
       HYPERVISOR_INTERFACE, EXTENDED_LIMIT_LEAF, EXTENDED_FEATURES_LEAF, BRAND_FIRST_LEAF,
       BRAND_LAST_LEAF, ADDRESS_WIDTH_LEAF
<1>1. CASE ~(subleaf <= maximum_subleaf)
  <2>eff. /\ at = "subleaf" /\ at' = "xstate" /\ UNCHANGED <<machine, core>>
          /\ UNCHANGED subleaf /\ DOMAIN fingerprint' = Fields
          /\ UNCHANGED raw
          /\ SameBasic /\ SameState /\ SameExtended
    BY <1>1, <1>inv
       DEF query_subleaf, Go, raw, Fields, WalkType, SameBasic, SameState, SameExtended
  <2>1. WalkType'
    BY <1>1, <1>inv, <2>eff DEF WalkType, Stage, SameBasic, SameExtended
  <2>2. FrontierInv'
    BY <1>1, <1>inv, <2>eff, FurtherOn DEF FrontierInv, WalkType, Precedes
  <2>3. BasicInv'
    BY <1>1, <1>inv, <2>eff DEF BasicInv, WalkType, SameBasic
  <2>4. StateInv'
    BY <1>1, <1>inv, <2>eff DEF StateInv, WalkType, SameBasic, SameState
  <2>5. ExtendedInv'
    BY <1>1, <1>inv, <2>eff DEF ExtendedInv, WalkType, SameBasic, SameExtended
  <2>6. AllAllowed(machine, raw')
    BY <1>1, <1>inv, <2>eff DEF Allowed, BasicInv, WalkType
  <2>7. DecodedFromRecords'
    BY <1>1, <1>inv, <2>eff DEF DecodedFromRecords
  <2>8. Ordered(raw')
    BY <1>1, <1>inv, <2>eff DEF WalkType
  <2> QED
    BY <2>eff, <2>1, <2>2, <2>3, <2>4, <2>5, <2>6, <2>7, <2>8 DEF WalkInv
<1>2. CASE subleaf <= maximum_subleaf
  <2>eff. /\ at = "subleaf" /\ at' = "subleaf" /\ UNCHANGED <<machine, core>>
          /\ subleaf' = subleaf + 1 /\ DOMAIN fingerprint' = Fields
          /\ raw' = recorded(STRUCTURED_FEATURES_LEAF, subleaf)
          /\ SameBasic /\ SameState /\ SameExtended
    BY <1>2, <1>inv
       DEF query_subleaf, Go, raw, Fields, WalkType, SameBasic, SameState, SameExtended
  <2>max. /\ subleaf <= MAX_STRUCTURED_FEATURE_SUBLEAF
          /\ \E s \in Of(raw, STRUCTURED_FEATURES_LEAF, 0) :
               subleaf <= machine[s.core].maximum_subleaf
    <3>1. DOMAIN raw = 1 .. Len(raw) /\ Of(raw, STRUCTURED_FEATURES_LEAF, 0) # {}
      BY <1>2, <1>inv, <2>eff DEF WalkType, BasicInv
    <3> DEFINE s == CHOOSE x \in { raw[i] : i \in DOMAIN raw } :
                      x.leaf = STRUCTURED_FEATURES_LEAF /\ x.subleaf = 0
    <3>2. s \in Of(raw, STRUCTURED_FEATURES_LEAF, 0)
      BY <3>1 DEF Of
    <3>3. s.core \in DOMAIN machine
      <4>1. \A i \in 1 .. Len(raw) : raw[i] \in Record(DOMAIN machine)
        BY <1>inv DEF WalkType
      <4> QED
        BY <3>2, <4>1, RecordKey DEF Of
    <3>4. machine[s.core].maximum_subleaf \in Nat
      BY <1>inv, <3>3 DEF WalkType, AnswersTyped
    <3>5. maximum_subleaf = IF machine[s.core].maximum_subleaf < MAX_STRUCTURED_FEATURE_SUBLEAF
                            THEN machine[s.core].maximum_subleaf
                            ELSE MAX_STRUCTURED_FEATURE_SUBLEAF
      BY DEF maximum_subleaf, raw
    <3> HIDE DEF s
    <3> QED
      BY <1>2, <1>inv, <3>2, <3>4, <3>5, CpuAssumption DEF WalkType
  <2>nat. /\ STRUCTURED_FEATURES_LEAF \in Nat
          /\ subleaf \in Nat
          /\ AllBefore(raw, STRUCTURED_FEATURES_LEAF, subleaf)
    BY <1>2, <1>inv, <2>eff, <2>max DEF FrontierInv, WalkType
  <2>ask. Grown(STRUCTURED_FEATURES_LEAF, subleaf)
    BY <1>walk, <2>eff, <2>nat, AskStep
  <2>1. WalkType'
    BY <1>2, <1>inv, <2>eff, <2>max, <2>nat, <2>ask
       DEF WalkType, Stage, SameBasic, SameExtended, Grown
  <2>2. FrontierInv'
    BY <1>2, <1>inv, <2>eff, <2>max, <2>nat, <2>ask DEF FrontierInv, WalkType, Precedes, Grown
  <2>3. BasicInv'
    BY <1>2, <1>inv, <2>eff, <2>max, <2>nat, <2>ask DEF BasicInv, WalkType, SameBasic, Grown
  <2>4. StateInv'
    BY <1>2, <1>inv, <2>eff, <2>max, <2>nat, <2>ask
       DEF StateInv, WalkType, SameBasic, SameState, Grown
  <2>5. ExtendedInv'
    BY <1>2, <1>inv, <2>eff, <2>max, <2>nat, <2>ask
       DEF ExtendedInv, WalkType, SameBasic, SameExtended, Grown
  <2>6. AllAllowed(machine, raw')
    BY <1>2, <1>inv, <2>eff, <2>max, <2>nat, <2>ask DEF Allowed, BasicInv, WalkType, Grown
  <2>7. DecodedFromRecords'
    BY <1>2, <1>inv, <2>eff, <2>max, <2>nat, <2>ask DEF DecodedFromRecords
  <2>8. Ordered(raw')
    BY <1>2, <1>inv, <2>eff, <2>max, <2>nat, <2>ask DEF WalkType, Grown
  <2> QED
    BY <2>eff, <2>1, <2>2, <2>3, <2>4, <2>5, <2>6, <2>7, <2>8 DEF WalkInv
<1> QED
  BY <1>1, <1>2, <1>inv DEF query_subleaf, Go

\* The state components XCR0 may enable.
LEMMA XstateStep == ASSUME WalkInv, query_xstate PROVE WalkInv'
<1>walk. WalkInv
  OBVIOUS
<1>inv. /\ WalkType /\ Ordered(raw) /\ FrontierInv /\ BasicInv /\ StateInv /\ ExtendedInv
        /\ AllAllowed(machine, raw)
  BY DEF WalkInv
<1> USE DEF VENDOR_LEAF, SIGNATURE_LEAF, STRUCTURED_FEATURES_LEAF, XSTATE_LEAF, HYPERVISOR_LEAF,
       HYPERVISOR_INTERFACE, EXTENDED_LIMIT_LEAF, EXTENDED_FEATURES_LEAF, BRAND_FIRST_LEAF,
       BRAND_LAST_LEAF, ADDRESS_WIDTH_LEAF
<1>1. CASE ~(fingerprint.maximum_basic_leaf >= XSTATE_LEAF /\ fingerprint.xsave)
  <2>eff. /\ at = "xstate" /\ at' = "hypervisor" /\ UNCHANGED <<machine, core>>
          /\ UNCHANGED subleaf /\ DOMAIN fingerprint' = Fields
          /\ UNCHANGED raw
          /\ SameBasic /\ SameState /\ SameExtended
    BY <1>1, <1>inv
       DEF query_xstate, Go, raw, Fields, WalkType, SameBasic, SameState, SameExtended
  <2>1. WalkType'
    BY <1>1, <1>inv, <2>eff DEF WalkType, Stage, SameBasic, SameExtended
  <2>2. FrontierInv'
    BY <1>1, <1>inv, <2>eff, FurtherOn DEF FrontierInv, WalkType, Precedes
  <2>3. BasicInv'
    BY <1>1, <1>inv, <2>eff DEF BasicInv, WalkType, SameBasic
  <2>4. StateInv'
    BY <1>1, <1>inv, <2>eff DEF StateInv, WalkType, SameBasic, SameState
  <2>5. ExtendedInv'
    BY <1>1, <1>inv, <2>eff DEF ExtendedInv, WalkType, SameBasic, SameExtended
  <2>6. AllAllowed(machine, raw')
    BY <1>1, <1>inv, <2>eff DEF Allowed, BasicInv, WalkType
  <2>7. DecodedFromRecords'
    BY <1>1, <1>inv, <2>eff DEF DecodedFromRecords
  <2>8. Ordered(raw')
    BY <1>1, <1>inv, <2>eff DEF WalkType
  <2> QED
    BY <2>eff, <2>1, <2>2, <2>3, <2>4, <2>5, <2>6, <2>7, <2>8 DEF WalkInv
<1>2. CASE fingerprint.maximum_basic_leaf >= XSTATE_LEAF /\ fingerprint.xsave
  <2>eff. /\ at = "xstate" /\ at' = "xss" /\ UNCHANGED <<machine, core>>
          /\ UNCHANGED subleaf /\ DOMAIN fingerprint' = Fields
          /\ raw' = recorded(XSTATE_LEAF, 0)
          /\ fingerprint'.xcr0_supported = <<answer.xcr0_supported>>
          /\ SameBasic /\ SameExtended
          /\ fingerprint'.xss_supported = fingerprint.xss_supported
          /\ fingerprint'.xcr0 = fingerprint.xcr0
    BY <1>2, <1>inv DEF query_xstate, Go, raw, Fields, WalkType, SameBasic, SameExtended
  <2>nat. XSTATE_LEAF \in Nat /\ 0 \in Nat /\ AllBefore(raw, XSTATE_LEAF, 0)
    BY <1>2, <1>inv, <2>eff DEF FrontierInv, WalkType
  <2>ask. Grown(XSTATE_LEAF, 0)
    BY <1>walk, <2>eff, <2>nat, AskStep
  <2>1. WalkType'
    BY <1>2, <1>inv, <2>eff, <2>nat, <2>ask
       DEF WalkType, Stage, SameBasic, SameExtended, Grown, answer
  <2>2. FrontierInv'
    BY <1>2, <1>inv, <2>eff, <2>nat, <2>ask DEF FrontierInv, WalkType, Precedes, Grown, answer
  <2>3. BasicInv'
    BY <1>2, <1>inv, <2>eff, <2>nat, <2>ask DEF BasicInv, WalkType, SameBasic, Grown, answer
  <2>4. StateInv'
    BY <1>2, <1>inv, <2>eff, <2>nat, <2>ask
       DEF StateInv, WalkType, SameBasic, SameState, Grown, answer
  <2>5. ExtendedInv'
    BY <1>2, <1>inv, <2>eff, <2>nat, <2>ask
       DEF ExtendedInv, WalkType, SameBasic, SameExtended, Grown, answer
  <2>6. AllAllowed(machine, raw')
    BY <1>2, <1>inv, <2>eff, <2>nat, <2>ask DEF Allowed, BasicInv, WalkType, Grown, answer
  <2>7. DecodedFromRecords'
    BY <1>2, <1>inv, <2>eff, <2>nat, <2>ask DEF DecodedFromRecords
  <2>8. Ordered(raw')
    BY <1>2, <1>inv, <2>eff, <2>nat, <2>ask DEF WalkType, Grown
  <2> QED
    BY <2>eff, <2>1, <2>2, <2>3, <2>4, <2>5, <2>6, <2>7, <2>8 DEF WalkInv
<1> QED
  BY <1>1, <1>2, <1>inv DEF query_xstate, Go

\* The supervisor state components.
LEMMA XssStep == ASSUME WalkInv, query_xss PROVE WalkInv'
<1>walk. WalkInv
  OBVIOUS
<1>inv. /\ WalkType /\ Ordered(raw) /\ FrontierInv /\ BasicInv /\ StateInv /\ ExtendedInv
        /\ AllAllowed(machine, raw)
  BY DEF WalkInv
<1> USE DEF VENDOR_LEAF, SIGNATURE_LEAF, STRUCTURED_FEATURES_LEAF, XSTATE_LEAF, HYPERVISOR_LEAF,
       HYPERVISOR_INTERFACE, EXTENDED_LIMIT_LEAF, EXTENDED_FEATURES_LEAF, BRAND_FIRST_LEAF,
       BRAND_LAST_LEAF, ADDRESS_WIDTH_LEAF
<1>eff. /\ at = "xss" /\ at' = "component" /\ UNCHANGED <<machine, core>>
        /\ subleaf' = 2 /\ DOMAIN fingerprint' = Fields
        /\ raw' = recorded(XSTATE_LEAF, 1)
        /\ fingerprint'.xss_supported = <<answer.xss_supported>>
        /\ SameBasic /\ SameExtended
        /\ fingerprint'.xcr0_supported = fingerprint.xcr0_supported
        /\ fingerprint'.xcr0 = fingerprint.xcr0
  BY <1>inv DEF query_xss, Go, raw, Fields, WalkType, SameBasic, SameExtended
<1>nat. XSTATE_LEAF \in Nat /\ 1 \in Nat /\ AllBefore(raw, XSTATE_LEAF, 1)
  BY <1>inv, <1>eff DEF FrontierInv, WalkType
<1>ask. Grown(XSTATE_LEAF, 1)
  BY <1>walk, <1>eff, <1>nat, AskStep
<1>1. WalkType'
  BY <1>inv, <1>eff, <1>nat, <1>ask DEF WalkType, Stage, SameBasic, SameExtended, Grown
<1>2. FrontierInv'
  BY <1>inv, <1>eff, <1>nat, <1>ask DEF FrontierInv, WalkType, Precedes, Grown
<1>3. BasicInv'
  BY <1>inv, <1>eff, <1>nat, <1>ask DEF BasicInv, WalkType, SameBasic, Grown
<1>4. StateInv'
  <2>1. fingerprint'.xss_supported[1] \subseteq 0 .. XSTATE_BITS - 1
    BY <1>inv, <1>eff, <1>nat, <1>ask DEF WalkType, AnswersTyped, answer
  <2>2. PICK r \in Of(raw, XSTATE_LEAF, 0) :
               fingerprint.xcr0_supported = <<machine[r.core].xcr0_supported>>
    BY <1>inv, <1>eff, <1>nat, <1>ask DEF StateInv
  <2>3. r \in Of(raw', XSTATE_LEAF, 0)
    BY <1>inv, <1>eff, <1>nat, <1>ask, <2>2 DEF Grown
  <2>4. \A bit \in fingerprint.xcr0_supported[1] : bit \in Nat
    <3>1. r.core \in DOMAIN machine
      BY <1>inv, <2>2, RecordCores DEF WalkType
    <3> QED
      BY <1>inv, <2>2, <3>1 DEF WalkType, AnswersTyped
  <2> QED
    BY <1>inv, <1>eff, <1>nat, <1>ask, <2>1, <2>2, <2>3, <2>4 DEF StateInv, SameBasic, Grown
<1>5. ExtendedInv'
  BY <1>inv, <1>eff, <1>nat, <1>ask DEF ExtendedInv, WalkType, SameBasic, SameExtended, Grown
<1>6. AllAllowed(machine, raw')
  BY <1>inv, <1>eff, <1>nat, <1>ask DEF Allowed, BasicInv, StateInv, WalkType, Grown
<1>7. DecodedFromRecords'
  BY <1>inv, <1>eff, <1>nat, <1>ask DEF DecodedFromRecords
<1>8. Ordered(raw')
  BY <1>inv, <1>eff, <1>nat, <1>ask DEF WalkType, Grown
<1> QED
  BY <1>eff, <1>1, <1>2, <1>3, <1>4, <1>5, <1>6, <1>7, <1>8 DEF WalkInv

\* XGETBV, where the system has enabled it.
LEMMA XgetbvStep == ASSUME WalkInv, query_xgetbv PROVE WalkInv'
<1>walk. WalkInv
  OBVIOUS
<1>inv. /\ WalkType /\ Ordered(raw) /\ FrontierInv /\ BasicInv /\ StateInv /\ ExtendedInv
        /\ AllAllowed(machine, raw)
  BY DEF WalkInv
<1> USE DEF VENDOR_LEAF, SIGNATURE_LEAF, STRUCTURED_FEATURES_LEAF, XSTATE_LEAF, HYPERVISOR_LEAF,
       HYPERVISOR_INTERFACE, EXTENDED_LIMIT_LEAF, EXTENDED_FEATURES_LEAF, BRAND_FIRST_LEAF,
       BRAND_LAST_LEAF, ADDRESS_WIDTH_LEAF
<1>1. CASE fingerprint.osxsave
  <2>eff. /\ at = "xgetbv" /\ at' = "hypervisor" /\ UNCHANGED <<machine, core>>
          /\ UNCHANGED subleaf /\ DOMAIN fingerprint' = Fields
          /\ UNCHANGED raw
          /\ fingerprint'.xcr0 = <<answer.xcr0>>
          /\ SameBasic /\ SameExtended
          /\ fingerprint'.xcr0_supported = fingerprint.xcr0_supported
          /\ fingerprint'.xss_supported = fingerprint.xss_supported
    BY <1>1, <1>inv DEF query_xgetbv, Go, raw, Fields, WalkType, SameBasic, SameExtended
  <2>1. WalkType'
    BY <1>1, <1>inv, <2>eff DEF WalkType, Stage, SameBasic, SameExtended, answer
  <2>2. FrontierInv'
    BY <1>1, <1>inv, <2>eff, FurtherOn DEF FrontierInv, WalkType, Precedes, answer
  <2>3. BasicInv'
    BY <1>1, <1>inv, <2>eff DEF BasicInv, WalkType, SameBasic, answer
  <2>4. StateInv'
    BY <1>1, <1>inv, <2>eff DEF StateInv, BasicInv, SameBasic
  <2>5. ExtendedInv'
    BY <1>1, <1>inv, <2>eff DEF ExtendedInv, WalkType, SameBasic, SameExtended, answer
  <2>6. AllAllowed(machine, raw')
    BY <1>1, <1>inv, <2>eff DEF Allowed, BasicInv, WalkType, answer
  <2>7. DecodedFromRecords'
    BY <1>1, <1>inv, <2>eff DEF DecodedFromRecords
  <2>8. Ordered(raw')
    BY <1>1, <1>inv, <2>eff DEF WalkType
  <2> QED
    BY <2>eff, <2>1, <2>2, <2>3, <2>4, <2>5, <2>6, <2>7, <2>8 DEF WalkInv
<1>2. CASE ~fingerprint.osxsave
  <2>eff. /\ at = "xgetbv" /\ at' = "hypervisor" /\ UNCHANGED <<machine, core>>
          /\ UNCHANGED subleaf /\ DOMAIN fingerprint' = Fields
          /\ UNCHANGED raw
          /\ SameBasic /\ SameState /\ SameExtended
    BY <1>2, <1>inv
       DEF query_xgetbv, Go, raw, Fields, WalkType, SameBasic, SameState, SameExtended
  <2>1. WalkType'
    BY <1>2, <1>inv, <2>eff DEF WalkType, Stage, SameBasic, SameExtended
  <2>2. FrontierInv'
    BY <1>2, <1>inv, <2>eff, FurtherOn DEF FrontierInv, WalkType, Precedes
  <2>3. BasicInv'
    BY <1>2, <1>inv, <2>eff DEF BasicInv, WalkType, SameBasic
  <2>4. StateInv'
    BY <1>2, <1>inv, <2>eff DEF StateInv, WalkType, SameBasic, SameState
  <2>5. ExtendedInv'
    BY <1>2, <1>inv, <2>eff DEF ExtendedInv, WalkType, SameBasic, SameExtended
  <2>6. AllAllowed(machine, raw')
    BY <1>2, <1>inv, <2>eff DEF Allowed, BasicInv, WalkType
  <2>7. DecodedFromRecords'
    BY <1>2, <1>inv, <2>eff DEF DecodedFromRecords
  <2>8. Ordered(raw')
    BY <1>2, <1>inv, <2>eff DEF WalkType
  <2> QED
    BY <2>eff, <2>1, <2>2, <2>3, <2>4, <2>5, <2>6, <2>7, <2>8 DEF WalkInv
<1> QED
  BY <1>1, <1>2, <1>inv DEF query_xgetbv, Go

\* The hypervisor's first leaf, under a hypervisor.
LEMMA HypervisorStep == ASSUME WalkInv, query_hypervisor PROVE WalkInv'
<1>walk. WalkInv
  OBVIOUS
<1>inv. /\ WalkType /\ Ordered(raw) /\ FrontierInv /\ BasicInv /\ StateInv /\ ExtendedInv
        /\ AllAllowed(machine, raw)
  BY DEF WalkInv
<1> USE DEF VENDOR_LEAF, SIGNATURE_LEAF, STRUCTURED_FEATURES_LEAF, XSTATE_LEAF, HYPERVISOR_LEAF,
       HYPERVISOR_INTERFACE, EXTENDED_LIMIT_LEAF, EXTENDED_FEATURES_LEAF, BRAND_FIRST_LEAF,
       BRAND_LAST_LEAF, ADDRESS_WIDTH_LEAF
<1>1. CASE ~fingerprint.hypervisor_present
  <2>eff. /\ at = "hypervisor" /\ at' = "extended" /\ UNCHANGED <<machine, core>>
          /\ UNCHANGED subleaf /\ DOMAIN fingerprint' = Fields
          /\ UNCHANGED raw
          /\ SameBasic /\ SameState /\ SameExtended
    BY <1>1, <1>inv
       DEF query_hypervisor, Go, raw, Fields, WalkType, SameBasic, SameState, SameExtended
  <2>1. WalkType'
    BY <1>1, <1>inv, <2>eff DEF WalkType, Stage, SameBasic, SameExtended
  <2>2. FrontierInv'
    BY <1>1, <1>inv, <2>eff, FurtherOn DEF FrontierInv, WalkType, Precedes
  <2>3. BasicInv'
    BY <1>1, <1>inv, <2>eff DEF BasicInv, WalkType, SameBasic
  <2>4. StateInv'
    BY <1>1, <1>inv, <2>eff DEF StateInv, WalkType, SameBasic, SameState
  <2>5. ExtendedInv'
    BY <1>1, <1>inv, <2>eff DEF ExtendedInv, WalkType, SameBasic, SameExtended
  <2>6. AllAllowed(machine, raw')
    BY <1>1, <1>inv, <2>eff DEF Allowed, BasicInv, WalkType
  <2>7. DecodedFromRecords'
    BY <1>1, <1>inv, <2>eff DEF DecodedFromRecords
  <2>8. Ordered(raw')
    BY <1>1, <1>inv, <2>eff DEF WalkType
  <2> QED
    BY <2>eff, <2>1, <2>2, <2>3, <2>4, <2>5, <2>6, <2>7, <2>8 DEF WalkInv
<1>2. CASE /\ fingerprint.hypervisor_present
          /\ answer.maximum_hypervisor_leaf >= HYPERVISOR_INTERFACE
  <2>eff. /\ at = "hypervisor" /\ at' = "interface" /\ UNCHANGED <<machine, core>>
          /\ UNCHANGED subleaf /\ DOMAIN fingerprint' = Fields
          /\ raw' = recorded(HYPERVISOR_LEAF, 0)
          /\ SameBasic /\ SameState /\ SameExtended
    BY <1>2, <1>inv
       DEF query_hypervisor, Go, raw, Fields, WalkType, SameBasic, SameState, SameExtended
  <2>nat. HYPERVISOR_LEAF \in Nat /\ 0 \in Nat /\ AllBefore(raw, HYPERVISOR_LEAF, 0)
    BY <1>2, <1>inv, <2>eff DEF FrontierInv, WalkType
  <2>ask. Grown(HYPERVISOR_LEAF, 0)
    BY <1>walk, <2>eff, <2>nat, AskStep
  <2>1. WalkType'
    BY <1>2, <1>inv, <2>eff, <2>nat, <2>ask
       DEF WalkType, Stage, SameBasic, SameExtended, Grown, answer, AnswersTyped
  <2>2. FrontierInv'
    BY <1>2, <1>inv, <2>eff, <2>nat, <2>ask
       DEF FrontierInv, WalkType, Precedes, Grown, answer, AnswersTyped
  <2>3. BasicInv'
    BY <1>2, <1>inv, <2>eff, <2>nat, <2>ask
       DEF BasicInv, WalkType, SameBasic, Grown, answer, AnswersTyped
  <2>4. StateInv'
    BY <1>2, <1>inv, <2>eff, <2>nat, <2>ask
       DEF StateInv, WalkType, SameBasic, SameState, Grown, answer, AnswersTyped
  <2>5. ExtendedInv'
    BY <1>2, <1>inv, <2>eff, <2>nat, <2>ask
       DEF ExtendedInv, WalkType, SameBasic, SameExtended, Grown, answer, AnswersTyped
  <2>6. AllAllowed(machine, raw')
    BY <1>2, <1>inv, <2>eff, <2>nat, <2>ask
       DEF Allowed, BasicInv, WalkType, Grown, answer, AnswersTyped
  <2>7. DecodedFromRecords'
    BY <1>2, <1>inv, <2>eff, <2>nat, <2>ask DEF DecodedFromRecords
  <2>8. Ordered(raw')
    BY <1>2, <1>inv, <2>eff, <2>nat, <2>ask DEF WalkType, Grown
  <2> QED
    BY <2>eff, <2>1, <2>2, <2>3, <2>4, <2>5, <2>6, <2>7, <2>8 DEF WalkInv
<1>3. CASE /\ fingerprint.hypervisor_present
          /\ ~(answer.maximum_hypervisor_leaf >= HYPERVISOR_INTERFACE)
  <2>eff. /\ at = "hypervisor" /\ at' = "extended" /\ UNCHANGED <<machine, core>>
          /\ UNCHANGED subleaf /\ DOMAIN fingerprint' = Fields
          /\ raw' = recorded(HYPERVISOR_LEAF, 0)
          /\ SameBasic /\ SameState /\ SameExtended
    BY <1>3, <1>inv
       DEF query_hypervisor, Go, raw, Fields, WalkType, SameBasic, SameState, SameExtended
  <2>nat. HYPERVISOR_LEAF \in Nat /\ 0 \in Nat /\ AllBefore(raw, HYPERVISOR_LEAF, 0)
    BY <1>3, <1>inv, <2>eff DEF FrontierInv, WalkType
  <2>ask. Grown(HYPERVISOR_LEAF, 0)
    BY <1>walk, <2>eff, <2>nat, AskStep
  <2>1. WalkType'
    BY <1>3, <1>inv, <2>eff, <2>nat, <2>ask
       DEF WalkType, Stage, SameBasic, SameExtended, Grown, answer, AnswersTyped
  <2>2. FrontierInv'
    BY <1>3, <1>inv, <2>eff, <2>nat, <2>ask
       DEF FrontierInv, WalkType, Precedes, Grown, answer, AnswersTyped
  <2>3. BasicInv'
    BY <1>3, <1>inv, <2>eff, <2>nat, <2>ask
       DEF BasicInv, WalkType, SameBasic, Grown, answer, AnswersTyped
  <2>4. StateInv'
    BY <1>3, <1>inv, <2>eff, <2>nat, <2>ask
       DEF StateInv, WalkType, SameBasic, SameState, Grown, answer, AnswersTyped
  <2>5. ExtendedInv'
    BY <1>3, <1>inv, <2>eff, <2>nat, <2>ask
       DEF ExtendedInv, WalkType, SameBasic, SameExtended, Grown, answer, AnswersTyped
  <2>6. AllAllowed(machine, raw')
    BY <1>3, <1>inv, <2>eff, <2>nat, <2>ask
       DEF Allowed, BasicInv, WalkType, Grown, answer, AnswersTyped
  <2>7. DecodedFromRecords'
    BY <1>3, <1>inv, <2>eff, <2>nat, <2>ask DEF DecodedFromRecords
  <2>8. Ordered(raw')
    BY <1>3, <1>inv, <2>eff, <2>nat, <2>ask DEF WalkType, Grown
  <2> QED
    BY <2>eff, <2>1, <2>2, <2>3, <2>4, <2>5, <2>6, <2>7, <2>8 DEF WalkInv
<1> QED
  BY <1>1, <1>2, <1>3, <1>inv DEF query_hypervisor, Go

\* The hypervisor's interface.
LEMMA InterfaceStep == ASSUME WalkInv, query_interface PROVE WalkInv'
<1>walk. WalkInv
  OBVIOUS
<1>inv. /\ WalkType /\ Ordered(raw) /\ FrontierInv /\ BasicInv /\ StateInv /\ ExtendedInv
        /\ AllAllowed(machine, raw)
  BY DEF WalkInv
<1> USE DEF VENDOR_LEAF, SIGNATURE_LEAF, STRUCTURED_FEATURES_LEAF, XSTATE_LEAF, HYPERVISOR_LEAF,
       HYPERVISOR_INTERFACE, EXTENDED_LIMIT_LEAF, EXTENDED_FEATURES_LEAF, BRAND_FIRST_LEAF,
       BRAND_LAST_LEAF, ADDRESS_WIDTH_LEAF
<1>eff. /\ at = "interface" /\ at' = "extended" /\ UNCHANGED <<machine, core>>
        /\ UNCHANGED subleaf /\ DOMAIN fingerprint' = Fields
        /\ raw' = recorded(HYPERVISOR_INTERFACE, 0)
        /\ SameBasic /\ SameState /\ SameExtended
  BY <1>inv DEF query_interface, Go, raw, Fields, WalkType, SameBasic, SameState, SameExtended
<1>nat. HYPERVISOR_INTERFACE \in Nat /\ 0 \in Nat /\ AllBefore(raw, HYPERVISOR_INTERFACE, 0)
  BY <1>inv, <1>eff DEF FrontierInv, WalkType
<1>ask. Grown(HYPERVISOR_INTERFACE, 0)
  BY <1>walk, <1>eff, <1>nat, AskStep
<1>1. WalkType'
  BY <1>inv, <1>eff, <1>nat, <1>ask DEF WalkType, Stage, SameBasic, SameExtended, Grown
<1>2. FrontierInv'
  BY <1>inv, <1>eff, <1>nat, <1>ask DEF FrontierInv, WalkType, Precedes, Grown
<1>3. BasicInv'
  BY <1>inv, <1>eff, <1>nat, <1>ask DEF BasicInv, WalkType, SameBasic, Grown
<1>4. StateInv'
  BY <1>inv, <1>eff, <1>nat, <1>ask DEF StateInv, WalkType, SameBasic, SameState, Grown
<1>5. ExtendedInv'
  BY <1>inv, <1>eff, <1>nat, <1>ask DEF ExtendedInv, WalkType, SameBasic, SameExtended, Grown
<1>6. AllAllowed(machine, raw')
  BY <1>inv, <1>eff, <1>nat, <1>ask DEF Allowed, BasicInv, ExtendedInv, Grown
<1>7. DecodedFromRecords'
  BY <1>inv, <1>eff, <1>nat, <1>ask DEF DecodedFromRecords
<1>8. Ordered(raw')
  BY <1>inv, <1>eff, <1>nat, <1>ask DEF WalkType, Grown
<1> QED
  BY <1>eff, <1>1, <1>2, <1>3, <1>4, <1>5, <1>6, <1>7, <1>8 DEF WalkInv

\* The limit of the extended leaves.
LEMMA ExtendedStep == ASSUME WalkInv, query_extended PROVE WalkInv'
<1>walk. WalkInv
  OBVIOUS
<1>inv. /\ WalkType /\ Ordered(raw) /\ FrontierInv /\ BasicInv /\ StateInv /\ ExtendedInv
        /\ AllAllowed(machine, raw)
  BY DEF WalkInv
<1> USE DEF VENDOR_LEAF, SIGNATURE_LEAF, STRUCTURED_FEATURES_LEAF, XSTATE_LEAF, HYPERVISOR_LEAF,
       HYPERVISOR_INTERFACE, EXTENDED_LIMIT_LEAF, EXTENDED_FEATURES_LEAF, BRAND_FIRST_LEAF,
       BRAND_LAST_LEAF, ADDRESS_WIDTH_LEAF
<1>eff. /\ at = "extended" /\ at' = "features" /\ UNCHANGED <<machine, core>>
        /\ UNCHANGED subleaf /\ DOMAIN fingerprint' = Fields
        /\ raw' = recorded(EXTENDED_LIMIT_LEAF, 0)
        /\ fingerprint'.maximum_extended_leaf = answer.maximum_extended_leaf
        /\ SameBasic /\ SameState
        /\ fingerprint'.brand = fingerprint.brand
  BY <1>inv DEF query_extended, Go, raw, Fields, WalkType, SameBasic, SameState
<1>nat. EXTENDED_LIMIT_LEAF \in Nat /\ 0 \in Nat /\ AllBefore(raw, EXTENDED_LIMIT_LEAF, 0)
  BY <1>inv, <1>eff DEF FrontierInv, WalkType
<1>ask. Grown(EXTENDED_LIMIT_LEAF, 0)
  BY <1>walk, <1>eff, <1>nat, AskStep
<1>1. WalkType'
  BY <1>inv, <1>eff, <1>nat, <1>ask
     DEF WalkType, Stage, SameBasic, SameExtended, Grown, AnswersTyped, answer
<1>2. FrontierInv'
  BY <1>inv, <1>eff, <1>nat, <1>ask DEF FrontierInv, WalkType, Precedes, Grown, answer
<1>3. BasicInv'
  BY <1>inv, <1>eff, <1>nat, <1>ask, SMTT(30) DEF BasicInv, WalkType, SameBasic, Grown, answer
<1>4. StateInv'
  BY <1>inv, <1>eff, <1>nat, <1>ask DEF StateInv, WalkType, SameBasic, SameState, Grown, answer
<1>5. ExtendedInv'
  BY <1>inv, <1>eff, <1>nat, <1>ask
     DEF ExtendedInv, WalkType, SameBasic, SameExtended, Grown, answer
<1>6. AllAllowed(machine, raw')
  BY <1>inv, <1>eff, <1>nat, <1>ask DEF Allowed, BasicInv, WalkType, Grown, answer
<1>7. DecodedFromRecords'
  BY <1>inv, <1>eff, <1>nat, <1>ask DEF DecodedFromRecords
<1>8. Ordered(raw')
  BY <1>inv, <1>eff, <1>nat, <1>ask DEF WalkType, Grown
<1> QED
  BY <1>eff, <1>1, <1>2, <1>3, <1>4, <1>5, <1>6, <1>7, <1>8 DEF WalkInv

\* The extended features.
LEMMA FeaturesStep == ASSUME WalkInv, query_features PROVE WalkInv'
<1>walk. WalkInv
  OBVIOUS
<1>inv. /\ WalkType /\ Ordered(raw) /\ FrontierInv /\ BasicInv /\ StateInv /\ ExtendedInv
        /\ AllAllowed(machine, raw)
  BY DEF WalkInv
<1> USE DEF VENDOR_LEAF, SIGNATURE_LEAF, STRUCTURED_FEATURES_LEAF, XSTATE_LEAF, HYPERVISOR_LEAF,
       HYPERVISOR_INTERFACE, EXTENDED_LIMIT_LEAF, EXTENDED_FEATURES_LEAF, BRAND_FIRST_LEAF,
       BRAND_LAST_LEAF, ADDRESS_WIDTH_LEAF
<1>1. CASE ~(fingerprint.maximum_extended_leaf >= EXTENDED_FEATURES_LEAF)
  <2>eff. /\ at = "features" /\ at' = "brand" /\ UNCHANGED <<machine, core>>
          /\ subleaf' = BRAND_FIRST_LEAF /\ DOMAIN fingerprint' = Fields
          /\ UNCHANGED raw
          /\ SameBasic /\ SameState /\ SameExtended
    BY <1>1, <1>inv
       DEF query_features, Go, raw, Fields, WalkType, SameBasic, SameState, SameExtended
  <2>1. WalkType'
    BY <1>1, <1>inv, <2>eff DEF WalkType, Stage, SameBasic, SameExtended
  <2>2. FrontierInv'
    BY <1>1, <1>inv, <2>eff, FurtherOn DEF FrontierInv, WalkType, Precedes
  <2>3. BasicInv'
    BY <1>1, <1>inv, <2>eff DEF BasicInv, WalkType, SameBasic
  <2>4. StateInv'
    BY <1>1, <1>inv, <2>eff DEF StateInv, WalkType, SameBasic, SameState
  <2>5. ExtendedInv'
    <3>1. /\ fingerprint.brand = <<>> /\ machine' = machine
          /\ <<>> \in Seq(Brands(machine)) /\ Len(<<>>) = 0
      BY <1>1, <1>inv, <2>eff DEF ExtendedInv
    <3> QED
      BY <1>1, <1>inv, <2>eff, <3>1 DEF ExtendedInv, WalkType, SameBasic, SameExtended, Grown
  <2>6. AllAllowed(machine, raw')
    BY <1>1, <1>inv, <2>eff DEF Allowed, BasicInv, WalkType
  <2>7. DecodedFromRecords'
    BY <1>1, <1>inv, <2>eff DEF DecodedFromRecords
  <2>8. Ordered(raw')
    BY <1>1, <1>inv, <2>eff DEF WalkType
  <2> QED
    BY <2>eff, <2>1, <2>2, <2>3, <2>4, <2>5, <2>6, <2>7, <2>8 DEF WalkInv
<1>2. CASE fingerprint.maximum_extended_leaf >= EXTENDED_FEATURES_LEAF
  <2>eff. /\ at = "features" /\ at' = "brand" /\ UNCHANGED <<machine, core>>
          /\ subleaf' = BRAND_FIRST_LEAF /\ DOMAIN fingerprint' = Fields
          /\ raw' = recorded(EXTENDED_FEATURES_LEAF, 0)
          /\ SameBasic /\ SameState /\ SameExtended
    BY <1>2, <1>inv
       DEF query_features, Go, raw, Fields, WalkType, SameBasic, SameState, SameExtended
  <2>nat. EXTENDED_FEATURES_LEAF \in Nat /\ 0 \in Nat /\ AllBefore(raw, EXTENDED_FEATURES_LEAF, 0)
    BY <1>2, <1>inv, <2>eff DEF FrontierInv, WalkType
  <2>ask. Grown(EXTENDED_FEATURES_LEAF, 0)
    BY <1>walk, <2>eff, <2>nat, AskStep
  <2>1. WalkType'
    BY <1>2, <1>inv, <2>eff, <2>nat, <2>ask DEF WalkType, Stage, SameBasic, SameExtended, Grown
  <2>2. FrontierInv'
    BY <1>2, <1>inv, <2>eff, <2>nat, <2>ask DEF FrontierInv, WalkType, Precedes, Grown
  <2>3. BasicInv'
    BY <1>2, <1>inv, <2>eff, <2>nat, <2>ask DEF BasicInv, WalkType, SameBasic, Grown
  <2>4. StateInv'
    BY <1>2, <1>inv, <2>eff, <2>nat, <2>ask DEF StateInv, WalkType, SameBasic, SameState, Grown
  <2>5. ExtendedInv'
    <3>1. /\ fingerprint.brand = <<>> /\ machine' = machine
          /\ <<>> \in Seq(Brands(machine)) /\ Len(<<>>) = 0
      BY <1>2, <1>inv, <2>eff, <2>nat, <2>ask DEF ExtendedInv
    <3> QED
      BY <1>2, <1>inv, <2>eff, <2>nat, <2>ask, <3>1
         DEF ExtendedInv, WalkType, SameBasic, SameExtended, Grown
  <2>6. AllAllowed(machine, raw')
    BY <1>2, <1>inv, <2>eff, <2>nat, <2>ask DEF Allowed, ExtendedInv, WalkType, Grown
  <2>7. DecodedFromRecords'
    BY <1>2, <1>inv, <2>eff, <2>nat, <2>ask DEF DecodedFromRecords
  <2>8. Ordered(raw')
    BY <1>2, <1>inv, <2>eff, <2>nat, <2>ask DEF WalkType, Grown
  <2> QED
    BY <2>eff, <2>1, <2>2, <2>3, <2>4, <2>5, <2>6, <2>7, <2>8 DEF WalkInv
<1> QED
  BY <1>1, <1>2, <1>inv DEF query_features, Go

\* The three leaves of the brand.
LEMMA BrandStep == ASSUME WalkInv, query_brand PROVE WalkInv'
<1>walk. WalkInv
  OBVIOUS
<1>inv. /\ WalkType /\ Ordered(raw) /\ FrontierInv /\ BasicInv /\ StateInv /\ ExtendedInv
        /\ AllAllowed(machine, raw)
  BY DEF WalkInv
<1> USE DEF VENDOR_LEAF, SIGNATURE_LEAF, STRUCTURED_FEATURES_LEAF, XSTATE_LEAF, HYPERVISOR_LEAF,
       HYPERVISOR_INTERFACE, EXTENDED_LIMIT_LEAF, EXTENDED_FEATURES_LEAF, BRAND_FIRST_LEAF,
       BRAND_LAST_LEAF, ADDRESS_WIDTH_LEAF
<1>1. CASE ~(fingerprint.maximum_extended_leaf >= BRAND_LAST_LEAF /\ subleaf <= BRAND_LAST_LEAF)
  <2>eff. /\ at = "brand" /\ at' = "width" /\ UNCHANGED <<machine, core>>
          /\ UNCHANGED subleaf /\ DOMAIN fingerprint' = Fields
          /\ UNCHANGED raw
          /\ SameBasic /\ SameState /\ SameExtended
    BY <1>1, <1>inv DEF query_brand, Go, raw, Fields, WalkType, SameBasic, SameState, SameExtended
  <2>1. WalkType'
    BY <1>1, <1>inv, <2>eff DEF WalkType, Stage, SameBasic, SameExtended
  <2>2. FrontierInv'
    BY <1>1, <1>inv, <2>eff, FurtherOn DEF FrontierInv, WalkType, Precedes
  <2>3. BasicInv'
    BY <1>1, <1>inv, <2>eff DEF BasicInv, WalkType, SameBasic
  <2>4. StateInv'
    BY <1>1, <1>inv, <2>eff DEF StateInv, WalkType, SameBasic, SameState
  <2>5. ExtendedInv'
    <3>1. fingerprint.brand # <<>> => Len(fingerprint.brand) = 3
      <4>1. /\ fingerprint.brand \in Seq(Brands(machine))
            /\ Len(fingerprint.brand) = subleaf - 202
            /\ subleaf \in 202 .. 205 /\ fingerprint.maximum_extended_leaf \in Nat
            /\ subleaf > 202 => fingerprint.maximum_extended_leaf >= 204
        BY <1>1, <1>inv, <2>eff DEF ExtendedInv, FrontierInv, WalkType
      <4>2. Len(fingerprint.brand) = 0 => fingerprint.brand = <<>>
        BY <4>1
      <4> QED
        BY <1>1, <4>1, <4>2
    <3> QED
      BY <1>1, <1>inv, <2>eff, <3>1 DEF ExtendedInv, SameBasic, SameExtended
  <2>6. AllAllowed(machine, raw')
    BY <1>1, <1>inv, <2>eff DEF Allowed, BasicInv, WalkType
  <2>7. DecodedFromRecords'
    BY <1>1, <1>inv, <2>eff DEF DecodedFromRecords
  <2>8. Ordered(raw')
    BY <1>1, <1>inv, <2>eff DEF WalkType
  <2> QED
    BY <2>eff, <2>1, <2>2, <2>3, <2>4, <2>5, <2>6, <2>7, <2>8 DEF WalkInv
<1>2. CASE fingerprint.maximum_extended_leaf >= BRAND_LAST_LEAF /\ subleaf <= BRAND_LAST_LEAF
  <2>eff. /\ at = "brand" /\ at' = "brand" /\ UNCHANGED <<machine, core>>
          /\ subleaf' = subleaf + 1 /\ DOMAIN fingerprint' = Fields
          /\ raw' = recorded(subleaf, 0)
          /\ fingerprint'.brand = Append(fingerprint.brand, answer.brand)
          /\ SameBasic /\ SameState
          /\ fingerprint'.maximum_extended_leaf = fingerprint.maximum_extended_leaf
    BY <1>2, <1>inv DEF query_brand, Go, raw, Fields, WalkType, SameBasic, SameState
  <2>sub. subleaf \in 202 .. 204
    BY <1>2, <1>inv, <2>eff DEF FrontierInv
  <2>nat. subleaf \in Nat /\ 0 \in Nat /\ AllBefore(raw, subleaf, 0)
    BY <1>2, <1>inv, <2>eff, <2>sub DEF FrontierInv, WalkType
  <2>ask. Grown(subleaf, 0)
    BY <1>walk, <2>eff, <2>nat, AskStep
  <2>1. WalkType'
    BY <1>2, <1>inv, <2>eff, <2>sub, <2>nat, <2>ask
       DEF WalkType, Stage, SameBasic, SameExtended, Grown, answer
  <2>2. FrontierInv'
    BY <1>2, <1>inv, <2>eff, <2>sub, <2>nat, <2>ask
       DEF FrontierInv, WalkType, Precedes, Grown, answer
  <2>3. BasicInv'
    BY <1>2, <1>inv, <2>eff, <2>sub, <2>nat, <2>ask
       DEF BasicInv, WalkType, SameBasic, Grown, answer
  <2>4. StateInv'
    BY <1>2, <1>inv, <2>eff, <2>sub, <2>nat, <2>ask
       DEF StateInv, WalkType, SameBasic, SameState, Grown, answer
  <2>5. ExtendedInv'
    <3>1. /\ fingerprint.brand \in Seq(Brands(machine)) /\ machine' = machine
          /\ answer.brand \in Brands(machine)
          /\ Len(fingerprint.brand) = subleaf - 202
      BY <1>2, <1>inv, <2>eff, <2>sub, <2>nat, <2>ask DEF ExtendedInv, WalkType, Brands, answer
    <3>2. /\ fingerprint'.brand \in Seq(Brands(machine'))
          /\ Len(fingerprint'.brand) = subleaf' - 202
      BY <2>eff, <2>sub, <3>1
    <3>3. /\ Of(raw', EXTENDED_LIMIT_LEAF, 0) = Of(raw, EXTENDED_LIMIT_LEAF, 0)
          /\ fingerprint'.maximum_extended_leaf >= 204
      BY <1>2, <1>inv, <2>eff, <2>sub, <2>nat, <2>ask DEF Grown, SameExtended
    <3>4. \E x \in Of(raw', EXTENDED_LIMIT_LEAF, 0) :
               fingerprint'.maximum_extended_leaf = machine'[x.core].maximum_extended_leaf
      BY <1>inv, <2>eff, <3>1, <3>3 DEF ExtendedInv
    <3> QED
      BY <2>eff, <3>2, <3>3, <3>4 DEF ExtendedInv
  <2>6. AllAllowed(machine, raw')
    <3>1. PICK x \in Of(raw, EXTENDED_LIMIT_LEAF, 0) :
               fingerprint.maximum_extended_leaf = machine[x.core].maximum_extended_leaf
      BY <1>inv, <2>eff DEF ExtendedInv
    <3>2. /\ x \in Of(raw', EXTENDED_LIMIT_LEAF, 0)
          /\ subleaf <= machine[x.core].maximum_extended_leaf
      BY <1>2, <1>inv, <2>eff, <2>sub, <2>nat, <2>ask, <3>1 DEF Grown, WalkType
    <3>3. Allowed(machine, raw', [ leaf |-> subleaf, subleaf |-> 0, core |-> core ])
      BY <2>sub, <3>2 DEF Allowed
    <3> QED
      BY <2>ask, <3>3 DEF Grown
  <2>7. DecodedFromRecords'
    BY <1>2, <1>inv, <2>eff, <2>sub, <2>nat, <2>ask DEF DecodedFromRecords
  <2>8. Ordered(raw')
    BY <1>2, <1>inv, <2>eff, <2>sub, <2>nat, <2>ask DEF WalkType, Grown
  <2> QED
    BY <2>eff, <2>1, <2>2, <2>3, <2>4, <2>5, <2>6, <2>7, <2>8 DEF WalkInv
<1> QED
  BY <1>1, <1>2, <1>inv DEF query_brand, Go

\* The address widths.
LEMMA WidthStep == ASSUME WalkInv, query_width PROVE WalkInv'
<1>walk. WalkInv
  OBVIOUS
<1>inv. /\ WalkType /\ Ordered(raw) /\ FrontierInv /\ BasicInv /\ StateInv /\ ExtendedInv
        /\ AllAllowed(machine, raw)
  BY DEF WalkInv
<1> USE DEF VENDOR_LEAF, SIGNATURE_LEAF, STRUCTURED_FEATURES_LEAF, XSTATE_LEAF, HYPERVISOR_LEAF,
       HYPERVISOR_INTERFACE, EXTENDED_LIMIT_LEAF, EXTENDED_FEATURES_LEAF, BRAND_FIRST_LEAF,
       BRAND_LAST_LEAF, ADDRESS_WIDTH_LEAF
<1>1. CASE fingerprint.maximum_extended_leaf < ADDRESS_WIDTH_LEAF
  <2>eff. /\ at = "width" /\ at' = "decode" /\ UNCHANGED <<machine, core>>
          /\ UNCHANGED subleaf /\ DOMAIN fingerprint' = Fields
          /\ UNCHANGED raw
          /\ SameBasic /\ SameState /\ SameExtended
    BY <1>1, <1>inv DEF query_width, Go, raw, Fields, WalkType, SameBasic, SameState, SameExtended
  <2>1. WalkType'
    BY <1>1, <1>inv, <2>eff DEF WalkType, Stage, SameBasic, SameExtended
  <2>2. FrontierInv'
    BY <1>1, <1>inv, <2>eff, FurtherOn DEF FrontierInv, WalkType, Precedes
  <2>3. BasicInv'
    BY <1>1, <1>inv, <2>eff DEF BasicInv, WalkType, SameBasic
  <2>4. StateInv'
    BY <1>1, <1>inv, <2>eff DEF StateInv, WalkType, SameBasic, SameState
  <2>5. ExtendedInv'
    BY <1>1, <1>inv, <2>eff DEF ExtendedInv, WalkType, SameBasic, SameExtended
  <2>6. AllAllowed(machine, raw')
    BY <1>1, <1>inv, <2>eff DEF Allowed, BasicInv, WalkType
  <2>7. DecodedFromRecords'
    BY <1>1, <1>inv, <2>eff DEF DecodedFromRecords
  <2>8. Ordered(raw')
    BY <1>1, <1>inv, <2>eff DEF WalkType
  <2> QED
    BY <2>eff, <2>1, <2>2, <2>3, <2>4, <2>5, <2>6, <2>7, <2>8 DEF WalkInv
<1>2. CASE ~(fingerprint.maximum_extended_leaf < ADDRESS_WIDTH_LEAF)
  <2>eff. /\ at = "width" /\ at' = "decode" /\ UNCHANGED <<machine, core>>
          /\ UNCHANGED subleaf /\ DOMAIN fingerprint' = Fields
          /\ raw' = recorded(ADDRESS_WIDTH_LEAF, 0)
          /\ SameBasic /\ SameState /\ SameExtended
    BY <1>2, <1>inv DEF query_width, Go, raw, Fields, WalkType, SameBasic, SameState, SameExtended
  <2>nat. ADDRESS_WIDTH_LEAF \in Nat /\ 0 \in Nat /\ AllBefore(raw, ADDRESS_WIDTH_LEAF, 0)
    BY <1>2, <1>inv, <2>eff DEF FrontierInv, WalkType
  <2>ask. Grown(ADDRESS_WIDTH_LEAF, 0)
    BY <1>walk, <2>eff, <2>nat, AskStep
  <2>1. WalkType'
    BY <1>2, <1>inv, <2>eff, <2>nat, <2>ask DEF WalkType, Stage, SameBasic, SameExtended, Grown
  <2>2. FrontierInv'
    BY <1>2, <1>inv, <2>eff, <2>nat, <2>ask DEF FrontierInv, WalkType, Precedes, Grown
  <2>3. BasicInv'
    BY <1>2, <1>inv, <2>eff, <2>nat, <2>ask DEF BasicInv, WalkType, SameBasic, Grown
  <2>4. StateInv'
    BY <1>2, <1>inv, <2>eff, <2>nat, <2>ask DEF StateInv, WalkType, SameBasic, SameState, Grown
  <2>5. ExtendedInv'
    BY <1>2, <1>inv, <2>eff, <2>nat, <2>ask
       DEF ExtendedInv, WalkType, SameBasic, SameExtended, Grown
  <2>6. AllAllowed(machine, raw')
    BY <1>2, <1>inv, <2>eff, <2>nat, <2>ask DEF Allowed, ExtendedInv, WalkType, Grown
  <2>7. DecodedFromRecords'
    BY <1>2, <1>inv, <2>eff, <2>nat, <2>ask DEF DecodedFromRecords
  <2>8. Ordered(raw')
    BY <1>2, <1>inv, <2>eff, <2>nat, <2>ask DEF WalkType, Grown
  <2> QED
    BY <2>eff, <2>1, <2>2, <2>3, <2>4, <2>5, <2>6, <2>7, <2>8 DEF WalkInv
<1> QED
  BY <1>1, <1>2, <1>inv DEF query_width, Go

\* The state components beyond SSE, each in its turn.
LEMMA ComponentStep == ASSUME WalkInv, query_component PROVE WalkInv'
<1>walk. WalkInv
  OBVIOUS
<1>inv. /\ WalkType /\ Ordered(raw) /\ FrontierInv /\ BasicInv /\ StateInv /\ ExtendedInv
        /\ AllAllowed(machine, raw)
  BY DEF WalkInv
<1> USE DEF VENDOR_LEAF, SIGNATURE_LEAF, STRUCTURED_FEATURES_LEAF, XSTATE_LEAF, HYPERVISOR_LEAF,
       HYPERVISOR_INTERFACE, EXTENDED_LIMIT_LEAF, EXTENDED_FEATURES_LEAF, BRAND_FIRST_LEAF,
       BRAND_LAST_LEAF, ADDRESS_WIDTH_LEAF
<1> DEFINE left == { bit \in fingerprint.xcr0_supported[1] \cup fingerprint.xss_supported[1] :
                        subleaf <= bit /\ bit < XSTATE_BITS }
<1>bits. /\ at = "component" /\ subleaf >= 2 /\ XSTATE_BITS \in Nat
         /\ \A bit \in fingerprint.xcr0_supported[1] : bit \in Nat /\ bit < XSTATE_BITS
         /\ \A bit \in fingerprint.xss_supported[1] : bit \in Nat /\ bit < XSTATE_BITS
  <2>1. at = "component"
    BY DEF query_component
  <2>2. PICK r \in Of(raw, XSTATE_LEAF, 0) :
               fingerprint.xcr0_supported = <<machine[r.core].xcr0_supported>>
    BY <1>inv, <2>1 DEF StateInv
  <2>3. r.core \in DOMAIN machine
    BY <1>inv, <2>2, RecordCores DEF WalkType
  <2>4. machine[r.core].xcr0_supported \subseteq 0 .. XSTATE_BITS - 1
    BY <1>inv, <2>3 DEF WalkType, AnswersTyped
  <2>5. /\ fingerprint.xss_supported[1] \subseteq 0 .. XSTATE_BITS - 1
        /\ fingerprint.xcr0_supported[1] \subseteq 0 .. XSTATE_BITS - 1
    BY <1>inv, <2>1, <2>2, <2>4 DEF StateInv
  <2>6. subleaf >= 2 /\ XSTATE_BITS \in Nat
    BY <1>inv, <2>1, CpuAssumption DEF StateInv
  <2> QED
    BY <2>1, <2>5, <2>6
<1>1. CASE left = {}
  <2>eff. /\ at = "component" /\ at' = "xgetbv" /\ UNCHANGED <<machine, core>>
          /\ UNCHANGED subleaf /\ DOMAIN fingerprint' = Fields
          /\ UNCHANGED raw
          /\ SameBasic /\ SameState /\ SameExtended
    BY <1>1, <1>bits, <1>inv
       DEF query_component, Go, raw, Fields, WalkType, SameBasic, SameState, SameExtended
  <2>1. WalkType'
    BY <1>1, <1>bits, <1>inv, <2>eff DEF WalkType, Stage, SameBasic, SameExtended
  <2>2. FrontierInv'
    BY <1>1, <1>bits, <1>inv, <2>eff, FurtherOn DEF FrontierInv, WalkType, Precedes
  <2>3. BasicInv'
    BY <1>1, <1>bits, <1>inv, <2>eff DEF BasicInv, WalkType, SameBasic
  <2>4. StateInv'
    <3>1. \A bit \in fingerprint.xcr0_supported[1] : bit < subleaf
      BY <1>1, <1>bits, <1>inv DEF WalkType
    <3> QED
      BY <1>1, <1>bits, <1>inv, <2>eff, <3>1 DEF StateInv, SameBasic, SameState
  <2>5. ExtendedInv'
    BY <1>1, <1>bits, <1>inv, <2>eff DEF ExtendedInv, WalkType, SameBasic, SameExtended
  <2>6. AllAllowed(machine, raw')
    BY <1>1, <1>bits, <1>inv, <2>eff DEF Allowed, BasicInv, WalkType
  <2>7. DecodedFromRecords'
    BY <1>1, <1>bits, <1>inv, <2>eff DEF DecodedFromRecords
  <2>8. Ordered(raw')
    BY <1>1, <1>bits, <1>inv, <2>eff DEF WalkType
  <2> QED
    BY <2>eff, <2>1, <2>2, <2>3, <2>4, <2>5, <2>6, <2>7, <2>8 DEF WalkInv
<1>2. CASE left # {}
  <2>pick. PICK bit \in left :
             /\ \A other \in left : bit <= other
             /\ fingerprint' = [ fingerprint EXCEPT !.raw_cpuid = recorded(XSTATE_LEAF, bit) ]
             /\ subleaf' = bit + 1
             /\ Go("component")
    BY <1>2 DEF query_component
  <2>bit. bit \in Nat /\ subleaf <= bit /\ subleaf \in Nat /\ bit >= 2
    BY <1>bits, <1>inv, <2>pick DEF WalkType
  <2>far. AllBefore(raw, XSTATE_LEAF, bit)
    <3>1. AllBefore(raw, XSTATE_LEAF, subleaf)
      BY <1>bits, <1>inv DEF FrontierInv
    <3>2. CASE subleaf = bit
      BY <3>1, <3>2
    <3>3. CASE subleaf # bit
      <4>1. Precedes(XSTATE_LEAF, subleaf, XSTATE_LEAF, bit)
        BY <2>bit, <3>3 DEF Precedes
      <4>2. raw \in Seq(Record(DOMAIN machine)) /\ XSTATE_LEAF \in Nat
        BY <1>inv DEF WalkType
      <4> QED
        BY <2>bit, <3>1, <4>1, <4>2, FurtherOn
    <3> QED
      BY <3>2, <3>3
  <2>eff. /\ at = "component" /\ at' = "component" /\ UNCHANGED <<machine, core>>
          /\ subleaf' = bit + 1 /\ DOMAIN fingerprint' = Fields
          /\ raw' = recorded(XSTATE_LEAF, bit)
          /\ SameBasic /\ SameState /\ SameExtended
    BY <1>2, <1>bits, <2>pick, <1>inv
       DEF recorded, Go, raw, Fields, WalkType, SameBasic, SameState, SameExtended
  <2>nat. XSTATE_LEAF \in Nat /\ bit \in Nat /\ AllBefore(raw, XSTATE_LEAF, bit)
    BY <1>2, <1>bits, <2>pick, <1>inv, <2>eff, <2>bit, <2>far DEF FrontierInv, WalkType
  <2>ask. Grown(XSTATE_LEAF, bit)
    BY <1>walk, <2>eff, <2>nat, AskStep
  <2>1. WalkType'
    BY <1>2, <1>bits, <2>pick, <1>inv, <2>eff, <2>bit, <2>far, <2>nat, <2>ask
       DEF WalkType, Stage, SameBasic, SameExtended, Grown
  <2>2. FrontierInv'
    <3>1. /\ Precedes(XSTATE_LEAF, bit, XSTATE_LEAF, bit + 1)
          /\ bit + 1 \in Nat
          /\ XSTATE_LEAF \in Nat
      BY <2>bit DEF Precedes
    <3>2. AllBefore(raw', XSTATE_LEAF, bit + 1)
      BY <2>ask, <3>1 DEF Grown
    <3> QED
      BY <2>eff, <3>2 DEF FrontierInv
  <2>3. BasicInv'
    BY <1>2, <1>bits, <2>pick, <1>inv, <2>eff, <2>bit, <2>far, <2>nat, <2>ask, SMTT(30)
       DEF BasicInv, WalkType, SameBasic, Grown
  <2>4. StateInv'
    <3>1. PICK r \in Of(raw, XSTATE_LEAF, 0) :
                 fingerprint.xcr0_supported = <<machine[r.core].xcr0_supported>>
      BY <1>inv, <1>bits DEF StateInv
    <3>2. r \in Of(raw', XSTATE_LEAF, 0) /\ machine' = machine
      BY <1>2, <1>bits, <2>pick, <1>inv, <2>eff, <2>bit, <2>far, <2>nat, <2>ask, <3>1 DEF Grown
    <3>3. ASSUME NEW b \in fingerprint.xcr0_supported[1], 2 <= b, b < bit + 1
          PROVE  Of(raw', XSTATE_LEAF, b) # {}
      <4>1. CASE b = bit
        BY <2>ask, <4>1 DEF Grown
      <4>2. CASE b # bit
        <5>1. b < subleaf
          BY <1>bits, <2>pick, <2>bit, <3>3, <4>2
        <5>2. Of(raw, XSTATE_LEAF, b) # {}
          BY <1>inv, <1>bits, <3>3, <5>1 DEF StateInv
        <5> QED
          BY <2>ask, <5>2 DEF Grown
      <4> QED
        BY <4>1, <4>2
    <3>4. Of(raw', SIGNATURE_LEAF, 0) = Of(raw, SIGNATURE_LEAF, 0)
      BY <2>ask DEF Grown
    <3> QED
      BY <1>inv, <1>bits, <2>bit, <2>eff, <3>1, <3>2, <3>3, <3>4
         DEF StateInv, SameBasic, SameState
  <2>5. ExtendedInv'
    BY <1>2, <1>bits, <2>pick, <1>inv, <2>eff, <2>bit, <2>far, <2>nat, <2>ask
       DEF ExtendedInv, WalkType, SameBasic, SameExtended, Grown
  <2>6. AllAllowed(machine, raw')
    BY <1>2, <1>bits, <2>pick, <1>inv, <2>eff, <2>bit, <2>far, <2>nat, <2>ask
       DEF Allowed, BasicInv, StateInv, WalkType, Grown
  <2>7. DecodedFromRecords'
    BY <1>2, <1>bits, <2>pick, <1>inv, <2>eff, <2>bit, <2>far, <2>nat, <2>ask
       DEF DecodedFromRecords
  <2>8. Ordered(raw')
    BY <1>2, <1>bits, <2>pick, <1>inv, <2>eff, <2>bit, <2>far, <2>nat, <2>ask DEF WalkType, Grown
  <2> QED
    BY <2>eff, <2>1, <2>2, <2>3, <2>4, <2>5, <2>6, <2>7, <2>8 DEF WalkInv
<1> QED
  BY <1>1, <1>2

\* find_record finds the one record of a leaf.
LEMMA Found ==
    ASSUME raw \in Seq(Record(DOMAIN machine))
    PROVE  \A l, s : Find(l, s) = Of(raw, l, s)
<1>1. DOMAIN raw = 1 .. Len(raw)
  OBVIOUS
<1> QED
  BY <1>1 DEF Find, Records, Of, raw

\* decode_features, which takes the first record of a leaf, misses none.
LEMMA FeaturesDecoded ==
    ASSUME WalkType, Ordered(raw), NEW f \in CPUID_FEATURES
    PROVE  f.name \in decode_features
             <=> \E r \in Of(raw, f.leaf, f.subleaf) : f.name \in machine[r.core].features
<1> DEFINE Is(j) == raw[j].leaf = f.leaf /\ raw[j].subleaf = f.subleaf
<1>1. DOMAIN raw = 1 .. Len(raw) /\ Len(raw) \in Nat
  BY DEF WalkType
<1>2. f.name \in decode_features <=>
        \E i \in DOMAIN raw : /\ Is(i) /\ \A j \in 1 .. i - 1 : ~Is(j)
                              /\ f.name \in machine[raw[i].core].features
  <2>1. \A g \in CPUID_FEATURES : g.name = f.name => g = f
    BY DEF CPUID_FEATURES
  <2> QED
    BY <2>1 DEF decode_features, raw
<1>3. \A i, j \in 1 .. Len(raw) : Is(i) /\ j < i => ~Is(j)
  <2>1. \A i \in 1 .. Len(raw) : raw[i].leaf \in Nat /\ raw[i].subleaf \in Nat
    BY RecordKey DEF WalkType
  <2> QED
    BY <2>1 DEF Ordered, Precedes
<1>4. \A i \in 1 .. Len(raw) : Is(i) => \A j \in 1 .. i - 1 : ~Is(j)
  <2>1. \A i \in 1 .. Len(raw) : \A j \in 1 .. i - 1 : j \in 1 .. Len(raw) /\ j < i
    BY <1>1
  <2> HIDE DEF Is
  <2> QED
    BY <1>3, <2>1
<1>5. \A r : r \in Of(raw, f.leaf, f.subleaf) <=> \E i \in 1 .. Len(raw) : r = raw[i] /\ Is(i)
  BY DEF Of
<1> HIDE DEF Is
<1> QED
  BY <1>1, <1>2, <1>4, <1>5

\* What the decoded fields say, once they are filled in.
DecodedIs(m, f) ==
    /\ \A g \in CPUID_FEATURES :
         g.name \in f.cpuid_features
           <=> \E r \in Of(f.raw_cpuid, g.leaf, g.subleaf) : g.name \in m[r.core].features
    /\ f.hypervisor_present
         <=> \E r \in Of(f.raw_cpuid, SIGNATURE_LEAF, 0) : m[r.core].hypervisor_present
    /\ f.signature # <<>> =>
         \E v \in Of(f.raw_cpuid, VENDOR_LEAF, 0), s \in Of(f.raw_cpuid, SIGNATURE_LEAF, 0) :
             f.signature[1] = decode_signature(m[v.core].vendor, m[s.core].signature)
    /\ \A bit \in f.enabled_xstate :
         /\ bit \in f.xcr0[1]
         /\ \E r \in Of(f.raw_cpuid, XSTATE_LEAF, 0) : bit \in m[r.core].xcr0_supported
         /\ bit >= 2 => Of(f.raw_cpuid, XSTATE_LEAF, bit) # {}
    /\ f.brand # <<>> => Len(f.brand) = 3

\* DecodedIs is DecodedFromRecords with the records looked up in the list itself.
LEMMA DecodedFields ==
    ASSUME raw \in Seq(Record(DOMAIN machine)), DecodedIs(machine, fingerprint)
    PROVE  DecodedFromRecords
<1>1. \A l, s : Find(l, s) = Of(fingerprint.raw_cpuid, l, s)
  BY Found DEF raw
<1> QED
  BY <1>1, Zenon DEF DecodedFromRecords, DecodedIs

\* The decoded fields are filled in.
LEMMA DecodeStep == ASSUME WalkInv, Decode PROVE WalkInv'
<1>walk. WalkInv
  OBVIOUS
<1>inv. /\ WalkType /\ Ordered(raw) /\ FrontierInv /\ BasicInv /\ StateInv /\ ExtendedInv
        /\ AllAllowed(machine, raw)
  BY DEF WalkInv
<1> USE DEF VENDOR_LEAF, SIGNATURE_LEAF, STRUCTURED_FEATURES_LEAF, XSTATE_LEAF, HYPERVISOR_LEAF,
       HYPERVISOR_INTERFACE, EXTENDED_LIMIT_LEAF, EXTENDED_FEATURES_LEAF, BRAND_FIRST_LEAF,
       BRAND_LAST_LEAF, ADDRESS_WIDTH_LEAF
<1>eff. /\ at = "decode" /\ at' = "ready" /\ UNCHANGED <<machine, core>>
        /\ UNCHANGED subleaf /\ DOMAIN fingerprint' = Fields
        /\ UNCHANGED raw
        /\ SameBasic /\ SameState /\ SameExtended
  BY <1>inv DEF Decode, Go, raw, Fields, WalkType, SameBasic, SameState, SameExtended
<1>1. WalkType'
  BY <1>inv, <1>eff DEF WalkType, Stage, SameBasic, SameExtended
<1>2. FrontierInv'
  BY <1>inv, <1>eff, FurtherOn DEF FrontierInv, WalkType, Precedes
<1>3. BasicInv'
  BY <1>inv, <1>eff DEF BasicInv, WalkType, SameBasic
<1>4. StateInv'
  BY <1>inv, <1>eff DEF StateInv, WalkType, SameBasic, SameState
<1>5. ExtendedInv'
  BY <1>inv, <1>eff DEF ExtendedInv, WalkType, SameBasic, SameExtended
<1>6. AllAllowed(machine, raw')
  BY <1>inv, <1>eff DEF Allowed, BasicInv, WalkType
<1>7. DecodedFromRecords'
  <2>1. /\ fingerprint'.cpuid_features = decode_features /\ machine' = machine
        /\ fingerprint'.enabled_xstate = decode_enabled_xstate
    BY <1>inv, <1>eff DEF Decode, WalkType, Fields
  <2>2. fingerprint'.raw_cpuid = raw /\ raw' = raw
    BY <1>eff DEF raw
  <2>3. \A g \in CPUID_FEATURES :
          g.name \in fingerprint'.cpuid_features
            <=> \E r \in Of(raw, g.leaf, g.subleaf) : g.name \in machine[r.core].features
    BY <1>inv, <2>1, FeaturesDecoded
  <2>4. ASSUME NEW bit \in decode_enabled_xstate
        PROVE  /\ bit \in fingerprint'.xcr0[1]
               /\ \E r \in Of(raw, XSTATE_LEAF, 0) : bit \in machine[r.core].xcr0_supported
               /\ bit >= 2 => Of(raw, XSTATE_LEAF, bit) # {}
    <3>1. /\ fingerprint.xcr0_supported # <<>>
          /\ bit \in fingerprint.xcr0_supported[1] /\ bit \in fingerprint.xcr0[1]
      BY <2>4 DEF decode_enabled_xstate
    <3>2. PICK r \in Of(raw, XSTATE_LEAF, 0) :
                 fingerprint.xcr0_supported = <<machine[r.core].xcr0_supported>>
      BY <1>inv, <3>1 DEF StateInv
    <3>3. bit \in Nat
      <4>1. r.core \in DOMAIN machine
        BY <1>inv, <3>2, RecordCores DEF WalkType
      <4> QED
        BY <1>inv, <3>1, <3>2, <4>1, CpuAssumption DEF WalkType, AnswersTyped
    <3>4. bit >= 2 => Of(raw, XSTATE_LEAF, bit) # {}
      BY <1>inv, <1>eff, <3>1, <3>3 DEF StateInv
    <3> QED
      BY <1>eff, <3>1, <3>2, <3>4 DEF SameState
  <2>5. DecodedIs(machine', fingerprint')
    <3>1. /\ fingerprint.hypervisor_present
               <=> \E r \in Of(raw, SIGNATURE_LEAF, 0) : machine[r.core].hypervisor_present
          /\ fingerprint.signature # <<>> =>
               \E v \in Of(raw, VENDOR_LEAF, 0), s \in Of(raw, SIGNATURE_LEAF, 0) :
                   fingerprint.signature[1] =
                       decode_signature(machine[v.core].vendor, machine[s.core].signature)
          /\ fingerprint.brand # <<>> => Len(fingerprint.brand) = 3
      BY <1>inv, <1>eff DEF BasicInv, ExtendedInv
    <3>2. /\ fingerprint'.hypervisor_present = fingerprint.hypervisor_present
          /\ fingerprint'.signature = fingerprint.signature
          /\ fingerprint'.brand = fingerprint.brand
      BY <1>eff DEF SameBasic, SameExtended
    <3> QED
      BY <2>1, <2>2, <2>3, <2>4, <3>1, <3>2 DEF DecodedIs
  <2>6. raw' \in Seq(Record(DOMAIN machine'))
    BY <1>inv, <2>1, <2>2 DEF WalkType
  <2>7. (raw \in Seq(Record(DOMAIN machine)) /\ DecodedIs(machine, fingerprint)
           => DecodedFromRecords)'
    BY DecodedFields, PTL
  <2> QED
    BY <2>5, <2>6, <2>7
<1>8. Ordered(raw')
  BY <1>inv, <1>eff DEF WalkType
<1> QED
  BY <1>eff, <1>1, <1>2, <1>3, <1>4, <1>5, <1>6, <1>7, <1>8 DEF WalkInv

-----------------------------------------------------------------------------
(* The whole walk.                                                         *)

\* Before the static is initialized.
LEMMA WalkInit ==
    ASSUME NEW m, CpuInit(m), AnswersTyped(m)
    PROVE  WalkInv
<1>1. /\ machine = m /\ core \in DOMAIN m /\ at = "unqueried" /\ subleaf = 0
      /\ fingerprint = NoFingerprint
  BY DEF CpuInit
<1>2. /\ DOMAIN fingerprint = Fields /\ raw = <<>>
      /\ fingerprint.maximum_basic_leaf = 0 /\ fingerprint.maximum_extended_leaf = 0
      /\ fingerprint.hypervisor_present = FALSE /\ fingerprint.osxsave = FALSE
      /\ fingerprint.signature = <<>> /\ fingerprint.xcr0_supported = <<>>
      /\ fingerprint.xcr0 = <<>> /\ fingerprint.brand = <<>>
  BY <1>1 DEF NoFingerprint, raw, Fields
<1>3. raw \in Seq(Record(DOMAIN machine)) /\ Len(raw) = 0
  BY <1>2
<1>4. Ordered(raw) /\ AllAllowed(machine, raw) /\ \A l, s : AllBefore(raw, l, s)
  BY <1>3 DEF Ordered, AllAllowed, AllBefore
<1>5. \A l, s : Of(raw, l, s) = {}
  BY <1>3 DEF Of
<1>6. WalkType
  BY <1>1, <1>2, <1>3 DEF WalkType, Stage
<1>7. FrontierInv
  BY <1>1, <1>4 DEF FrontierInv
<1>8. BasicInv
  BY <1>1, <1>2, <1>5 DEF BasicInv
<1>9. StateInv
  BY <1>1, <1>2 DEF StateInv
<1>10. ExtendedInv
  BY <1>1, <1>2 DEF ExtendedInv
<1>11. DecodedFromRecords
  BY <1>1 DEF DecodedFromRecords
<1> QED
  BY <1>4, <1>6, <1>7, <1>8, <1>9, <1>10, <1>11 DEF WalkInv

\* Whatever changes neither the machine nor the records.
LEMMA WalkSame ==
    ASSUME WalkInv, UNCHANGED <<machine, subleaf, fingerprint>>, core' \in DOMAIN machine,
           at' = at \/ (at = "unqueried" /\ at' = "vendor")
    PROVE  WalkInv'
<1>1. UNCHANGED raw
  BY DEF raw
<1>2. WalkType'
  BY <1>1 DEF WalkInv, WalkType, Stage
<1>3. FrontierInv'
  BY <1>1 DEF WalkInv, FrontierInv
<1>4. BasicInv'
  BY <1>1 DEF WalkInv, BasicInv
<1>5. StateInv'
  BY <1>1 DEF WalkInv, StateInv
<1>6. ExtendedInv'
  BY <1>1 DEF WalkInv, ExtendedInv
<1>7. DecodedFromRecords'
  <2>1. CASE at' = at
    BY <1>1, <2>1 DEF WalkInv, DecodedFromRecords, Find, Records
  <2>2. CASE at' = "vendor"
    BY <2>2 DEF DecodedFromRecords
  <2> QED
    BY <2>1, <2>2
<1> QED
  BY <1>1, <1>2, <1>3, <1>4, <1>5, <1>6, <1>7 DEF WalkInv

\* Every query, and every move of the thread between two of them.
LEMMA WalkStep == WalkInv /\ (Query \/ Migrate \/ UNCHANGED cpuvars) => WalkInv'
<1> SUFFICES ASSUME WalkInv, Query \/ Migrate \/ UNCHANGED cpuvars PROVE WalkInv'
  OBVIOUS
<1>1. CASE Query
  BY <1>1, VendorStep, SignatureStep, StructuredStep, SubleafStep, XstateStep, XssStep,
     ComponentStep, XgetbvStep, HypervisorStep, InterfaceStep, ExtendedStep, FeaturesStep,
     BrandStep, WidthStep, DecodeStep DEF Query
<1>2. CASE Migrate
  BY <1>2, WalkSame DEF Migrate
<1>3. CASE UNCHANGED cpuvars
  <2>1. core \in DOMAIN machine
    BY DEF WalkInv, WalkType
  <2> QED
    BY <1>3, <2>1, WalkSame DEF cpuvars
<1> QED
  BY <1>1, <1>2, <1>3

\* The invariant is what a reader of the fingerprint relies on.
LEMMA WalkSound == WalkInv => FingerprintSound
<1> SUFFICES ASSUME WalkInv PROVE FingerprintSound
  OBVIOUS
<1>1. /\ raw \in Seq(Record(DOMAIN machine)) /\ Ordered(raw) /\ AllAllowed(machine, raw)
      /\ StateInv /\ DecodedFromRecords
  BY DEF WalkInv, WalkType
<1>2. DOMAIN raw = 1 .. Len(raw) /\ Len(raw) \in Nat
  BY <1>1
<1>3. RecordsSorted
  BY <1>1, <1>2 DEF RecordsSorted, Ordered, Precedes, raw
<1>4. QueriesAllowed
  <2>1. \A l, s : Find(l, s) = Of(raw, l, s)
    BY <1>1, Found
  <2>2. \A r \in Records : Allowed(machine, raw, r)
    BY <1>1, <1>2 DEF Records, AllAllowed, raw
  <2>3. fingerprint.xcr0 # <<>> => \E s \in Find(SIGNATURE_LEAF, 0) : machine[s.core].osxsave
    BY <1>1, <2>1 DEF StateInv
  <2> QED
    BY <2>1, <2>2, <2>3, Zenon DEF QueriesAllowed, Allowed
<1> QED
  BY <1>1, <1>3, <1>4 DEF FingerprintSound

-----------------------------------------------------------------------------
(* The platform's slot.                                                    *)

\* The request lets something be executed.
Executable ==
    /\ request.size > 0
    /\ HasTarget(request) => request.stop_offset < request.size
    /\ request.stop_offset # 0

SlotType ==
    /\ request \in Request
    /\ steps \in Seq(PlatformStep)
    /\ outcome \in Outcome \cup {"None"}
    /\ address \in Address

\* What holds of a run of the platform from its start to its outcome.
SlotInv ==
    /\ Chained(steps)
    /\ NeverOverran(request, steps)
    /\ Len(steps) <= EffectiveMaxSteps(request)
    /\ outcome = "None" => IF Executable THEN Open(request, steps) ELSE steps = <<>>
    /\ outcome # "None" => Justified(request, steps, outcome, address)

\* The contract's vocabulary is the engine's.
LEMMA RunVocabulary ==
    /\ Run!Address = Address
    /\ Run!Request = Request
    /\ \A s : Run!Position(s) = Position(s)
    /\ \A q : Run!HasTarget(q) <=> HasTarget(q)
    /\ \A q, a : Run!InCode(q, a) <=> InCode(q, a)
    /\ \A q : Run!EffectiveMaxSteps(q) = EffectiveMaxSteps(q)
  BY DEF Address, Request, Position, Last, HasTarget, NoOffset, InCode, EffectiveMaxSteps,
         Run!Address, Run!Request, Run!Position, Run!Last, Run!HasTarget, Run!NoOffset,
         Run!InCode, Run!EffectiveMaxSteps

\* A slot that has just been taken.
LEMMA FreshSlot ==
    ASSUME request \in Request, steps = <<>>, outcome = "None"
    PROVE  SlotInv
<1>1. Len(steps) = 0 /\ EffectiveMaxSteps(request) \in Nat
  BY CapPositive
<1> QED
  BY <1>1, EmptyRecord DEF SlotInv, Executable

\* Recording one instruction.
LEMMA CompleteStep ==
    ASSUME SlotType, SlotInv, NEW next \in Address, Run!Complete(next)
    PROVE  (SlotType /\ SlotInv)'
<1> DEFINE step == [rip |-> Position(steps), next |-> next, faulted |-> FALSE]
<1>1. Executable /\ outcome = "None" /\ Open(request, steps)
  BY RunVocabulary DEF Run!Complete, Run!Executing, Run!Running, Run!Accepted, Executable, SlotInv
<1>2. steps' = Append(steps, step) /\ UNCHANGED request
  BY RunVocabulary DEF Run!Complete
<1>3. Position(steps) \in Address
  BY PositionType DEF SlotType
<1>4. step \in PlatformStep /\ ~step.faulted /\ step.rip = Position(steps) /\ step.next = next
  BY <1>3 DEF PlatformStep
<1> HIDE DEF step
<1>5. /\ steps' \in Seq(PlatformStep) /\ Len(steps') = Len(steps) + 1 /\ Len(steps) \in Nat
      /\ \A i \in 1 .. Len(steps) : steps'[i] = steps[i]
      /\ steps'[Len(steps) + 1] = step /\ Position(steps') = next
  BY <1>2, <1>4, AppendedStep DEF SlotType
<1>6. Chained(steps') /\ NeverOverran(request, steps')
  BY <1>1, <1>2, <1>4, RecordedStep DEF SlotType, SlotInv
<1>7. \A i \in 1 .. Len(steps') : ~steps'[i].faulted
  BY <1>1, <1>4, <1>5 DEF Open
<1>8. EffectiveMaxSteps(request) \in Nat \ {0} /\ Len(steps) < EffectiveMaxSteps(request)
  BY <1>1, CapPositive DEF SlotType, Open
<1>9. \/ /\ HasTarget(request) /\ next = request.stop_offset
         /\ outcome' = "Stopped" /\ address' = next
      \/ /\ ~InCode(request, next) /\ outcome' = "Finished" /\ UNCHANGED address
      \/ /\ InCode(request, next) /\ (HasTarget(request) => next # request.stop_offset)
         /\ Len(steps) + 1 = EffectiveMaxSteps(request)
         /\ outcome' = "AbortedCap" /\ UNCHANGED address
      \/ /\ InCode(request, next) /\ (HasTarget(request) => next # request.stop_offset)
         /\ Len(steps) + 1 < EffectiveMaxSteps(request)
         /\ UNCHANGED <<outcome, address>>
  BY RunVocabulary DEF Run!Complete
<1>10. SlotType'
  BY <1>2, <1>5, <1>9 DEF SlotType, Outcome
<1>11. outcome' # "None" => Justified(request, steps', outcome', address')
  <2>1. CASE outcome' = "Stopped"
    BY <1>1, <1>5, <1>7, <1>9, <2>1 DEF Justified
  <2>2. CASE outcome' = "Finished"
    BY <1>1, <1>5, <1>9, <2>2 DEF Justified
  <2>3. CASE outcome' = "AbortedCap"
    BY <1>1, <1>5, <1>9, <2>3 DEF Justified
  <2> QED
    BY <1>1, <1>9, <2>1, <2>2, <2>3
<1>12. outcome' = "None" => Open(request, steps')
  BY <1>1, <1>5, <1>7, <1>9 DEF Open
<1>13. Executable'
  BY <1>1, <1>2 DEF Executable
<1> QED
  BY <1>2, <1>5, <1>6, <1>8, <1>10, <1>11, <1>12, <1>13 DEF SlotInv

\* Recording the fault that ends a run.
LEMMA FaultStep ==
    ASSUME SlotType, SlotInv, NEW rip \in Address, Run!Fault(rip)
    PROVE  (SlotType /\ SlotInv)'
<1> DEFINE step == [rip |-> rip, next |-> rip, faulted |-> TRUE]
<1>1. Executable /\ outcome = "None" /\ Open(request, steps)
  BY RunVocabulary DEF Run!Fault, Run!Executing, Run!Running, Run!Accepted, Executable, SlotInv
<1>2. /\ steps' = Append(steps, step) /\ UNCHANGED request
      /\ outcome' = "Faulted" /\ address' = rip
  BY DEF Run!Fault
<1>3. step \in PlatformStep /\ step.faulted /\ step.rip = rip
  BY DEF PlatformStep
<1> HIDE DEF step
<1>4. /\ steps' \in Seq(PlatformStep) /\ Len(steps') = Len(steps) + 1 /\ Len(steps) \in Nat
      /\ Last(steps') = step
  BY <1>2, <1>3, AppendedStep DEF SlotType
<1>5. Chained(steps') /\ NeverOverran(request, steps')
  BY <1>1, <1>2, <1>3, RecordedStep DEF SlotType, SlotInv
<1>6. EffectiveMaxSteps(request) \in Nat /\ Len(steps) + 1 <= EffectiveMaxSteps(request)
  BY <1>1, <1>4, CapPositive DEF SlotType, Open
<1>7. Justified(request, steps', outcome', address')
  BY <1>2, <1>3, <1>4, <1>6 DEF Justified
<1> QED
  BY <1>2, <1>4, <1>5, <1>6, <1>7 DEF SlotInv, SlotType, Outcome

\* Every step of the contract keeps the slot sound.
LEMMA SlotStep ==
    ASSUME SlotType, SlotInv, Run!Next
    PROVE  (SlotType /\ SlotInv)'
<1> USE DEF Run!Running, Run!Accepted, Run!Executing
<1>1. CASE Run!Refuse
  <2>1. /\ outcome' = "Idle" /\ request.size = 0 /\ steps = <<>>
        /\ UNCHANGED <<request, steps, address>>
    BY <1>1 DEF Run!Refuse, SlotInv, Executable
  <2>2. Justified(request, steps, "Idle", address)
    BY <2>1 DEF Justified
  <2> QED
    BY <2>1, <2>2 DEF SlotType, SlotInv, Outcome
<1>2. CASE Run!Fail
  <2>1. Justified(request, steps, "Error", address')
    BY DEF Justified
  <2> QED
    BY <1>2, <2>1, RunVocabulary DEF Run!Fail, SlotType, SlotInv, Outcome
<1>3. CASE Run!StopAtEntry
  <2>1. /\ outcome' = "Stopped" /\ request.stop_offset = 0 /\ steps = <<>> /\ address' = 0
        /\ UNCHANGED <<request, steps>>
    BY <1>3 DEF Run!StopAtEntry, SlotInv, Executable
  <2>2. Justified(request, steps, "Stopped", 0)
    BY <2>1, EmptyRecord DEF Justified, HasTarget, NoOffset, SlotType
  <2>3. 0 \in Address
    BY PlatformAssumption DEF Address
  <2> QED
    BY <2>1, <2>2, <2>3 DEF SlotType, SlotInv, Outcome
<1>4. CASE \E next \in Address : Run!Complete(next)
  BY <1>4, CompleteStep
<1>5. CASE Run!Breakpoint
  <2>1. Executable /\ outcome = "None" /\ Open(request, steps)
    BY <1>5, RunVocabulary DEF Run!Breakpoint, Executable, SlotInv
  <2>2. /\ outcome' = "Stopped" /\ address' = Position(steps) /\ Position(steps) \in request.int3
        /\ UNCHANGED <<request, steps>>
    BY <1>5, RunVocabulary DEF Run!Breakpoint
  <2>3. Justified(request, steps, "Stopped", Position(steps))
    BY <2>1, <2>2 DEF Justified, Open
  <2>4. Position(steps) \in Address
    BY PositionType DEF SlotType
  <2> QED
    BY <2>2, <2>3, <2>4 DEF SlotType, SlotInv, Outcome
<1>6. CASE \E rip \in Address : Run!Fault(rip)
  BY <1>6, FaultStep
<1> QED
  BY <1>1, <1>2, <1>3, <1>4, <1>5, <1>6, RunVocabulary DEF Run!Next

-----------------------------------------------------------------------------
(* The callers.                                                            *)

\* The request as run_engine passes it on.
Clamped(r) == [ r EXCEPT !.max_steps = EffectiveMaxSteps(r) ]

\* Whoever runs, or is blocked in its run, holds the mutex, and the slot is the run
\* it asked for.
OwnerInv ==
    \A c \in Callers :
        pc[c] \in {"run", "blocked"} => mutex = c /\ request = Clamped(wanted[c]) /\ SlotInv

\* TraceExplained for one request and one trace.
Explains(t, r) ==
    t.outcome \notin {"Idle", "Error"} =>
        LET where == IF t.stop_address = NoAddress THEN 0 ELSE t.stop_address
            end   == Position(t.events)
        IN  /\ Chained(t.events)
            /\ NeverOverran(r, t.events)
            /\ Justified(r, t.events, t.outcome, where)
            /\ t.executed <= EffectiveMaxSteps(r)
            /\ t.stop_reason = "end_of_input" => end = r.size
            /\ t.stop_reason = "left_input" => end # r.size
            /\ t.stop_reason = "int3" => t.stop_address \in r.int3
            /\ t.stop_reason = "selected_row" => t.stop_address = r.stop_offset

\* What the callers that have returned got.
TraceInv == \A c \in Callers : pc[c] = "returned" => Explains(trace[c], wanted[c])

EngineInv == TypeOK /\ OwnerInv /\ TraceInv

\* Clamping the cap twice is clamping it once, and changes nothing else.
LEMMA ClampedOnce ==
    ASSUME NEW r \in Request
    PROVE  /\ Clamped(r) \in Request
           /\ EffectiveMaxSteps(Clamped(r)) = EffectiveMaxSteps(r)
           /\ Clamped(r).size = r.size /\ Clamped(r).int3 = r.int3
           /\ Clamped(r).stop_offset = r.stop_offset
<1>1. /\ Clamped(r).max_steps = EffectiveMaxSteps(r)
      /\ Clamped(r).size = r.size /\ Clamped(r).int3 = r.int3
      /\ Clamped(r).stop_offset = r.stop_offset
  BY DEF Clamped, Request
<1>2. EffectiveMaxSteps(r) \in 0 .. MaxRequest
  BY PlatformAssumption, EngineAssumption DEF EffectiveMaxSteps, Request
<1>3. Clamped(r) \in Request
  BY <1>2 DEF Clamped, Request
<1>4. EffectiveMaxSteps(Clamped(r)) = EffectiveMaxSteps(r)
  BY <1>1, PlatformAssumption DEF EffectiveMaxSteps, Request
<1> QED
  BY <1>1, <1>3, <1>4

\* What a run that has an outcome makes of its slot explains the request.
LEMMA ResultExplains ==
    ASSUME SlotType, SlotInv, outcome # "None", NEW r \in Request, request = Clamped(r)
    PROVE  result_trace \in Trace /\ Explains(result_trace, r)
<1> DEFINE t == result_trace
<1>1. /\ EffectiveMaxSteps(request) = EffectiveMaxSteps(r)
      /\ request.size = r.size /\ request.int3 = r.int3
      /\ request.stop_offset = r.stop_offset
      /\ EffectiveMaxSteps(r) \in Nat
  BY ClampedOnce, CapPositive
<1>2. CASE outcome \in {"Idle", "Error"}
  <2>1. t = [ NoTrace EXCEPT !.outcome = outcome ]
    BY <1>2 DEF result_trace
  <2>2. <<>> \in Seq(PlatformStep)
    OBVIOUS
  <2> QED
    BY <1>2, <2>1, <2>2 DEF NoTrace, Trace, Explains, StopReason, Outcome
<1>3. CASE outcome \notin {"Idle", "Error"}
  <2>1. /\ t.outcome = outcome /\ t.events = steps /\ t.executed = Len(Completed(steps))
        /\ t.stop_address = IF outcome \in {"Stopped", "Faulted"} THEN address ELSE NoAddress
        /\ t.stop_reason = CASE outcome = "Stopped"    -> IF stopped_at_target THEN "selected_row"
                                                          ELSE "int3"
                             [] outcome = "Faulted"    -> "fault"
                             [] outcome = "AbortedCap" -> "cap"
                             [] outcome = "Finished"   -> finish_reason(Position(steps))
        /\ t = [ outcome |-> t.outcome, events |-> t.events, executed |-> t.executed,
                 stop_reason |-> t.stop_reason, stop_address |-> t.stop_address ]
    BY <1>3 DEF result_trace
  <2> HIDE DEF t
  <2>2. outcome \in {"Stopped", "Faulted", "AbortedCap", "Finished"}
    BY <1>3 DEF SlotType, Outcome
  <2>3. Completed(steps) \in Seq(PlatformStep) /\ Len(Completed(steps)) <= Len(steps)
    <3>1. \A i \in 1 .. Len(steps) : steps[i].faulted => i = Len(steps)
      BY DEF SlotInv, Chained
    <3> QED
      BY <3>1, CompletedRecord DEF SlotType
  <2>4. t.executed \in Nat /\ t.executed <= EffectiveMaxSteps(r)
    BY <1>1, <2>1, <2>3 DEF SlotInv, SlotType
  <2>5. Chained(t.events) /\ NeverOverran(r, t.events)
    BY <1>1, <2>1 DEF SlotInv, NeverOverran, InCode, HasTarget
  <2>6. t.stop_address \in Address \cup {NoAddress}
    BY <2>1 DEF SlotType
  <2>7. t.stop_reason \in StopReason
    BY <2>1, <2>2 DEF StopReason, finish_reason
  <2>8. outcome \in {"Stopped", "Faulted"} => t.stop_address = address /\ address # NoAddress
    BY <2>1, PlatformAssumption DEF SlotType, Address, NoAddress
  <2>9. Justified(r, t.events, t.outcome, IF t.stop_address = NoAddress THEN 0 ELSE t.stop_address)
    <3>1. Justified(request, steps, outcome, address)
      BY DEF SlotInv
    <3>2. CASE outcome = "Stopped"
      BY <1>1, <2>1, <2>8, <3>1, <3>2 DEF Justified, HasTarget
    <3>3. CASE outcome = "Faulted"
      BY <1>1, <2>1, <2>8, <3>1, <3>3 DEF Justified
    <3>4. CASE outcome = "AbortedCap"
      BY <1>1, <2>1, <3>1, <3>4 DEF Justified, InCode, HasTarget
    <3>5. CASE outcome = "Finished"
      BY <1>1, <2>1, <3>1, <3>5 DEF Justified, InCode
    <3> QED
      BY <2>2, <3>2, <3>3, <3>4, <3>5
  <2>10. /\ t.stop_reason = "end_of_input" => Position(t.events) = r.size
         /\ t.stop_reason = "left_input" => Position(t.events) # r.size
    BY <1>1, <2>1, <2>2 DEF finish_reason
  <2>11. /\ t.stop_reason = "int3" => t.stop_address \in r.int3
         /\ t.stop_reason = "selected_row" => t.stop_address = r.stop_offset
    <3>1. t.stop_reason \in {"int3", "selected_row"} => outcome = "Stopped"
      BY <2>1, <2>2 DEF finish_reason
    <3>2. outcome = "Stopped" => /\ stopped_at_target \/ address \in request.int3
                                 /\ t.stop_reason = IF stopped_at_target THEN "selected_row"
                                                    ELSE "int3"
      BY <2>1 DEF SlotInv, Justified, stopped_at_target
    <3> QED
      BY <1>1, <2>8, <3>1, <3>2 DEF stopped_at_target
  <2>12. t \in Trace
    BY <2>1, <2>2, <2>4, <2>6, <2>7 DEF Trace, SlotType, Outcome
  <2> QED
    BY <2>4, <2>5, <2>9, <2>10, <2>11, <2>12 DEF Explains, t
<1> QED
  BY <1>2, <1>3

\* The invariant holds before the first call.
LEMMA EngineInit == Init => EngineInv
<1> SUFFICES ASSUME Init PROVE EngineInv
  OBVIOUS
<1>1. wanted \in [Callers -> Request]
  BY EngineAssumption DEF Init
<1>2. request \in Request /\ address \in Address
  BY PlatformAssumption DEF Init, NoRequest, NoOffset, Request, Address
<1>3. NoTrace \in Trace
  <2>1. <<>> \in Seq(PlatformStep)
    OBVIOUS
  <2> QED
    BY <2>1 DEF NoTrace, Trace, Outcome, StopReason
<1>4. TypeOK
  BY <1>1, <1>2, <1>3 DEF Init, TypeOK
<1> QED
  BY <1>4 DEF Init, EngineInv, OwnerInv, TraceInv

\* Every step of every caller preserves it.
LEMMA EngineStep == EngineInv /\ [Next]_vars => EngineInv'
<1> SUFFICES ASSUME EngineInv, [Next]_vars PROVE EngineInv'
  OBVIOUS
<1>types. /\ pc \in [Callers -> {"idle", "cpu", "query", "lock", "run", "blocked", "returned"}]
          /\ wanted \in [Callers -> Request] /\ trace \in [Callers -> Trace]
          /\ mutex \in Callers \cup {NoCaller} /\ SlotType
  BY DEF EngineInv, TypeOK, SlotType
<1>inv. OwnerInv /\ TraceInv
  BY DEF EngineInv
<1>1. ASSUME NEW c \in Callers, Call(c) PROVE EngineInv'
  <2>1. TypeOK'
    BY <1>1, <1>types DEF Call, slot, TypeOK, SlotType
  <2>2. OwnerInv'
    BY <1>1, <1>types, <1>inv DEF Call, slot, OwnerInv, SlotInv, Executable
  <2>3. TraceInv'
    BY <1>1, <1>types, <1>inv DEF Call, TraceInv
  <2> QED
    BY <2>1, <2>2, <2>3 DEF EngineInv
<1>2. ASSUME NEW c \in Callers, StartQuery(c) PROVE EngineInv'
  <2>1. TypeOK'
    BY <1>2, <1>types DEF StartQuery, slot, TypeOK, SlotType
  <2>2. OwnerInv'
    BY <1>2, <1>types, <1>inv DEF StartQuery, slot, OwnerInv, SlotInv, Executable
  <2>3. TraceInv'
    BY <1>2, <1>types, <1>inv DEF StartQuery, TraceInv
  <2> QED
    BY <2>1, <2>2, <2>3 DEF EngineInv
<1>3. ASSUME NEW c \in Callers, QueryStep(c) \/ QueryMoves(c) PROVE EngineInv'
  <2>1. UNCHANGED <<pc, wanted, trace, mutex, slot>> /\ (Query \/ Migrate)
    BY <1>3 DEF QueryStep, QueryMoves
  <2>2. TypeOK' /\ TraceInv'
    BY <1>types, <1>inv, <2>1 DEF slot, TypeOK, SlotType, TraceInv
  <2>3. OwnerInv'
    BY <1>inv, <2>1 DEF slot, OwnerInv, SlotInv, Executable
  <2> QED
    BY <2>2, <2>3 DEF EngineInv
<1>4. ASSUME NEW c \in Callers, TakeFingerprint(c) PROVE EngineInv'
  <2>1. TypeOK'
    BY <1>4, <1>types DEF TakeFingerprint, slot, TypeOK, SlotType
  <2>2. OwnerInv'
    BY <1>4, <1>types, <1>inv DEF TakeFingerprint, slot, OwnerInv, SlotInv, Executable
  <2>3. TraceInv'
    BY <1>4, <1>types, <1>inv DEF TakeFingerprint, TraceInv
  <2> QED
    BY <2>1, <2>2, <2>3 DEF EngineInv
<1>5. ASSUME NEW c \in Callers, Lock(c) PROVE EngineInv'
  <2>1. /\ request' = Clamped(wanted[c]) /\ steps' = <<>> /\ outcome' = "None" /\ address' = 0
        /\ mutex = NoCaller /\ mutex' = c /\ pc' = [pc EXCEPT ![c] = "run"] /\ pc[c] = "lock"
        /\ UNCHANGED <<wanted, trace, cpuvars>>
    BY <1>5 DEF Lock, Fresh, Clamped
  <2>2. request' \in Request /\ steps' \in Seq(PlatformStep) /\ address' \in Address
    BY <1>types, <2>1, ClampedOnce, PlatformAssumption DEF Address
  <2>3. TypeOK'
    BY <1>types, <2>1, <2>2 DEF TypeOK
  <2>4. SlotInv'
    <3>1. Len(steps') = 0 /\ EffectiveMaxSteps(request') \in Nat
      BY <2>1, <2>2, CapPositive
    <3> QED
      BY <2>1, <2>2, <3>1, EmptyRecord DEF SlotInv, Executable
  <2>5. \A d \in Callers : pc[d] \notin {"run", "blocked"}
    BY <1>inv, <2>1, EngineAssumption DEF OwnerInv
  <2>6. OwnerInv'
    BY <1>types, <2>1, <2>4, <2>5 DEF OwnerInv
  <2>7. TraceInv'
    BY <1>types, <1>inv, <2>1 DEF TraceInv
  <2> QED
    BY <2>3, <2>6, <2>7 DEF EngineInv
<1>6. ASSUME NEW c \in Callers, RunStep(c) PROVE EngineInv'
  <2>1. /\ pc[c] = "run" /\ Run!Next
        /\ UNCHANGED <<pc, wanted, trace, mutex, cpuvars>>
    BY <1>6 DEF RunStep
  <2>2. SlotType' /\ SlotInv'
    BY <1>types, <1>inv, <2>1, SlotStep DEF OwnerInv
  <2>3. UNCHANGED request
    BY <2>1 DEF Run!Next, Run!Refuse, Run!Fail, Run!StopAtEntry, Run!Complete, Run!Breakpoint,
       Run!Fault
  <2>4. TypeOK'
    BY <1>types, <2>1, <2>2 DEF TypeOK, SlotType
  <2>5. OwnerInv'
    BY <1>inv, <2>1, <2>2, <2>3 DEF OwnerInv
  <2>6. TraceInv'
    BY <1>inv, <2>1 DEF TraceInv
  <2> QED
    BY <2>4, <2>5, <2>6 DEF EngineInv
<1>7. ASSUME NEW c \in Callers, Return(c) PROVE EngineInv'
  <2>1. /\ pc[c] = "run" /\ outcome # "None" /\ trace' = [trace EXCEPT ![c] = result_trace]
        /\ mutex' = NoCaller /\ pc' = [pc EXCEPT ![c] = "returned"]
        /\ UNCHANGED <<wanted, request, steps, outcome, address, cpuvars>>
    BY <1>7 DEF Return, slot, Run!Running
  <2>2. result_trace \in Trace /\ Explains(result_trace, wanted[c])
    BY <1>types, <1>inv, <2>1, ResultExplains DEF OwnerInv
  <2>3. TypeOK'
    BY <1>types, <2>1, <2>2 DEF TypeOK, SlotType
  <2>4. \A d \in Callers : pc[d] \in {"run", "blocked"} => d = c
    BY <1>inv, <2>1 DEF OwnerInv
  <2>5. OwnerInv'
    BY <1>types, <2>1, <2>4 DEF OwnerInv
  <2>6. TraceInv'
    BY <1>types, <1>inv, <2>1, <2>2 DEF TraceInv
  <2> QED
    BY <2>3, <2>5, <2>6 DEF EngineInv
<1>8. ASSUME NEW c \in Callers, Blocks(c) PROVE EngineInv'
  <2>1. /\ pc[c] = "run" /\ pc' = [pc EXCEPT ![c] = "blocked"]
        /\ UNCHANGED <<wanted, trace, mutex, slot>>
    BY <1>8 DEF Blocks
  <2>2. TypeOK'
    BY <1>types, <2>1 DEF slot, TypeOK, SlotType
  <2>3. OwnerInv'
    BY <1>types, <1>inv, <2>1 DEF slot, OwnerInv, SlotInv, Executable
  <2>4. TraceInv'
    BY <1>types, <1>inv, <2>1 DEF TraceInv
  <2> QED
    BY <2>2, <2>3, <2>4 DEF EngineInv
<1>9. CASE UNCHANGED vars
  <2>1. TypeOK' /\ TraceInv'
    BY <1>9, <1>types, <1>inv DEF vars, TypeOK, SlotType, TraceInv
  <2>2. OwnerInv'
    BY <1>9, <1>inv DEF vars, OwnerInv, SlotInv, Executable
  <2> QED
    BY <2>1, <2>2 DEF EngineInv
<1> QED
  BY <1>1, <1>2, <1>3, <1>4, <1>5, <1>6, <1>7, <1>8, <1>9 DEF Next, Thread, Done

-----------------------------------------------------------------------------
(* Results.                                                                *)

\* What any platform that keeps the contract of run_platform_steps records: a
\* chained trace that never overran, and an outcome its last step justifies.
ContractKept ==
    /\ Chained(steps) /\ NeverOverran(request, steps)
    /\ Len(steps) <= EffectiveMaxSteps(request)
    /\ outcome # "None" => Justified(request, steps, outcome, address)

\* Every run of the contract is one whose record explains its outcome.
THEOREM ContractExplains == Run!Spec => []ContractKept
<1>1. Run!Init => SlotType /\ SlotInv
  <2> SUFFICES ASSUME Run!Init PROVE SlotType /\ SlotInv
    OBVIOUS
  <2>1. request \in Request /\ steps = <<>> /\ outcome = "None" /\ address = 0
    BY RunVocabulary DEF Run!Init
  <2>2. SlotType
    BY <2>1, PlatformAssumption DEF SlotType, Address
  <2> QED
    BY <2>1, <2>2, FreshSlot
<1>2. (SlotType /\ SlotInv) /\ [Run!Next]_(Run!vars) => (SlotType /\ SlotInv)'
  <2>1. CASE UNCHANGED Run!vars
    BY <2>1 DEF Run!vars, SlotType, SlotInv, Executable
  <2> QED
    BY <2>1, SlotStep
<1>3. SlotInv => ContractKept
  BY DEF SlotInv, ContractKept
<1> QED
  BY <1>1, <1>2, <1>3, PTL DEF Run!Spec

\* Every reachable state of the engine and its callers is well typed.
THEOREM TypeCorrect == Spec => []TypeOK
<1>1. EngineInv => TypeOK
  BY DEF EngineInv
<1> QED
  BY <1>1, EngineInit, EngineStep, PTL DEF Spec

\* The process-wide slot (g_engine and the handler) is used by one caller at a time.
OneRunAtATime ==
    \A c, d \in Callers : pc[c] \in {"run", "blocked"} /\ pc[d] \in {"run", "blocked"} => c = d

\* However the callers interleave, no two of them are in run_platform_steps.
THEOREM MutualExclusion == Spec => []OneRunAtATime
<1>1. EngineInv => OneRunAtATime
  BY DEF EngineInv, OwnerInv, OneRunAtATime
<1> QED
  BY <1>1, EngineInit, EngineStep, PTL DEF Spec

\* The trace a caller gets back explains the request that caller made.
THEOREM EveryTraceExplained == Spec => []TraceExplained
<1>1. EngineInv => TraceExplained
  BY DEF EngineInv, TraceInv, TraceExplained, Explains
<1> QED
  BY <1>1, EngineInit, EngineStep, PTL DEF Spec

\* A step of the engine leaves the walk alone, starts it, or takes one of its steps.
LEMMA EngineWalk == WalkInv /\ [Next]_vars => WalkInv'
<1> SUFFICES ASSUME WalkInv, [Next]_vars PROVE WalkInv'
  OBVIOUS
<1>1. CASE UNCHANGED cpuvars
  BY <1>1, WalkStep
<1>2. ASSUME NEW c \in Callers, StartQuery(c) PROVE WalkInv'
  <2>1. core \in DOMAIN machine
    BY DEF WalkInv, WalkType
  <2> QED
    BY <1>2, <2>1, WalkSame DEF StartQuery
<1>3. ASSUME NEW c \in Callers, QueryStep(c) \/ QueryMoves(c) PROVE WalkInv'
  BY <1>3, WalkStep DEF QueryStep, QueryMoves
<1>4. ASSUME NEW c \in Callers,
             Call(c) \/ TakeFingerprint(c) \/ Lock(c) \/ RunStep(c)
             \/ Blocks(c) \/ Return(c)
      PROVE  UNCHANGED cpuvars
  BY <1>4 DEF Call, TakeFingerprint, Lock, RunStep, Blocks, Return
<1> QED
  BY <1>1, <1>2, <1>3, <1>4 DEF Next, Thread, Done, vars

\* Whichever caller queries the processor, and wherever the scheduler moves it
\* meanwhile, host_cpu_fingerprint's records are in order and unambiguous, none was
\* asked for that the answers before it do not allow, and the decoded fields say
\* what the records say.
THEOREM FingerprintAlwaysSound == Spec => []FingerprintSound
<1>1. Init => WalkInv
  <2> SUFFICES ASSUME Init PROVE WalkInv
    OBVIOUS
  <2>1. PICK s \in Scenarios : CpuInit(s.machine)
    BY DEF Init
  <2>2. AnswersTyped(s.machine)
    BY EngineAssumption
  <2> QED
    BY <2>1, <2>2, WalkInit
<1> QED
  BY <1>1, EngineWalk, WalkSound, PTL DEF Spec
===============================================================================
