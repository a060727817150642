------------------------------- MODULE MCEngine -------------------------------
(* An instance of Engine for TLC.  The requests vary on one plain machine and *)
(* the machines vary under one request, so that they do not multiply.         *)
EXTENDS Engine

CONSTANTS c1, c2, big, little

Ask(size, cap, target, int3) ==
    [ size |-> size, max_steps |-> cap, stop_offset |-> target, int3 |-> int3 ]

\* Two inputs that differ in length and in their int3 bytes, with and without a
\* target, at, above and below the hard ceiling; and two refusals.
SomeRequests ==
    { Ask(2, 2, NoOffset, {}), Ask(2, 3, 1, {}), Ask(3, 2, 2, {1}), Ask(3, 0, NoOffset, {0}),
      Ask(1, 2, 0, {}), Ask(2, 2, 2, {}), Ask(0, 1, NoOffset, {}) }

Refused == Ask(0, 1, NoOffset, {})

PlainCore ==
    [ vendor |-> "GenuineIntel", brand |-> "big",
      signature |-> [ family |-> 6, model |-> 7, extended_family |-> 0, extended_model |-> 1 ],
      maximum_basic_leaf |-> XSTATE_LEAF, maximum_subleaf |-> 0,
      hypervisor_present |-> FALSE, xsave |-> TRUE, osxsave |-> TRUE,
      xcr0_supported |-> {0, 1, 2}, xss_supported |-> {}, xcr0 |-> {0, 1, 2},
      hypervisor_vendor |-> "", maximum_hypervisor_leaf |-> 0, hypervisor_interface |-> "",
      maximum_extended_leaf |-> ADDRESS_WIDTH_LEAF, address_width |-> 48,
      features |-> {"sse3", "long_mode"} ]

Same(answers) == [ k \in {big} |-> answers ]

\* Every leaf limit on both sides of what the walk compares it with.
BasicMachines ==
    { Same([ PlainCore EXCEPT !.maximum_basic_leaf = leaf, !.maximum_subleaf = sub,
                              !.maximum_extended_leaf = 0 ])
        : leaf \in {0, 1, 6, 7, 12, 13, 14}, sub \in {0, 1, 3, 4} }
ExtendedMachines ==
    { Same([ PlainCore EXCEPT !.vendor = v, !.maximum_extended_leaf = leaf ])
        : leaf \in {0, 200, 201, 202, 203, 204, 207, 208, 209},
          v \in {"AuthenticAMD", "HygonGenuine"} }
XStateMachines ==
    { Same([ PlainCore EXCEPT !.xsave = x, !.osxsave = x /\ o, !.xcr0_supported = s,
                              !.xss_supported = t, !.xcr0 = {0, 1} \cup e ])
        : x \in BOOLEAN, o \in BOOLEAN, s \in {{0, 1}, {0, 1, 2, 4}}, t \in {{}, {3}},
          e \in {{}, {2}, {2, 3}} }
VirtualMachines ==
    { Same([ PlainCore EXCEPT !.hypervisor_present = TRUE, !.hypervisor_vendor = v,
                              !.maximum_hypervisor_leaf = leaf, !.hypervisor_interface = "Hv#1" ])
        : v \in {"Microsoft Hv", "KVMKVMKVM"}, leaf \in {0, 100, 101} }

\* Cores that advertise different features, subleaves and state components.
HybridMachines ==
    { [ k \in {big, little} |->
          IF k = big THEN [ PlainCore EXCEPT !.maximum_subleaf = sub,
                                             !.features = {"sse3", "bmi1"},
                                             !.xcr0_supported = {0, 1, 2, 4} ]
          ELSE [ PlainCore EXCEPT !.brand = "little", !.maximum_subleaf = 1,
                                  !.maximum_basic_leaf = leaf, !.features = {"long_mode"} ] ]
        : sub \in {0, 3}, leaf \in {7, 13} }

Plain == Same(PlainCore)

SomeScenarios ==
    { [ machine |-> Plain, wanted |-> w ] : w \in [ {c1, c2} -> SomeRequests ] }
    \cup { [ machine |-> m, wanted |-> [ c \in {c1, c2} |-> Refused ] ]
             : m \in BasicMachines \cup ExtendedMachines \cup XStateMachines
                     \cup VirtualMachines \cup HybridMachines }
===============================================================================
