--------------------------- MODULE DeviceIdentity ---------------------------
(***************************************************************************)
(* core/fingerprint.py and the two tables of core/store.py it fills: the   *)
(* device identity derived for a subject, and the telemetry reported for   *)
(* it.  A reported component is "absent" (missing, or one of the markers   *)
(* of a browser that refuses), "malformed" (present, not what a collector  *)
(* produces) or a value.  Entropy is counted in tenths of a bit; that of    *)
(* the components that drift is reported and decides nothing.              *)
(***************************************************************************)
EXTENDS Integers, FiniteSets, FiniteSetsExt

CONSTANTS
    Subject,        \* transactions and sessions
    Report,         \* what a collector posts: [components, tells]
    ClientTells,    \* telemetry a client SDK reports, as sets of tells
    NoIdentity

VARIABLES
    identities,     \* device_identity: per subject, the derived device or NoIdentity
    telemetry       \* per subject, the tells of its newest telemetry row

identityVars == <<identities, telemetry>>

AnchorBits ==
    [gpu_renderer |-> 60, gpu_vendor |-> 20, cpu_cores |-> 20, device_memory_gb |-> 15,
     screen_w |-> 25, screen_h |-> 25, color_depth |-> 8, platform |-> 20,
     audio_dsp_hash |-> 50, touch_points |-> 10]

ANCHOR_COMPONENTS == DOMAIN AnchorBits
HIGH_ENTROPY_ANCHORS == {"gpu_renderer", "audio_dsp_hash"}
MIN_ENTROPY_BITS_FOR_IDENTITY == 180

\* _norm and _WELL_FORMED: a malformed value is kept and earns no bits.
Given(components) == {c \in DOMAIN components : components[c] # "absent"}
WellFormed(components) == {c \in Given(components) : components[c] # "malformed"}

anchor_entropy_bits(components) ==
    FoldSet(LAMBDA c, bits : bits + AnchorBits[c], 0, WellFormed(components) \cap ANCHOR_COMPONENTS)

identifiable(components) ==
    /\ anchor_entropy_bits(components) >= MIN_ENTROPY_BITS_FOR_IDENTITY
    /\ Cardinality(Given(components) \cap ANCHOR_COMPONENTS) >= 3
    /\ HIGH_ENTROPY_ANCHORS \cap WellFormed(components) # {}

\* The hash of the anchors present, which is taken to be injective.
device_id(components) ==
    {<<c, components[c]>> : c \in Given(components) \cap ANCHOR_COMPONENTS}

derive(components) ==
    [device_id   |-> device_id(components),
     is_identity |-> identifiable(components) /\ device_id(components) # {},
     confidence  |-> IF ~identifiable(components) THEN "low"
                     ELSE IF anchor_entropy_bits(components) >= 200 THEN "high" ELSE "medium"]

\* Is this a device already seen?  Scored out of 1000 over the known device's
\* anchors, so that what the candidate withholds counts as disagreement.
RELINK_SIMILARITY == 720

\* Mutant: scored over the anchors both sides report.
compared_Shared(candidate, known) ==
    Given(candidate) \cap Given(known) \cap ANCHOR_COMPONENTS

compared(candidate, known) == Given(known) \cap ANCHOR_COMPONENTS

agreed(candidate, known) ==
    {c \in compared(candidate, known) \cap Given(candidate) : candidate[c] = known[c]}

relink(candidate, known) ==
    LET denominator == compared(candidate, known)
        agree == agreed(candidate, known)
    IN  /\ Cardinality(denominator) >= 3
        /\ 1000 * Cardinality(agree) >= RELINK_SIMILARITY * Cardinality(denominator)
        /\ HIGH_ENTROPY_ANCHORS \cap agree # {}

IdentityInit ==
    /\ identities = [s \in Subject |-> NoIdentity]
    /\ telemetry = [s \in Subject |-> {}]

\* POST /telemetry/fingerprint.  The store refuses what is not an identity; a
\* clean fingerprint has nothing to report, and would hide what was.
PostFingerprint(s) ==
    \E report \in Report :
        LET fp == derive(report.components)
        IN  /\ identities' = IF fp.is_identity THEN [identities EXCEPT ![s] = fp] ELSE identities
            /\ telemetry' = IF report.tells # {} THEN [telemetry EXCEPT ![s] = report.tells]
                            ELSE telemetry

\* POST /telemetry.  The newest row is the one that is read.
PostTelemetry(s) ==
    /\ \E tells \in ClientTells : telemetry' = [telemetry EXCEPT ![s] = tells]
    /\ UNCHANGED identities

-----------------------------------------------------------------------------

\* "Absence now counts as disagreement, which is what makes withholding
\* expensive instead of free": what would not be linked to a device on record
\* with an anchor reported is not linked to it with that anchor withheld.
WithholdingNeverHelps ==
    \A known, report \in Report :
        (\E s \in Subject : identities[s] # NoIdentity
                              /\ identities[s].device_id = device_id(known.components)) =>
            \A c \in Given(report.components) \cap ANCHOR_COMPONENTS :
                relink([report.components EXCEPT ![c] = "absent"], known.components)
                    => relink(report.components, known.components)

\* "This closes the SILENCING direction": what a client reported for a subject
\* stays readable whatever fingerprints arrive for it.
FingerprintsDoNotSilence ==
    [][\A s \in Subject : PostFingerprint(s) => telemetry[s] \subseteq telemetry'[s]]_identityVars
=============================================================================
