----------------------------- MODULE Descriptors -----------------------------
(***************************************************************************)
(* Relay descriptors: the identity file and the signing key minted into it *)
(* (main.rs), the statement signed with it (relay_desc.rs), the key pinned *)
(* over a link and the statements gossiped and checked against it (node.rs).*)
(*                                                                         *)
(* A node id is the pair of a node and the generation of its certificate;  *)
(* a key is the pair of a node and a count.  One clock stands for all, so  *)
(* nothing is FromTheFuture, and what cannot be forged is not modelled.    *)
(* Copies of one statement on one link count as one.                       *)
(***************************************************************************)
EXTENDS Naturals, FiniteSets

CONSTANTS Describer,     \* the nodes
          Speaker,       \* those with a signing key (the others are clients)
          Rebooting,     \* those that restart
          Edge,          \* the links that may come up: sets of two nodes
          DescLifetime,  \* DESC_LIFETIME_SECS
          DescEnd, MaxReboots, MaxMishaps   \* bounds: the clock, restarts, failed or torn writes

ASSUME DescriptorsAssumption ==
    /\ Speaker \subseteq Describer /\ Rebooting \subseteq Speaker
    /\ Edge \subseteq {e \in SUBSET Describer : Cardinality(e) = 2}
    /\ DescLifetime \in Nat /\ DescEnd \in Nat /\ MaxReboots \in Nat /\ MaxMishaps \in Nat

VARIABLES file,      \* identity.json of each: a SavedIdentity (id, static, key), or NoFile
          phase,     \* of each node: "down", "loading" (load_or_create returned) or "up"
          nodeId,    \* the generation of the certificate it runs with
          signKey,   \* its signing_key, 0 for none
          pinned,    \* pinned_keys of each: from node ids to keys, 0 for none
          descriptors, \* descriptors of each: from node ids to the one held, or NoDesc
          linkUp,    \* the links that are up
          descWire,  \* RelayDesc messages in flight: from, to, desc
          descNow, reboots, mishaps
descVars == <<file, phase, nodeId, signKey, pinned, descriptors, linkUp, descWire, descNow, reboots, mishaps>>

NoFile == [id |-> 0, static |-> FALSE, key |-> 0]   \* missing, or cut short by a crash
NoDesc == [of |-> 0, key |-> 0, published |-> 0]
Gens == 1 .. MaxReboots + MaxMishaps + 1
DescId == Describer \X Gens
Keys == 0 .. MaxReboots + MaxMishaps + 1
MyId(n) == <<n, nodeId[n]>>

-----------------------------------------------------------------------------
(* relay_desc. *)

Build(n) == [of |-> MyId(n), key |-> signKey[n], published |-> descNow]

\* verify: the key pinned for the node, and not older than a day.
\* Mutant: a node never met will do.
Verifies_unpinned(pin, d) == pin \in {0, d.key} /\ descNow - d.published <= DescLifetime
Verifies(pin, d) == pin = d.key /\ descNow - d.published <= DescLifetime

-----------------------------------------------------------------------------
(* main.rs: the identity. *)

Write(n, f) == file' = [file EXCEPT ![n] = f]

\* load_or_create: the saved identity, its static key minted if it has none;
\* an identity that cannot be read is made anew.
LoadOrCreate(n) ==
    /\ phase[n] = "down" /\ phase' = [phase EXCEPT ![n] = "loading"]
    /\ IF file[n] # NoFile
       THEN nodeId' = [nodeId EXCEPT ![n] = file[n].id] /\ Write(n, [file[n] EXCEPT !.static = TRUE])
       ELSE /\ nodeId' = [nodeId EXCEPT ![n] = @ + 1]
            /\ Write(n, [id |-> nodeId[n] + 1, static |-> TRUE, key |-> 0])
    /\ UNCHANGED <<signKey, pinned, descriptors, linkUp, descWire, descNow, reboots, mishaps>>

\* The key in the file, or a new one.
Minted(n) == IF file[n].key # 0 THEN file[n].key ELSE signKey[n] + 1

Saved(n) == [file[n] EXCEPT !.key = Minted(n)]

\* load_or_create_signing_key, and set_signing_key.
LoadSigningKey(n) ==
    /\ phase[n] = "loading" /\ phase' = [phase EXCEPT ![n] = "up"]
    /\ signKey' = [signKey EXCEPT ![n] = Minted(n)] /\ Write(n, Saved(n))
    /\ UNCHANGED <<nodeId, pinned, descriptors, linkUp, descWire, descNow, reboots, mishaps>>

\* The identity is written in place: the write of a new key may fail (its result is
\* not looked at), or the daemon stop within it.
MintUnsaved(n) ==
    /\ phase[n] = "loading" /\ file[n].key = 0 /\ mishaps < MaxMishaps /\ mishaps' = mishaps + 1
    /\ \/ phase' = [phase EXCEPT ![n] = "up"] /\ signKey' = [signKey EXCEPT ![n] = Minted(n)] /\ UNCHANGED file
       \/ phase' = [phase EXCEPT ![n] = "down"] /\ Write(n, NoFile) /\ UNCHANGED signKey
    /\ UNCHANGED <<nodeId, pinned, descriptors, linkUp, descWire, descNow, reboots>>

\* The daemon stops: everything in memory and on its links is gone.
Reboot(n) ==
    /\ phase[n] = "up" /\ reboots < MaxReboots /\ reboots' = reboots + 1
    /\ phase' = [phase EXCEPT ![n] = "down"]
    /\ pinned' = [pinned EXCEPT ![n] = [i \in DescId |-> 0]]
    /\ descriptors' = [descriptors EXCEPT ![n] = [i \in DescId |-> NoDesc]]
    /\ linkUp' = {e \in linkUp : n \notin e}
    /\ descWire' = {x \in descWire : n \notin {x.from, x.to}}
    /\ UNCHANGED <<file, nodeId, signKey, descNow, mishaps>>

-----------------------------------------------------------------------------
(* node.rs. *)

\* register_peer at both ends: each sends its own descriptor, if it can sign one.
Announces(n, m) == IF n \in Speaker THEN {[from |-> n, to |-> m, desc |-> Build(n)]} ELSE {}
Connect(n, m) ==
    /\ {n, m} \in Edge \ linkUp /\ phase[n] = "up" /\ phase[m] = "up"
    /\ linkUp' = linkUp \cup {{n, m}}
    /\ descWire' = descWire \cup Announces(n, m) \cup Announces(m, n)
    /\ UNCHANGED <<file, phase, nodeId, signKey, pinned, descriptors, descNow, reboots, mishaps>>

\* pin_signing_key: over the link of the node itself, the first key it shows.
PinFor(x) ==
    IF x.desc.of = MyId(x.from) /\ pinned[x.to][x.desc.of] = 0 THEN x.desc.key ELSE pinned[x.to][x.desc.of]

\* A RelayDesc message: accept_descriptor, and the gossip onward of what it accepts.
RecvRelayDesc(x) ==
    LET others == {m \in Describer \ {x.from} : {x.to, m} \in linkUp}
        onward == {[from |-> x.to, to |-> m, desc |-> x.desc] : m \in others}
    IN
    /\ pinned' = [pinned EXCEPT ![x.to][x.desc.of] = PinFor(x)]
    /\ IF Verifies(PinFor(x), x.desc)
       THEN /\ descriptors' = [descriptors EXCEPT ![x.to][x.desc.of] = x.desc]
            /\ descWire' = (descWire \ {x}) \cup onward
       ELSE /\ descWire' = descWire \ {x} /\ UNCHANGED descriptors
    /\ UNCHANGED <<file, phase, nodeId, signKey, linkUp, descNow, reboots, mishaps>>

DescTick == descNow < DescEnd /\ descNow' = descNow + 1
    /\ UNCHANGED <<file, phase, nodeId, signKey, pinned, descriptors, linkUp, descWire, reboots, mishaps>>
-----------------------------------------------------------------------------
\* A node that will restart begins down, without a file or with one of an older build.
DescInit ==
    /\ file \in [Describer -> {NoFile} \cup [id : {1}, static : BOOLEAN, key : {0}]]
    /\ \A n \in Describer \ Rebooting : file[n] = NoFile
    /\ phase = [n \in Describer |-> IF n \in Rebooting THEN "down" ELSE "up"]
    /\ nodeId = [n \in Describer |-> IF n \in Rebooting THEN 0 ELSE 1]
    /\ signKey = [n \in Describer |-> IF n \in Speaker \ Rebooting THEN 1 ELSE 0]
    /\ pinned = [n \in Describer |-> [i \in DescId |-> 0]]
    /\ descriptors = [n \in Describer |-> [i \in DescId |-> NoDesc]]
    /\ linkUp = {} /\ descWire = {} /\ descNow = 0 /\ reboots = 0 /\ mishaps = 0

DescNext ==
    \/ \E n \in Rebooting : LoadOrCreate(n) \/ LoadSigningKey(n) \/ MintUnsaved(n) \/ Reboot(n)
    \/ \E n, m \in Describer : n # m /\ Connect(n, m)
    \/ \E x \in descWire : RecvRelayDesc(x)
    \/ DescTick
DescSpec == DescInit /\ [][DescNext]_descVars

-----------------------------------------------------------------------------
Descs == [of : DescId, key : Keys, published : 0..DescEnd]
DescTypeOK ==
    /\ file \in [Describer -> [id : {0} \cup Gens, static : BOOLEAN, key : Keys]]
    /\ phase \in [Describer -> {"down", "loading", "up"}]
    /\ nodeId \in [Describer -> {0} \cup Gens] /\ signKey \in [Describer -> Keys]
    /\ pinned \in [Describer -> [DescId -> Keys]]
    /\ descriptors \in [Describer -> [DescId -> Descs \cup {NoDesc}]]
    /\ linkUp \subseteq Edge /\ descWire \subseteq [from : Describer, to : Describer, desc : Descs]
    /\ descNow \in 0..DescEnd /\ reboots \in 0..MaxReboots /\ mishaps \in 0..MaxMishaps

\* Whatever paths a statement takes, what a node holds of another carries the key that
\* node showed it over their own link (relay_desc.rs, "Binding").
HeldIsPinned ==
    \A n \in Describer, i \in DescId : descriptors[n][i] # NoDesc => descriptors[n][i].key = pinned[n][i]

\* However often a relay restarts, its key is still the one others pinned for its node
\* id (load_or_create_signing_key), as long as every write of its identity is whole.
KeyOutlivesRestarts ==
    mishaps = 0 =>
        \A n \in Describer, m \in Rebooting : phase[m] = "up" => pinned[n][MyId(m)] \in {0, signKey[m]}

\* The binding of a node id to its key holds on both sides: at those who hold a
\* statement of the relay, and at the relay that signs the next one.
BindingHolds == HeldIsPinned /\ KeyOutlivesRestarts
==============================================================================
