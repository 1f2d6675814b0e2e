---------------------------- MODULE CertRotation ----------------------------
(* Certificates and their rotation. The first part is cert.rs, over small    *)
(* numbers: the primality test, generation and the independent check. The    *)
(* second is a rotating node and one that watches it: the rotation goes over *)
(* the open link, and the watcher re-keys the entry it has for the link,     *)
(* while the link's reader task still holds the entry's first incarnation.   *)
EXTENDS Naturals, Sequences, FiniteSets, Functions

CONSTANTS
    Small,      \* the primes of sieve_ok, and those is_prime tries first
    Witnesses,  \* Miller-Rabin bases
    Bits,       \* bits of a certificate
    StaleAge,   \* STALE_PEER_SECS, in ticks
    MaxRotations, MaxLinks  \* bounds: rotations of one life, links in all

ASSUME CertRotationAssumption ==
    /\ Small \subseteq Nat \ {0, 1} /\ Witnesses \subseteq Nat /\ Bits \in Nat /\ Bits > 3
    /\ StaleAge \in Nat \ {0} /\ MaxRotations \in Nat /\ MaxLinks \in Nat

(******************************* Certificates ******************************)

DigitalRoot(n) == IF n % 9 = 0 THEN 9 ELSE n % 9

SieveOk(n) == n \in Small \/ \A p \in Small : n % p # 0

\* modpow: a^d mod n.
ModPow(a, d, n) ==
    LET pow[e \in 0 .. d] ==
          IF e = 0 THEN 1 % n
          ELSE IF e % 2 = 0 THEN LET h == pow[e \div 2] IN (h * h) % n
          ELSE (pow[e - 1] * a) % n
    IN  pow[d]

\* n - 1 = d * 2^s with d odd: the pair.
OddPart(m) ==
    LET odd[x \in 0 .. m] == IF x > 0 /\ x % 2 = 0 THEN odd[x \div 2] ELSE x
        twos[x \in 0 .. m] == IF x > 0 /\ x % 2 = 0 THEN 1 + twos[x \div 2] ELSE 0
    IN  [d |-> odd[m], s |-> twos[m]]

\* One round of Miller-Rabin.
Passes(w, n) ==
    LET m == OddPart(n - 1) IN
    \/ w % n < 2
    \/ ModPow(w % n, m.d, n) \in {1, n - 1}
    \/ \E r \in 1 .. m.s - 1 : ModPow(w % n, m.d * 2 ^ r, n) = n - 1

IsPrime(n) ==
    /\ n >= 2
    /\ \/ n \in {2, 3} \union Small
       \/ /\ n % 2 # 0 /\ \A p \in Small : n % p # 0
          /\ \A w \in Witnesses : Passes(w, n)

\* random_odd(Bits - 2): odd, of exactly that many bits.
RandomOdd == {j \in 2 ^ (Bits - 3) .. 2 ^ (Bits - 2) - 1 : j % 2 = 1}

\* PhiCert::generate: what one attempt with j yields, if anything. The first
\* form is tried before the second.
Prime2(j) == LET p == 2 * j - 1 IN
    SieveOk(p) /\ DigitalRoot(p - 1) >= 5 /\ IsPrime(j) /\ IsPrime(p)
Prime4(j) == LET p == 4 * j - 3 IN
    SieveOk(p) /\ DigitalRoot(p - 1) < 5 /\ IsPrime(j) /\ IsPrime(p)

Cert(j, p, mu) ==
    [n |-> 2 * p, phi |-> p - 1, mu |-> mu, j |-> j, dr |-> DigitalRoot(p - 1),
     sg |-> IF IsPrime(2 * j - 1) THEN 1 ELSE 0]

\* Mutant: the second form's p with the first form's factor.
Generate_mu(j) ==
    IF ~SieveOk(j) THEN {}
    ELSE IF Prime2(j) THEN {Cert(j, 2 * j - 1, 2)}
    ELSE IF Prime4(j) THEN {Cert(j, 4 * j - 3, 2)} ELSE {}
Generate(j) ==
    IF ~SieveOk(j) THEN {}
    ELSE IF Prime2(j) THEN {Cert(j, 2 * j - 1, 2)}
    ELSE IF Prime4(j) THEN {Cert(j, 4 * j - 3, 4)} ELSE {}

\* PhiCert::verify, from the fields alone.
Verify(c) ==
    LET p == c.n \div 2 IN
    /\ c.n % 2 = 0 /\ c.phi = p - 1 /\ DigitalRoot(c.phi) = c.dr
    /\ c.mu = (IF c.dr >= 5 THEN 2 ELSE 4)
    /\ c.phi % c.mu = 0 /\ c.phi \div c.mu + 1 = c.j
    /\ IsPrime(c.j) /\ IsPrime(p)
    /\ c.sg = (IF IsPrime(2 * c.j - 1) THEN 1 ELSE 0)

\* node_id hashes j and phi.
NodeId(c) == <<c.j, c.phi>>

Certs == UNION {Generate(j) : j \in RandomOdd}

(********************** The rotating node and a watcher ********************)

VARIABLES
    cert,     \* the rotating node's certificate
    saved,    \* the one in its identity file
    seq,      \* its rotation_seq
    link,     \* "up", "lost" (no close was seen) or "down"
    linkId,   \* the id under which the link's reader task knows the node
    links,    \* links so far
    inbox,    \* announcements under way on the link
    table,    \* the watcher's peers: id -> set of at most one entry
    seen      \* its seen_rotation_seqs

certVars == <<cert, saved, seq, link, linkId, links, inbox, table, seen>>

Ids == {NodeId(c) : c \in Certs}

\* An entry: the link it sends on, ticks since last_seen was stored in it, and
\* whether the reader task holds this very PeerConn, or the one it replaced.
CertEntry == [link : 1 .. MaxLinks, age : 0 .. StaleAge, held : BOOLEAN]

CertInit ==
    /\ cert \in Certs /\ saved = cert /\ seq = 0
    /\ link = "down" /\ linkId = NodeId(cert) /\ links = 0 /\ inbox = <<>>
    /\ table = [i \in Ids |-> {}] /\ seen = [i \in Ids |-> 0]

\* register_peer at the watcher; a node it has an entry for is turned away.
RotLinkUp ==
    /\ link = "down" /\ links < MaxLinks /\ table[NodeId(cert)] = {}
    /\ link' = "up" /\ linkId' = NodeId(cert) /\ links' = links + 1 /\ inbox' = <<>>
    /\ table' = [table EXCEPT ![NodeId(cert)] = {[link |-> links', age |-> 0, held |-> TRUE]}]
    /\ UNCHANGED <<cert, saved, seq, seen>>

\* rotation_loop: the certificate is installed, then announced on each link.
\* It is not saved.
Rotate ==
    /\ seq < MaxRotations
    /\ \E c \in Certs \ {cert} :
          /\ cert' = c /\ seq' = seq + 1
          /\ inbox' = IF link # "up" THEN inbox
                      ELSE Append(inbox, [old |-> NodeId(cert), new |-> c, seq |-> seq'])
    /\ UNCHANGED <<saved, link, linkId, links, table, seen>>

\* verify_rotation: the tag is over everything, under the link's own key.
VerifyRotation(m) == Verify(m.new)

\* The entry moves to the new id, rebuilt: same link, its own last_seen.
Rekeyed(m) ==
    [table EXCEPT ![m.old] = {},
                  ![NodeId(m.new)] = {[e EXCEPT !.age = 0, !.held = FALSE] : e \in table[m.old]}]

\* handle_cert_rotate: the sender by the id its reader task has for it, then the
\* entry, then the sequence number, which is marked, then the rest.
HandleCertRotate ==
    /\ link = "up" /\ inbox # <<>> /\ inbox' = Tail(inbox)
    /\ LET m == Head(inbox) IN
       IF m.old # linkId \/ table[m.old] = {} \/ m.seq <= seen[m.old]
       THEN UNCHANGED <<table, seen>>
       ELSE /\ seen' = [seen EXCEPT ![m.old] = m.seq]
            /\ table' = IF VerifyRotation(m) THEN Rekeyed(m) ELSE table
    /\ UNCHANGED <<cert, saved, seq, link, linkId, links>>

\* The link closes: the reader task removes the id it knew.
RotLinkCloses ==
    /\ link = "up" /\ link' = "down" /\ inbox' = <<>>
    /\ table' = [table EXCEPT ![linkId] = {}]
    /\ UNCHANGED <<cert, saved, seq, linkId, links, seen>>

\* ... or goes without a word, and then closes when a write to it fails.
RotLinkLost ==
    /\ link = "up" /\ link' = "lost" /\ inbox' = <<>>
    /\ UNCHANGED <<cert, saved, seq, linkId, links, table, seen>>
RotLinkGivenUp ==
    /\ link = "lost" /\ link' = "down"
    /\ table' = [table EXCEPT ![linkId] = {}]
    /\ UNCHANGED <<cert, saved, seq, linkId, links, inbox, seen>>

\* Time passes. Padding arrives every second of an open link, and its reader
\* task stores the time in the PeerConn it holds.
Heard(i, e) == link = "up" /\ i = linkId /\ e.held
RotTick ==
    /\ table' = [i \in Ids |-> {[e EXCEPT !.age = IF Heard(i, e) THEN 0
                                 ELSE IF @ < StaleAge THEN @ + 1 ELSE @] : e \in table[i]}]
    /\ UNCHANGED <<cert, saved, seq, link, linkId, links, inbox, seen>>

Silenced(e) == e.age = StaleAge

\* reap_dead_peers.
ReapRotated ==
    /\ \E i \in Ids : \E e \in table[i] : Silenced(e)
    /\ table' = [i \in Ids |-> {e \in table[i] : ~Silenced(e)}]
    /\ UNCHANGED <<cert, saved, seq, link, linkId, links, inbox, seen>>

\* The rotating node restarts: its identity file, and its counter from 0.
RotatorRestarts ==
    /\ link = "down" /\ seq > 0 /\ links < MaxLinks
    /\ cert' = saved /\ seq' = 0
    /\ UNCHANGED <<saved, link, linkId, links, inbox, table, seen>>

CertNext ==
    \/ RotLinkUp \/ Rotate \/ HandleCertRotate \/ RotLinkCloses \/ RotLinkLost \/ RotLinkGivenUp
    \/ RotTick \/ ReapRotated \/ RotatorRestarts

\* The reaper runs every 15 seconds, and time passes.
CertSpec == CertInit /\ [][CertNext]_certVars

---------------------------------------------------------------------------
\* Trial division.
Prime(n) == n >= 2 /\ \A k \in 2 .. n - 1 : n % k # 0
\* On every number a certificate of this many bits can hold.
TestIsRight == \A x \in 1 .. 2 ^ (Bits + 1) : IsPrime(x) <=> Prime(x)

CertTypeOK ==
    /\ cert \in Certs /\ seq \in 0 .. MaxRotations /\ linkId \in Ids
    /\ \A i \in Ids : table[i] \subseteq CertEntry /\ Cardinality(table[i]) <= 1

\* A certificate a node generates is one every other node accepts: two
\* computations, from j and from the fields, over a test that is right.
CertIsAccepted ==
    TestIsRight /\ Verify(cert) /\ Prime(cert.j) /\ Prime(cert.phi + 1)
===========================================================================
