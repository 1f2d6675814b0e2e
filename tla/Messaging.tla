----------------------------- MODULE Messaging -----------------------------
(***************************************************************************)
(* com, the messenger of phinet-core/src/com.rs as PhiNode drives it: one  *)
(* sealed envelope per message, gossiped from mailbox to mailbox until its *)
(* recipient opens it, injected at a circuit's exit as well, held for a    *)
(* day for a recipient who is away, and pulled by him every 30 seconds.    *)
(*                                                                         *)
(* Sealing is what it grants: an envelope carries its recipient's blinded  *)
(* address, and only that recipient learns the sender and the body.  A     *)
(* tick is a part of a day, far longer than a message spends on a link, so *)
(* the clock moves only when nothing is under way.                         *)
(***************************************************************************)
EXTENDS Naturals, Sequences, FiniteSets, SequencesExt, Sifting

CONSTANTS User,      \* the nodes
          Talker,    \* those somebody types messages into
          Edge,      \* the pairs of nodes that may be linked
          Address,   \* who is given whose address out of band: pairs of nodes
          Restarting, \* the nodes that may restart
          Group,     \* the groups that may be created
          EpochLen,  \* com::EPOCH_SECS, in ticks
          MailTTL,   \* Mailbox.ttl_secs, in ticks
          BoxCap,    \* Mailbox.max_per_box
          MaxMsgs,   \* bound: messages sent
          ComFaults, \* bound: links lost and nodes restarted
          ComEnd     \* bound on the clock

ASSUME MessagingAssumption ==
    /\ Talker \subseteq User /\ Restarting \subseteq User /\ Edge \subseteq {{p, q} : p, q \in User}
    /\ Address \subseteq User \X User
    /\ EpochLen \in Nat \ {0} /\ MailTTL \in Nat \ {0} /\ BoxCap \in Nat \ {0}
    /\ MaxMsgs \in Nat /\ ComFaults \in Nat /\ ComEnd \in Nat

VARIABLES com,       \* the messaging state of each node
          linked,    \* the pairs of nodes that are linked
          mailWire,  \* the com messages on each link, by <<from, to>>
          injected,  \* the envelopes on a circuit, with the exit they go to
          sent,      \* the envelopes sealed so far, in order: one id each
          comNow,    \* the clock
          comFaults, \* links lost and nodes restarted so far
          opened,    \* history: the ids each node has opened
          unsent     \* history: the ids each node was told to delete, by its present process
comVars == <<com, linked, mailWire, injected, sent, comNow, comFaults, opened, unsent>>

MsgId == 1..MaxMsgs
NoGroup == [joined |-> FALSE, members |-> {}, signers |-> {}]
GroupState == [joined : BOOLEAN, members : SUBSET User, signers : SUBSET User]

\* blinded_addr: an address is the pair of whose it is and for which epoch.
Epoch(t) == t \div EpochLen
Blinded(who, epoch) == <<who, epoch>>

\* my_blinded_addrs and Group::my_blinded_addrs: the current epoch and its neighbours.
\* (The epoch before 0, which no envelope has, stands for itself.)
MyBlindedAddrs(whose) ==
    {Blinded(w, e) : w \in whose, e \in {Epoch(comNow), Epoch(comNow) + 1}}
        \cup {Blinded(w, Epoch(comNow) - 1) : w \in IF Epoch(comNow) = 0 THEN {} ELSE whose}
\* Mutant: a pull asks for the present epoch's mail only.
MyBlindedAddrs_today(whose) == {Blinded(w, Epoch(comNow)) : w \in whose}
PullAddrs(whose) == MyBlindedAddrs(whose)

\* seal: "about" is the message a delete marker names, "group"
\* the group an invitation carries.
Seal(from, to, kind, about, group) ==
    [id |-> Len(sent) + 1, from |-> from, blinded |-> Blinded(to, Epoch(comNow)), sealedIn |-> Epoch(comNow),
     kind |-> kind, about |-> about, group |-> group]
SealGroup(from, g) == Seal(from, g, "group", 0, NoGroup)
Whose(env) == env.blinded[1]

\* addressed_to_us: the window is around the epoch the envelope itself names.
AddressedToUs(n, env) ==
    \E e \in {env.sealedIn, env.sealedIn + 1, env.sealedIn - 1} : env.blinded = Blinded(n, e)

Peers(n) == {p \in User : {n, p} \in linked}

-----------------------------------------------------------------------------
(* Inbox and Mailbox. *)

\* Inbox::record and Inbox::remove, on a node's state s.
Record(s, id) == IF id \in s.seen THEN s ELSE [s EXCEPT !.seen = @ \cup {id}, !.messages = @ \cup {id}]
\* Mutant: an unsent message's id is not kept.
RemoveMsg_plain(s, id) == [s EXCEPT !.messages = @ \ {id}]
RemoveMsg(s, id) == [s EXCEPT !.messages = @ \ {id}, !.seen = @ \cup {id}]

\* Mailbox::store and store_group: a box over its limit loses its oldest envelope.
Store(s, env) ==
    LET added == Append(s.box, [at |-> comNow, env |-> env])
        mine == {i \in 1..Len(added) : added[i].env.blinded = env.blinded}
        oldest == CHOOSE i \in mine : \A j \in mine : i <= j
    IN [s EXCEPT !.known = @ \cup {env.id},
                 !.box = IF Cardinality(mine) > BoxCap THEN RemoveAt(added, oldest) ELSE added]

\* Mailbox::peek and peek_group over the addresses asked for; evict_expired.
Peek(s, addrs) == SeqAt(s.box, {i \in 1..Len(s.box) : s.box[i].env.blinded \in addrs})
Evicted(s) ==
    [s EXCEPT !.box = SeqAt(@, {i \in 1..Len(@) : comNow - @[i].at < MailTTL})]

-----------------------------------------------------------------------------
(* What a node does with an envelope.  The reader task of a link handles   *)
(* its messages one by one; a node's state is a record the handlers map.   *)

\* handle_com, for an envelope the node can open.
HandleCom(s, env) ==
    LET known == [s EXCEPT !.contacts = @ \cup {env.from}]
    IN CASE env.kind = "delete" -> RemoveMsg(known, env.about)
         [] env.kind = "invite" -> [known EXCEPT !.groups[env.about] = env.group]
         [] env.kind = "chat"   -> Record(known, env.id)

\* file_group_msg: the sender's signing key is bound on first sight; each
\* node has one, so no binding ever conflicts.
FileGroupMsg(s, env) ==
    IF ~s.groups[Whose(env)].joined THEN s
    ELSE Record([s EXCEPT !.groups[Whose(env)].signers = @ \cup {env.from}], env.id)

\* open, open_group: who can read an envelope.
Opens(n, s, env) == \/ env.kind # "group" /\ AddressedToUs(n, env)
                    \/ env.kind = "group" /\ s.groups[Whose(env)].joined

\* handle_com_mail, and what the two store handlers do first: the node reads
\* what it can of envs, one after the other.
Read(s, env) == IF env.kind = "group" THEN FileGroupMsg(s, env) ELSE HandleCom(s, env)
ReadAll(n, s, envs) ==
    LET after[i \in 0..Len(envs)] ==
            IF i = 0 THEN s
            ELSE IF Opens(n, after[i - 1], envs[i]) THEN Read(after[i - 1], envs[i]) ELSE after[i - 1]
    IN after[Len(envs)]
Readable(n, s, envs) == {env \in Range(envs) : Opens(n, s, env)}
Deletions(envs) == {env.about : env \in {e \in envs : e.kind = "delete"}}

\* A node's state becomes s after it read envs.
BecomesAfter(n, s, envs) ==
    LET read == Readable(n, com[n], envs)
    IN /\ com' = [com EXCEPT ![n] = s]
       /\ opened' = [opened EXCEPT ![n] = @ \cup {env.id : env \in read}]
       /\ unsent' = [unsent EXCEPT ![n] = @ \cup Deletions(read)]

\* The same message onto the link to each of dests, after the wires w.
SentTo(w, n, dests, msg) ==
    [l \in DOMAIN w |-> IF l[1] = n /\ l[2] \in dests THEN Append(w[l], msg) ELSE w[l]]

\* handle_com_store, handle_com_group_store and inject_com_store: read it if it is
\* ours; a one-to-one envelope of ours goes no further, any other is held and,
\* the first time, passed on to dests.
StoreAndForward(n, env, dests, w) ==
    LET s == ReadAll(n, com[n], <<env>>)
        mine == env.kind # "group" /\ AddressedToUs(n, env)
        fresh == ~mine /\ env.id \notin s.known
    IN /\ BecomesAfter(n, IF fresh THEN Store(s, env) ELSE s, <<env>>)
       /\ mailWire' = IF fresh THEN SentTo(w, n, dests, [type |-> "store", env |-> env]) ELSE w

-----------------------------------------------------------------------------
(* The user's operations. *)

\* com_send_anonymous: our own copy is recorded unless the body is a control
\* message; the envelope goes to the exit of a circuit when one can be built,
\* and to every peer whether or not there is one.
SendAnonymous(n, s, to, kind, about, group) ==
    LET env == Seal(n, to, kind, about, group)
    IN /\ Len(sent) < MaxMsgs
       /\ sent' = Append(sent, env)
       /\ com' = [com EXCEPT ![n] = IF kind = "chat" THEN Record(s, env.id) ELSE s]
       /\ mailWire' = SentTo(mailWire, n, Peers(n), [type |-> "store", env |-> env])
       /\ \E exits \in SUBSET Peers(n) :
            /\ Cardinality(exits) <= 1
            /\ injected' = injected \cup {<<x, env>> : x \in exits}
       /\ UNCHANGED <<linked, comNow, comFaults, opened>>

\* com_resolve_pub: a peer's key, or a contact's.
Resolves(n, to) == to \in Peers(n) \cup com[n].contacts

\* com_add_contact, from an address given out of band.
AddContact(n, c) ==
    /\ c \notin com[n].contacts
    /\ com' = [com EXCEPT ![n].contacts = @ \cup {c}]
    /\ UNCHANGED <<linked, mailWire, injected, sent, comNow, comFaults, opened, unsent>>

\* com_send_to, through the control port or the local web page.
SendTo(n, to) ==
    /\ to # n /\ Resolves(n, to)
    /\ SendAnonymous(n, com[n], to, "chat", 0, NoGroup)
    /\ UNCHANGED unsent

\* com_delete: the message leaves our thread, and its peer is told if we know his key.
Delete(n, to, id) ==
    /\ id \in com[n].messages
    /\ unsent' = [unsent EXCEPT ![n] = @ \cup {id}]
    /\ \/ Resolves(n, to) /\ to # n /\ SendAnonymous(n, RemoveMsg(com[n], id), to, "delete", id, NoGroup)
       \/ /\ ~Resolves(n, to)
          /\ com' = [com EXCEPT ![n] = RemoveMsg(@, id)]
          /\ UNCHANGED <<linked, mailWire, injected, sent, comNow, comFaults, opened>>

\* com_create_group.
CreateGroup(n, g) ==
    /\ \A p \in User : ~com[p].groups[g].joined
    /\ com' = [com EXCEPT ![n].groups[g] = [joined |-> TRUE, members |-> {n}, signers |-> {n}]]
    /\ UNCHANGED <<linked, mailWire, injected, sent, comNow, comFaults, opened, unsent>>

\* com_invite_to_group: the group as we have it, in a sealed message.
Invite(n, g, to) ==
    LET group == [com[n].groups[g] EXCEPT !.members = @ \cup {to}]
    IN /\ com[n].groups[g].joined /\ to # n /\ Resolves(n, to)
       /\ SendAnonymous(n, [com[n] EXCEPT !.groups[g] = group], to, "invite", g, group)
       /\ UNCHANGED unsent

\* com_send_group: our copy, and the envelope to every peer.
SendGroup(n, g) ==
    LET env == SealGroup(n, g)
    IN /\ com[n].groups[g].joined /\ Len(sent) < MaxMsgs
       /\ sent' = Append(sent, env)
       /\ com' = [com EXCEPT ![n] = Record(@, env.id)]
       /\ mailWire' = SentTo(mailWire, n, Peers(n), [type |-> "store", env |-> env])
       /\ UNCHANGED <<linked, injected, comNow, comFaults, opened, unsent>>

\* The com_* commands of the control port.
ControlCommand(n) ==
    \/ \E x \in Address : x[1] = n /\ AddContact(n, x[2])
    \/ \E to \in User : SendTo(n, to)
    \/ \E to \in User, id \in MsgId : Delete(n, to, id)
    \/ \E g \in Group : CreateGroup(n, g)
    \/ \E g \in Group, to \in User : Invite(n, g, to)
    \/ \E g \in Group : SendGroup(n, g)

\* The local web page's requests: a Host or an Origin that is not of this machine
\* turns one away before its path is looked at, a preflight is answered with
\* nothing, and one whose parameters do not parse with an error.
WebRequest == [host : {"none", "loopback", "other"}, origin : {"none", "loopback", "other"},
               method : {"GET", "OPTIONS"}, params : {"parsed", "bad"}]
WebGranted(r) == r.host # "other" /\ r.origin # "other" /\ r.method # "OPTIONS"
WebCommand(n) == (\E r \in WebRequest : WebGranted(r) /\ r.params = "parsed") /\ ControlCommand(n)

-----------------------------------------------------------------------------
(* The network and the maintenance loop. *)

\* dispatch: the message at the head of the link from p to n.
Deliver(p, n) ==
    LET msg == Head(mailWire[<<p, n>>])
        rest == [mailWire EXCEPT ![<<p, n>>] = Tail(@)]
    IN /\ mailWire[<<p, n>>] # <<>>
       /\ \/ /\ msg.type = "store"
             /\ StoreAndForward(n, msg.env, Peers(n) \ {p}, rest)
          \/ /\ msg.type = "mail"         \* handle_com_mail
             /\ BecomesAfter(n, ReadAll(n, com[n], msg.envs), msg.envs)
             /\ mailWire' = rest
       /\ UNCHANGED <<linked, injected, sent, comNow, comFaults>>

\* ComInject at the circuit's last hop, whose peers include the sender.
InjectArrives(x, env) ==
    /\ <<x, env>> \in injected
    /\ injected' = injected \ {<<x, env>>}
    /\ StoreAndForward(x, env, Peers(x), mailWire)
    /\ UNCHANGED <<linked, sent, comNow, comFaults>>

\* The circuit is torn down right after the cell: it may not arrive.
InjectLost(x, env) ==
    /\ <<x, env>> \in injected
    /\ injected' = injected \ {<<x, env>>}
    /\ UNCHANGED <<com, linked, mailWire, sent, comNow, comFaults, opened, unsent>>

\* com_maintenance_loop.  com_pull asks every peer for the mail under our
\* addresses, and each answers when it comes to it (handle_com_fetch); the 30
\* seconds to the next pull are enough for that.  Nothing comes of an empty answer.
ComMail(p, addrs) ==
    LET found == Peek(com[p], addrs) IN [i \in 1..Len(found) |-> found[i].env]
Pull(n, p) ==
    LET found == ComMail(p, PullAddrs({n} \cup {g \in Group : com[n].groups[g].joined}))
    IN /\ p \in Peers(n) /\ found # <<>>
       /\ \A i \in 1..Len(mailWire[<<p, n>>]) : mailWire[<<p, n>>][i].type # "mail"
       /\ mailWire' = SentTo(mailWire, p, {n}, [type |-> "mail", envs |-> found])
       /\ UNCHANGED <<com, linked, injected, sent, comNow, comFaults, opened, unsent>>

\* The sweep of the same loop.
Sweep(n) ==
    /\ Evicted(com[n]) # com[n]
    /\ com' = [com EXCEPT ![n] = Evicted(@)]
    /\ UNCHANGED <<linked, mailWire, injected, sent, comNow, comFaults, opened, unsent>>

LinkComesUp(e) ==
    /\ e \notin linked
    /\ linked' = linked \cup {e}
    /\ UNCHANGED <<com, mailWire, injected, sent, comNow, comFaults, opened, unsent>>

\* A link that goes down takes what is on it.
Cut(w, edges) == [l \in DOMAIN w |-> IF {l[1], l[2]} \in edges THEN <<>> ELSE w[l]]
LinkGoesDown(e) ==
    /\ e \in linked /\ comFaults < ComFaults
    /\ comFaults' = comFaults + 1
    /\ linked' = linked \ {e}
    /\ mailWire' = Cut(mailWire, {e})
    /\ UNCHANGED <<com, injected, sent, comNow, opened, unsent>>

\* PhiNode::new: nothing of com is on disk.
Fresh == [contacts |-> {}, seen |-> {}, messages |-> {}, groups |-> [g \in Group |-> NoGroup],
          known |-> {}, box |-> <<>>]
Restart(n) ==
    /\ comFaults < ComFaults
    /\ comFaults' = comFaults + 1
    /\ com' = [com EXCEPT ![n] = Fresh]
    /\ linked' = {e \in linked : n \notin e}
    /\ mailWire' = Cut(mailWire, {e \in linked : n \in e})
    /\ injected' = {x \in injected : x[1] # n}
    /\ unsent' = [unsent EXCEPT ![n] = {}]
    /\ UNCHANGED <<sent, comNow, opened>>

ComTick ==
    /\ comNow < ComEnd /\ injected = {} /\ \A l \in DOMAIN mailWire : mailWire[l] = <<>>
    /\ comNow' = comNow + 1
    /\ UNCHANGED <<com, linked, mailWire, injected, sent, comFaults, opened, unsent>>

-----------------------------------------------------------------------------
ComInit ==
    /\ com = [n \in User |-> Fresh] /\ linked = Edge
    /\ mailWire = [l \in {<<p, q>> : p, q \in User} |-> <<>>]
    /\ injected = {} /\ sent = <<>> /\ comNow = 0 /\ comFaults = 0
    /\ opened = [n \in User |-> {}] /\ unsent = [n \in User |-> {}]

ComNext ==
    \/ \E n \in Talker : ControlCommand(n)
    \/ \E n \in Talker : WebCommand(n)
    \/ \E p, n \in User : Deliver(p, n)
    \/ \E x \in injected : InjectArrives(x[1], x[2])
    \/ \E x \in injected : InjectLost(x[1], x[2])
    \/ \E n, p \in User : Pull(n, p)
    \/ \E n \in User : Sweep(n)
    \/ \E e \in Edge : LinkComesUp(e)
    \/ \E e \in Edge : LinkGoesDown(e)
    \/ \E n \in Restarting : Restart(n)
    \/ ComTick

ComFairness ==
    /\ \A p, n \in User : WF_comVars(Deliver(p, n))
    /\ \A n, p \in User : WF_comVars(Pull(n, p))
    /\ \A n \in User : WF_comVars(Sweep(n))
    /\ \A e \in Edge : WF_comVars(LinkComesUp(e))
ComSpec == ComInit /\ [][ComNext]_comVars /\ ComFairness

ComTypeOK ==
    /\ com \in [User -> [contacts : SUBSET User, seen : SUBSET MsgId, messages : SUBSET MsgId,
                         groups : [Group -> GroupState], known : SUBSET MsgId, box : Seq([at : Nat, env : Range(sent)])]]
    /\ linked \subseteq Edge /\ comNow \in 0..ComEnd /\ comFaults \in 0..ComFaults
    /\ opened \in [User -> SUBSET MsgId] /\ unsent \in [User -> SUBSET MsgId]

\* Once a process was told to delete a message, by its own user or by the
\* sender's marker, no copy that reaches it later, whichever of two paths or
\* of two mailboxes it comes from, brings the message back (Inbox::remove).
UnsentStaysUnsent == \A n \in User : unsent[n] \cap com[n].messages = {}

\* An envelope a neighbour of its recipient holds is opened by the recipient,
\* through links and processes that come and go, unless the neighbour loses it first:
\* the day for which a mailbox holds mail and the epochs a pull asks for agree.
Held(p, m) == \E i \in 1..Len(com[p].box) : com[p].box[i].env.id = m
MailIsFetched ==
    \A m \in MsgId :
        LET waiting == m <= Len(sent) /\ \E p \in User : {p, Whose(sent[m])} \in Edge /\ Held(p, m)
        IN []<>(waiting => m \in opened[Whose(sent[m])])
=============================================================================
