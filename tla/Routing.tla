------------------------------ MODULE Routing ------------------------------
(***************************************************************************)
(* Routing: Build indexes the rules GetRoutingRules returns, highest       *)
(* priority first, one rule at a time; Resolve looks a message up.         *)
(***************************************************************************)
EXTENDS Naturals, Sequences

CONSTANTS
    Domain,      \* domains as they are written, NoDomain among them
    NoDomain,    \* the empty string
    Lower(_),    \* strings.ToLower
    Provider,    \* provider ids
    RuleLists    \* the rule lists GetRoutingRules may return

Rule == [recipient: Domain, sender: Domain, chain: Seq(Provider), enabled: BOOLEAN,
         priority: Nat]

ASSUME LowerAssumption ==
    /\ NoDomain \in Domain /\ Lower(NoDomain) = NoDomain
    /\ \A d \in Domain : Lower(d) \in Domain /\ Lower(Lower(d)) = Lower(d)
ASSUME RuleListsAssumption ==
    \A rs \in RuleLists :
        /\ rs \in Seq(Rule)
        /\ \A i, j \in 1..Len(rs) : i <= j => rs[i].priority >= rs[j].priority

VARIABLES
    rules,      \* Build's argument
    i,          \* the rule the loop is at
    recipient,  \* e.recipient; <<>> where there is no entry
    sender,     \* e.sender
    def         \* e.def

indexVars == <<rules, i, recipient, sender, def>>

IndexInit ==
    /\ rules \in RuleLists /\ i = 1
    /\ recipient = [d \in Domain |-> <<>>] /\ sender = [d \in Domain |-> <<>>]
    /\ def = <<>>

Indexed(r) == r.enabled /\ r.chain # <<>>

\* The first rule seen for a key wins.
PutNew(index, key, chain) ==
    IF index[key] = <<>> THEN [index EXCEPT ![key] = chain] ELSE index

Skip ==
    /\ ~Indexed(rules[i])
    /\ UNCHANGED <<recipient, sender, def>>

IndexRecipient ==
    LET r == rules[i] IN
    /\ Indexed(r) /\ r.recipient # NoDomain
    /\ recipient' = PutNew(recipient, Lower(r.recipient), r.chain)
    /\ UNCHANGED <<sender, def>>

IndexSender ==
    LET r == rules[i] IN
    /\ Indexed(r) /\ r.recipient = NoDomain /\ r.sender # NoDomain
    /\ sender' = PutNew(sender, Lower(r.sender), r.chain)
    /\ UNCHANGED <<recipient, def>>

IndexDefault ==
    LET r == rules[i] IN
    /\ Indexed(r) /\ r.recipient = NoDomain /\ r.sender = NoDomain
    /\ def' = IF def = <<>> THEN r.chain ELSE def
    /\ UNCHANGED <<recipient, sender>>

IndexNext ==
    /\ i <= Len(rules) /\ i' = i + 1 /\ UNCHANGED rules
    /\ Skip \/ IndexRecipient \/ IndexSender \/ IndexDefault

IndexSpec == IndexInit /\ [][IndexNext]_indexVars

Built == i = Len(rules) + 1

\* Variant: sender rules are looked up first.
ResolveSenderFirst(rcpt, from) ==
    CASE sender[Lower(from)] # <<>> -> sender[Lower(from)]
      [] sender[Lower(from)] = <<>> /\ recipient[Lower(rcpt)] # <<>> -> recipient[Lower(rcpt)]
      [] OTHER -> def

\* Resolve; <<>> stands for nil.
Resolve(rcpt, from) ==
    CASE recipient[Lower(rcpt)] # <<>> -> recipient[Lower(rcpt)]
      [] recipient[Lower(rcpt)] = <<>> /\ sender[Lower(from)] # <<>> -> sender[Lower(from)]
      [] OTHER -> def
-----------------------------------------------------------------------------
(***************************************************************************)
(* What Build and Resolve are to compute, said without either.             *)
(***************************************************************************)
RecipientRules(rcpt) ==
    {k \in 1..Len(rules) : Indexed(rules[k]) /\ rules[k].recipient # NoDomain
                           /\ Lower(rules[k].recipient) = Lower(rcpt)}
SenderRules(from) ==
    {k \in 1..Len(rules) : Indexed(rules[k]) /\ rules[k].recipient = NoDomain
                           /\ rules[k].sender # NoDomain
                           /\ Lower(rules[k].sender) = Lower(from)}
DefaultRules ==
    {k \in 1..Len(rules) : Indexed(rules[k]) /\ rules[k].recipient = NoDomain
                           /\ rules[k].sender = NoDomain}

Candidates(rcpt, from) ==
    IF RecipientRules(rcpt) # {} THEN RecipientRules(rcpt)
    ELSE IF SenderRules(from) # {} THEN SenderRules(from) ELSE DefaultRules

\* Every variable keeps its type: the loop stays within the rules.
TypeOK ==
    /\ rules \in RuleLists /\ i \in 1..(Len(rules) + 1)
    /\ recipient \in [Domain -> Seq(Provider)] /\ sender \in [Domain -> Seq(Provider)]
    /\ def \in Seq(Provider)

\* Recipient rules come before sender rules and those before the default, whatever
\* their priorities; within the class the highest priority wins; case is ignored;
\* and a message no enabled rule with providers applies to gets no chain.
Precedence ==
    Built => \A rcpt \in Domain, from \in Domain :
        LET cand == Candidates(rcpt, from) IN
        IF cand = {} THEN Resolve(rcpt, from) = <<>>
        ELSE \E k \in cand : /\ Resolve(rcpt, from) = rules[k].chain
                             /\ \A j \in cand : rules[j].priority <= rules[k].priority

\* What the loop has established about the rules before i: an index entry is the
\* chain of the first of them for its key, and there is no entry without one.
Seen == 1..(i - 1)
FirstOf(k, ks) == k \in ks \cap Seen /\ \A j \in ks \cap Seen : k <= j
LoopInv ==
    /\ \A d \in Domain :
          IF RecipientRules(d) \cap Seen = {} THEN recipient[Lower(d)] = <<>>
          ELSE \E k \in 1..Len(rules) : /\ FirstOf(k, RecipientRules(d))
                                        /\ recipient[Lower(d)] = rules[k].chain
    /\ \A d \in Domain :
          IF SenderRules(d) \cap Seen = {} THEN sender[Lower(d)] = <<>>
          ELSE \E k \in 1..Len(rules) : /\ FirstOf(k, SenderRules(d))
                                        /\ sender[Lower(d)] = rules[k].chain
    /\ IF DefaultRules \cap Seen = {} THEN def = <<>>
       ELSE \E k \in 1..Len(rules) : FirstOf(k, DefaultRules) /\ def = rules[k].chain
=============================================================================
