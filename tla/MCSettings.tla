----------------------------- MODULE MCSettings -----------------------------
(* Settings on small tables, and checks of Smtp's definitions. *)
EXTENDS Settings, TLC

CONSTANTS c1, c2, c3, k1, k2, k3, a1, a2, p1, p2, system

MCConnectors == {c1, c2, c3}
MCKeys == {k1, k2, k3}
MCProcOf == a1 :> p1 @@ a2 :> p2
MCTables == {MCConnectors, MCKeys}

Complete == [host |-> "GMAIL", port |-> 587, security |-> "STARTTLS", from |-> "a@x", secret |-> "s"]
MCStart ==
    { c1 :> [NewRow(Complete) EXCEPT !.active = TRUE, !.status = "VALID"] @@
      c2 :> NewRow(Complete) @@ c3 :> Absent @@
      k1 :> [NewRow([secret |-> "sk"]) EXCEPT !.active = TRUE] @@
      k2 :> NewRow([secret |-> Garbled]) @@ k3 :> Absent }

MCCreations == {[from |-> "a@x", provider |-> "GMAIL", secret |-> "s"],
                [from |-> "a@x"],                       \* CUSTOM without a host: refused
                [from |-> "a@x", provider |-> "ACME"]}  \* no such service: refused
MCEdits == {[host |-> "GMAIL", secret |-> ""], [enabled |-> FALSE], [from |-> ""]}

\* Two spellings of one address, an empty line, and another address.
MCTo == <<"A@x", "", "a@x", "b@x">>
MCLower(r) == IF r = "A@x" THEN "a@x" ELSE r
-----------------------------------------------------------------------------
Forms == UNION { [fields -> {"", "GMAIL", "CUSTOM", "TLS", "a@x"}] :
                 fields \in SUBSET {"provider", "host", "security", "from"} }
WithPort(form) == {form} \cup {[port |-> n] @@ form : n \in {0, 587, 65536}}

\* What is accepted for creation can be sent with.
ASSUME CreatedCanSend ==
    \A form \in Forms : \A f \in WithPort(form) :
        LET c == ReadConnectorInput(f) IN ValidateForCreate(c) => Validate(c)

\* A service needs nothing but an address to send from.
ASSUME PresetSuffices ==
    \A p \in Providers \ {"CUSTOM"} :
        ValidateForCreate(ReadConnectorInput([provider |-> p, from |-> "a@x"]))

\* An edit changes no field that its form does not have.
ASSUME EditsKeep ==
    \A form \in Forms : Readable(form) =>
        \A f \in (DOMAIN Complete) \ DOMAIN form : Merged(Complete, form)[f] = Complete[f]

\* Every address once, in some spelling that was asked for, in the order of the list.
ASSUME RecipientsOnce ==
    \A n \in 0..4 : \A to \in [1..n -> {"", "A@x", "a@x", "b@x"}] :
        LET clean == CleanRecipients(to, MCLower)
        IN /\ {MCLower(r) : r \in ToSet(clean)} = {MCLower(r) : r \in ToSet(to)} \ {""}
           /\ \A i, j \in 1..Len(clean) : i < j =>
                 /\ MCLower(clean[i]) # MCLower(clean[j])
                 /\ SelectInSeq(to, LAMBDA r : r = clean[i]) < SelectInSeq(to, LAMBDA r : r = clean[j])
=============================================================================
