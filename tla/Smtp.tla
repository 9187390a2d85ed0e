-------------------------------- MODULE Smtp --------------------------------
(***************************************************************************)
(* What makes a mail server's settings complete: the presets of the mail   *)
(* services (email/providers.go), how a console form is read               *)
(* (httpapi/connectors.go), and what is required to store a connector and  *)
(* to send with it (email/email.go).                                       *)
(*                                                                         *)
(* A form is a function from the fields that were filled in to their       *)
(* values; "" and 0 stand for an empty text and number.                    *)
(***************************************************************************)
EXTENDS Integers, Sequences, FiniteSets, SequencesExt

Securities == {"STARTTLS", "TLS", "NONE"}

\* A service's host is called by the service's name; CUSTOM has none.
Providers == {"GMAIL", "OUTLOOK", "ZOHO", "SENDGRID", "CUSTOM"}
Preset(p) == [host |-> IF p = "CUSTOM" THEN "" ELSE p, port |-> 587, security |-> "STARTTLS"]

Settable == {"host", "port", "security", "from"}
Given(form, f, default) == IF f \in DOMAIN form THEN form[f] ELSE default
Unless(v, empty, default) == IF v = empty THEN default ELSE v

\* readConnectorInput refuses an unknown service; a known one fills in what the form
\* leaves empty.
Provider(form) == Unless(Given(form, "provider", ""), "", "CUSTOM")
Readable(form) == Provider(form) \in Providers
ReadConnectorInput(form) ==
    LET preset == Preset(Provider(form))
    IN [ host |-> Unless(Given(form, "host", ""), "", preset.host),
         port |-> Unless(Given(form, "port", 0), 0, preset.port),
         security |-> Unless(Given(form, "security", ""), "", preset.security),
         from |-> Given(form, "from", ""),
         secret |-> Given(form, "secret", "") ]

\* Texts with an "@"; a server is needed to tell whether one is an address.
IsAddress(text) == text \notin {"", "no-at-sign"}

ValidateForCreate(c) ==
    c.host # "" /\ c.port \in 1..65535 /\ c.security \in Securities /\ IsAddress(c.from)

\* mutUpdateEmailConnector: the fields of the form, as they were read, and a secret that
\* is not empty.  Nothing is validated.
Merged(c, form) ==
    LET read == ReadConnectorInput(form)
    IN [ f \in DOMAIN c |->
            IF f \in Settable \cap DOMAIN form THEN read[f]
            ELSE IF f = "secret" THEN Unless(read.secret, "", c.secret)
            ELSE c[f] ]

\* SMTPConfig.Validate: before anything is dialled.
Validate(c) == c.host # "" /\ c.port \in 1..65535 /\ c.security \in Securities /\ c.from # ""

\* cleanRecipients: the first of the addresses that differ in case only, in the order of the
\* list; Lower(r) is r in lower case, "" an empty line.
CleanRecipients(to, Lower(_)) ==
    LET kept == {i \in 1..Len(to) :
                    to[i] # "" /\ \A j \in 1..(i - 1) : Lower(to[j]) # Lower(to[i])}
        Nth(n) == CHOOSE i \in kept : Cardinality({j \in kept : j <= i}) = n
    IN [n \in 1..Cardinality(kept) |-> to[Nth(n)]]
=============================================================================
