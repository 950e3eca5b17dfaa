-------------------------- MODULE IdentityModels --------------------------
(***************************************************************************)
(* What the identity sources say and the tables hold, and how a message is *)
(* merged into a row.                                                      *)
(*                                                                         *)
(* A row holds a projection of what the sources say.  A message about a    *)
(* customer is partial: what it omits stays.  A message about providers is *)
(* a list of snapshots that replace what is stored.                        *)
(***************************************************************************)
EXTENDS Naturals, Sequences

CONSTANTS
  References,      \* external references of customers
  Providers,       \* codes of identity providers
  Contacts,        \* values of the fields that come without a condition
  Capabilities,    \* what a provider may be able to do
  CustomerEvents,  \* messages of the identity sources about customers
  Snapshots        \* messages about providers: sequences of items

\* NULL in the tables and in a message, and a field a message does not have.
Null == "null"
Omitted == "undefined"

IdentityStatus == {"NOT_SUBMITTED", "FORMAT_VALID", "VERIFICATION_PENDING", "VERIFIED",
                   "VERIFICATION_FAILED", "REVIEW_REQUIRED"}

\* The fields of a customer, as far as one stands or falls with another: the evidence
\* of a verification (identity_provider_reference and identity_verified_at), a document
\* (identity_type, identity_country and identity_number_mask) and the flag
\* identity_configured, a consent (consent_version and consent_accepted_at) and the
\* flag identity_consent_accepted; and all that is free: phone, email, name and so on.
\* A flag that is false is Null.
Fields == {"evidence", "document", "configured", "consent", "accepted", "contact"}

Values == {"present", Null} \cup Contacts

Projection == [status : IdentityStatus, fields : [Fields -> Values]]

\* identity_source_updated_at or source_updated_at, 0 if NULL; and what it belongs to.
\* A provider that is not stored yet has no capability.
Coverage == [capability : Capabilities \cup {Null}]

Row == [time : Nat, data : Projection \cup Coverage]

NoCoverage == [capability |-> Null]

Keys == References \cup Providers

CustomerEvent == [key : References, time : Nat \ {0}, status : IdentityStatus,
                  fields : [Fields -> Values \cup {Omitted}]]

CapabilityItem == [key : Providers, time : Nat \ {0}, data : [capability : Capabilities]]

ASSUME KeysAssumption == References \cap Providers = {}
ASSUME ContactsAssumption == {"present", Null, Omitted} \cap Contacts = {}
ASSUME MessagesAssumption ==
  /\ CustomerEvents \subseteq CustomerEvent
  /\ Snapshots \subseteq Seq(CapabilityItem)

\* A message about a customer has one item.
Messages == {<<e>> : e \in CustomerEvents} \cup Snapshots

\* Mutant of Merged: what a message omits is taken for what it says.
InputOnly(data, item) == [status |-> item.status, fields |-> item.fields]

\* What a row becomes with an item.
Merged(data, item) ==
  [status |-> item.status,
   fields |-> [f \in Fields |-> IF item.fields[f] = Omitted THEN data.fields[f]
                                                            ELSE item.fields[f]]]

Effective(row, item) ==
  [time |-> item.time,
   data |-> IF item.key \in References THEN Merged(row.data, item) ELSE item.data]

\* Three claims about a customer that need something to show for them.
Evidenced(data) ==
  /\ data.status = "VERIFIED" => data.fields["evidence"] # Null
  /\ data.fields["configured"] # Null => data.fields["document"] # Null
  /\ data.fields["accepted"] # Null => data.fields["consent"] # Null

Valid(key, row) == key \in References => Evidenced(row.data)

\* Customers known from before the synchronisation have contacts and nothing else.
NoIdentity(contact) ==
  [status |-> "NOT_SUBMITTED", fields |-> [[f \in Fields |-> Null] EXCEPT !["contact"] = contact]]

FirstRows ==
  {[k \in Keys |-> [time |-> 0,
                    data |-> IF k \in References THEN NoIdentity(known[k]) ELSE NoCoverage]]
     : known \in [References -> Contacts \cup {Null}]}

\* After a message, nothing of it is news.
Reflects(row, item) ==
  \/ row.time > item.time
  \/ row.time = item.time /\ Effective(row, item) = row

=============================================================================
