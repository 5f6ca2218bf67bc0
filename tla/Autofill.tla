------------------------------ MODULE Autofill ------------------------------
(* Reading a resume into an application's form and recording afterwards who
   wrote what (autofillService.js, resumeDefenseService.js, the autofill and
   apply handlers of candidateController.js, resumeController.js): a library
   resume and a saved version of the same file, a model that may be off, failing,
   out of credit or inventive, and a pipeline that is upgraded.  A line of the
   resume states one fact.                                                    *)
EXTENDS Integers, Sequences, FiniteSets, SequencesExt

CONSTANTS Facts,       \* integers, in document order
          Identity,    \* [Facts -> keys], an entry's identifying fields
          Hostile,     \* facts on lines that address the screening system
          NoPayload,
          MaxUpgrades, MaxOutages

VARIABLES text,        \* the facts the file states; {} when nothing can be read
          library,     \* the Resume: whether it is there, and its autofill cache
          version,     \* the ResumeVersion's autofill cache
          pipeline,    \* AUTOFILL_VERSION and prompt version
          model,       \* off, up, failing, or the outage it is out of credit in
          outages,
          told,        \* outages an alert was sent for, one entry per alert
          screen,      \* the payload the candidate's form was filled from
          application  \* what was recorded with the application

vars == <<text, library, version, pipeline, model, outages, told, screen, application>>

Reasons == {"none", "autofill_disabled", "no_text", "llm_not_configured", "llm_no_credits", "extraction_failed"}
Payloads == [engine : {"ai", "deterministic"}, degraded : Reasons, basics : BOOLEAN, entries : Seq(Facts), version : 0 .. MaxUpgrades]
IsPayload(p) == p = NoPayload \/ p \in Payloads
Sources == {"candidate", "autofill_accepted", "autofill_edited"}

TypeOK ==
    /\ text \subseteq Facts /\ library.there \in BOOLEAN
    /\ IsPayload(library.cache) /\ IsPayload(version) /\ IsPayload(screen)
    /\ pipeline \in 0 .. MaxUpgrades /\ model \in {"off", "up", "failing", "no_credits"}
    /\ outages \in 0 .. MaxOutages /\ told \in Seq(1 .. MaxOutages)
    /\ \A i \in DOMAIN application.entries : application.entries[i].source \in Sources
    /\ \A count \in {"suggested", "accepted", "edited", "discarded"} : application.counts[count] \in Nat

NoCounts == [suggested |-> 0, accepted |-> 0, edited |-> 0, discarded |-> 0]
NotApplied == [made |-> FALSE, entries |-> <<>>, counts |-> NoCounts]

Init ==
    /\ text \in SUBSET Facts /\ library \in [there : BOOLEAN, cache : {NoPayload}]
    /\ version = NoPayload /\ pipeline = 0 /\ model \in {"off", "up"} /\ outages = 0 /\ told = <<>>
    /\ screen = NoPayload /\ application = NotApplied

-----------------------------------------------------------------------------
(* analyze: the lines excluded from the model's view, whose offsets stay.    *)
Excluded == text \cap Hostile
\* As if quotes were looked up in the whole document.
WholeText == text
View == text \ Excluded

(* locateQuote and verifySection: an entry stays when a quote of it stands in
   the view and it has one of its identifying fields; the rest is dropped.
   What stays is listed as the document has it, which is one listing.        *)
RawEntries == [Facts -> {"absent", "quoted", "unquoted", "empty"}]
Cited(raw) == {f \in Facts : raw[f] = "quoted" /\ f \in View}
InOrder(S) == {list \in [1 .. Cardinality(S) -> S] : \A i, j \in 1 .. Cardinality(S) : i < j => list[i] < list[j]}
VerifySection(raw) == InOrder(Cited(raw))

(* The payloads of suggestForResume: contact details by pattern alone, with the
   reason why there is no more, or the model's reading.                      *)
Payload(how, why, found, list) == [engine |-> how, degraded |-> why, basics |-> found, entries |-> list, version |-> pipeline]
EmptyPayload(why) == Payload("deterministic", why, FALSE, <<>>)
BasicsOnly(why) == Payload("deterministic", why, TRUE, <<>>)
BuildSuggestions(raw) == {Payload("ai", "none", TRUE, list) : list \in VerifySection(raw)}
Readings == UNION {BuildSuggestions(raw) : raw \in RawEntries}
Fresh(cache) == cache # NoPayload /\ cache.version = pipeline

(* alertCreditOutage: one alert an outage.                                   *)
AlertCreditOutage == told' = IF \E i \in DOMAIN told : told[i] = outages THEN told ELSE Append(told, outages)

(* suggestForResume over a document's cache: what is offered - a reading by the
   model is the only one the service itself saves, on a document it can save -
   and the alert that a call refused for want of credit sends.                *)
Calls(cache) == text # {} /\ ~Fresh(cache)
Suggest(cache) ==
    IF text = {} THEN {EmptyPayload("no_text")}
    ELSE IF Fresh(cache) THEN {cache}
    ELSE CASE model = "off" -> {BasicsOnly("llm_not_configured")}
           [] model = "no_credits" -> {BasicsOnly("llm_no_credits")}
           [] model = "failing" -> {BasicsOnly("extraction_failed")}
           [] model = "up" -> Readings
Alert(cache) == IF Calls(cache) /\ model = "no_credits" THEN AlertCreditOutage ELSE UNCHANGED told

Serve(p) == screen' = p /\ UNCHANGED <<text, pipeline, model, outages, application>>

(* autofillFromResume by the library's resume: only the model's reading is kept,
   and its save may fail.                                                     *)
KeepOnResume(p) ==
    /\ Serve(p) /\ UNCHANGED version
    /\ library' \in IF p.engine = "ai" THEN {library, [library EXCEPT !.cache = p]} ELSE {library}
AutofillFromResume ==
    library.there /\ Alert(library.cache) /\ \E p \in Suggest(library.cache) : KeepOnResume(p)

(* By a saved version: the library's copy of the file stands in when there is
   one; without it the handler keeps whatever was offered on the version.    *)
KeepOnVersion(p) == Serve(p) /\ version' = p /\ UNCHANGED library
AutofillFromVersion ==
    IF library.there THEN AutofillFromResume ELSE Alert(version) /\ \E p \in Suggest(version) : KeepOnVersion(p)

-----------------------------------------------------------------------------
(* attributeProvenance: each submitted entry, in order, claims the first
   unclaimed suggestion of its identity; verbatim it was accepted, else edited,
   and one that finds none is the candidate's own.                           *)
FirstFree(list, claimed, key) ==
    LET free == {i \in DOMAIN list \ claimed : Identity[list[i]] = key}
    IN  IF free = {} THEN 0 ELSE CHOOSE i \in free : \A j \in free : i <= j
\* As if a suggestion could be claimed again.
FirstAny(list, claimed, key) == FirstFree(list, {}, key)
Match(list, claimed, key) == FirstFree(list, claimed, key)

\* Which suggestion each entry claims, 0 for none: one answer, as entries take their turns.
Claimed(claim, n) == {claim[m] : m \in 1 .. n - 1}
Claims(submitted, list) ==
    {claim \in [DOMAIN submitted -> 0 .. Len(list)] :
        \A n \in DOMAIN submitted : claim[n] = Match(list, Claimed(claim, n), submitted[n].key)}

Source(entry, list, i) ==
    IF i = 0 THEN "candidate" ELSE IF list[i] = entry.fact THEN "autofill_accepted" ELSE "autofill_edited"
Attribute(submitted, list, claim) ==
    [n \in DOMAIN submitted |->
        [fact |-> submitted[n].fact, source |-> Source(submitted[n], list, claim[n]),
         span |-> IF claim[n] = 0 THEN 0 ELSE list[claim[n]]]]
CountOf(entries, how) == Cardinality({n \in DOMAIN entries : entries[n].source = how})
Counts(entries, list, claim) ==
    [suggested |-> Len(list), accepted |-> CountOf(entries, "autofill_accepted"),
     edited |-> CountOf(entries, "autofill_edited"),
     discarded |-> Len(list) - Cardinality({claim[n] : n \in DOMAIN claim} \ {0})]

(* createApplicationForCandidate: the form's entries beside the payload kept on
   the document the application names, whatever was on the screen.  A fact of 0
   is a text of the candidate's own under the identity.                      *)
Entries == {[key |-> Identity[f], fact |-> g] : f \in Facts, g \in {0}} \cup {[key |-> Identity[f], fact |-> f] : f \in Facts}
Cached(cache) == IF cache = NoPayload THEN <<>> ELSE cache.entries
Apply ==
    /\ ~application.made
    /\ \E by \in {"resume", "version"}, submitted \in UNION {[1 .. n -> Entries] : n \in 0 .. 2} :
          /\ by = "resume" => library.there
          /\ \E list \in {Cached(IF by = "resume" THEN library.cache ELSE version)} :
             \E claim \in Claims(submitted, list) :
             \E entries \in {Attribute(submitted, list, claim)} :
                application' = [made |-> TRUE, entries |-> entries, counts |-> Counts(entries, list, claim)]
    /\ UNCHANGED <<text, library, version, pipeline, model, outages, told, screen>>

-----------------------------------------------------------------------------
(* deleteResume, an upgrade, and the model's fortunes; a credit outage is one
   event however many requests meet it.                                      *)
DeleteResume ==
    /\ library.there /\ library' = [there |-> FALSE, cache |-> NoPayload]
    /\ UNCHANGED <<text, version, pipeline, model, outages, told, screen, application>>
Upgrade ==
    /\ pipeline < MaxUpgrades /\ pipeline' = pipeline + 1
    /\ UNCHANGED <<text, library, version, model, outages, told, screen, application>>
ModelChanges ==
    /\ model # "off" /\ model' \in {"up", "failing", "no_credits"} \ {model}
    /\ outages' = IF model' = "no_credits" THEN outages + 1 ELSE outages
    /\ outages' <= MaxOutages
    /\ UNCHANGED <<text, library, version, pipeline, told, screen, application>>

Next == AutofillFromResume \/ AutofillFromVersion \/ Apply \/ DeleteResume \/ Upgrade \/ ModelChanges

Spec == Init /\ [][Next]_vars

-----------------------------------------------------------------------------
(* Autofill never says more than the resume does nor hides that it said less:
   every suggestion quotes a line of this file that was not kept from the model;
   a form filled without a reading says why; the record of the application adds
   up - each suggestion is accepted, edited or discarded, once - and what is
   marked accepted is word for word the line it cites; and an outage of the
   provider's credit raises one alert, not one a candidate.                  *)
SuggestionsAreCited ==
    \A p \in {library.cache, version, screen} \ {NoPayload} : Range(p.entries) \subseteq text \ Hostile
PartialIsLabelled == screen # NoPayload /\ screen.engine # "ai" => screen.degraded # "none"
CountsAddUp == application.counts.suggested = application.counts.accepted + application.counts.edited + application.counts.discarded
AcceptedIsVerbatim ==
    \A i \in DOMAIN application.entries :
        application.entries[i].source = "autofill_accepted" =>
            application.entries[i].span = application.entries[i].fact /\ application.entries[i].fact \in text \ Hostile
OneAlertPerOutage == \A i, j \in DOMAIN told : i # j => told[i] # told[j]
AutofillIsHonest == SuggestionsAreCited /\ PartialIsLabelled /\ CountsAddUp /\ AcceptedIsVerbatim /\ OneAlertPerOutage

(* What createApplicationForCandidate's comment says, "attribute every submitted
   field against the suggestions this resume was offered": what stood on the
   form word for word is not recorded as the candidate's own.                *)
OfferedIsNotOwn ==
    \A i \in DOMAIN application.entries :
        application.entries[i].source = "candidate" =>
            screen = NoPayload \/ application.entries[i].fact \notin Range(screen.entries)

(* A reading that failed is tried again when the model is back (Resume.js,
   "recomputed rather than served stale").                                   *)
FailureIsNotKept == version # NoPayload => version.degraded \in {"none", "no_text"}
=============================================================================
