---------------------------- MODULE EscrowImport ----------------------------
(***************************************************************************)
(* The escrow tool: `escrow analyze` reads a deposit, writes its objects   *)
(* to files beside it and maps the deposit's registrars to those of the    *)
(* registry; `escrow import` reads the analysis and those files back and   *)
(* creates contacts, NNDNs, hosts, domains and links through the admin     *)
(* API, with many workers that share the counters of the result file.  A   *)
(* run of the tool may die at any step; answers of the API may be errors   *)
(* or lost.                                                                *)
(***************************************************************************)
EXTENDS Integers, FiniteSets, FiniteSetsExt

CONSTANTS Contacts, Hosts, Domains, NNDNs,  \* the objects of the deposit
          Sponsor,        \* [Contacts \cup Hosts \cup Domains -> Registrars]
          Agents,         \* their CrRr and UpRr, as far as the deposit gives them
          ContactsOf,     \* [Domains -> SUBSET Contacts], the registrant and the others
          Nameservers,    \* the pairs <<domain, host>> of the deposit
          InBailiwick,    \* those whose host lies directly below the domain
          Glue,           \* the hosts the deposit gives addresses for
          StatusLinked,   \* the contacts the deposit calls linked
          Invalid,        \* the objects that fail validation
          ClIDOf,         \* [Registrars -> ClIDs, or NoClID when unknown]
          NoClID,
          Listed,         \* the registrars with an element of their own
          MaxHostsPerDomain,
          Workers,        \* CONCURRENT_CLIENTS of them
          MaxRuns,        \* bound: how often the tool is started
          MaxFaults       \* bound: failed or unanswered calls in all runs

Registrars == DOMAIN ClIDOf

ASSUME DepositAssumption ==
    /\ IsFiniteSet(Contacts \cup Hosts \cup Domains \cup NNDNs \cup Registrars)
    /\ Sponsor \in [Contacts \cup Hosts \cup Domains -> Registrars]
    /\ Agents \in [Contacts \cup Hosts \cup Domains -> SUBSET Registrars]
    /\ ContactsOf \in [Domains -> SUBSET Contacts]
    /\ Nameservers \subseteq Domains \X Hosts
    /\ InBailiwick \subseteq Nameservers /\ Glue \subseteq Hosts
    /\ Listed \subseteq Registrars
    /\ StatusLinked \subseteq Contacts
    /\ Invalid \cap Nameservers = {}  \* a link is no object to validate
    /\ MaxHostsPerDomain \in Nat
    /\ MaxRuns \in Nat /\ MaxFaults \in Nat

VARIABLES stored,   \* what the registry stores, by its unique keys
          files,    \* contacts.csv, domains.csv with domainNameservers.csv, analysis.json
          tool,     \* the run of the tool
          worker,   \* what each worker of the run is doing
          counted,  \* the counters of the result
          runs, faults

escrowVars == <<stored, files, tool, worker, counted, runs, faults>>

Kinds == {"contact", "nndn", "host", "domain", "link"}
Outcomes == {"created", "existing", "failed"}
NoAnalysis == [saved |-> FALSE, errors |-> FALSE, mapped |-> {}]

\* A command, and the row it is about.  Host names are unique per registrar, so
\* a host and its addresses carry the identifier the sponsor maps to.
Command(kind, object, rar) == [kind |-> kind, object |-> object, rar |-> rar]
NoCommand == Command("none", "none", NoClID)
RowOf(c) == IF c.kind = "host" THEN <<"host", c.object, ClIDOf[c.rar]>>
                               ELSE <<c.kind, c.object>>
AddressRow(h, r) == <<"address", h, ClIDOf[r]>>

UsedContacts == UNION {ContactsOf[d] : d \in Domains}

\* The registrars with an entry in the RegistrarMapping of a saved analysis:
\* those the deposit lists, and those of the objects it has counted.
Entries ==
    Listed \cup {Sponsor[o] : o \in Hosts \cup Domains \cup (StatusLinked \cap UsedContacts)}

-----------------------------------------------------------------------------
(* Both modes *)

FreeWorkers == [w \in Workers |-> [at |-> "free", command |-> NoCommand, outcome |-> "failed", read |-> 0]]
Zeroes == [k \in Kinds |-> [o \in Outcomes |-> 0]]
Off == [doing |-> "nothing", step |-> "over", used |-> {}, mapped |-> {}, errors |-> FALSE,
        todo |-> {}, commands |-> {}, whole |-> FALSE, answered |-> FALSE]

Over == tool.step \in {"over", "refused", "finished", "died"}
At(mode, s) == tool.doing = mode /\ tool.step = s
GoTo(s) == tool' = [tool EXCEPT !.step = s]

StartTool(mode, s) ==
    /\ Over /\ runs < MaxRuns
    /\ runs' = runs + 1
    /\ tool' = [Off EXCEPT !.doing = mode, !.step = s]
    /\ worker' = FreeWorkers
    /\ counted' = Zeroes
    /\ UNCHANGED <<stored, files, faults>>

\* The deposit cannot be read, or a file not written: the tool gives up.  An
\* import still writes its result.
ReadFails ==
    /\ tool.step \in {"tags", "domains", "contacts", "contacts truncated",
                      "domains truncated", "hosts", "nndns"}
    /\ faults < MaxFaults
    /\ faults' = faults + 1
    /\ tool' = [Off EXCEPT !.step = "refused", !.commands = tool.commands]
    /\ UNCHANGED <<stored, files, worker, counted, runs>>

\* ExtractContacts truncates contacts.csv first and writes it at the end:
\* the contacts that say linked and are in the set the run works with.
OpenContacts ==
    /\ files' = [files EXCEPT !.contacts = {}]
    /\ GoTo("contacts truncated")

LinkedContacts == StatusLinked \cap tool.used

\* The process dies; what the API stored stays, and so does what was written:
\* a part of the file that is being rewritten.
ToolDies ==
    /\ ~Over
    /\ IF tool.step = "contacts truncated"
       THEN \E part \in SUBSET LinkedContacts : files' = [files EXCEPT !.contacts = part]
       ELSE UNCHANGED files
    /\ tool' = [Off EXCEPT !.step = "died"]
    /\ worker' = FreeWorkers
    /\ counted' = Zeroes
    /\ UNCHANGED <<stored, runs, faults>>

\* A contact that fails validation becomes no command.
ContactCommands == {Command("contact", c, Sponsor[c]) : c \in LinkedContacts \ Invalid}
HostCommands == {Command("host", h, Sponsor[h]) : h \in Hosts}
DomainCommands == {Command("domain", d, Sponsor[d]) : d \in Domains}
NNDNCommands == {Command("nndn", n, NoClID) : n \in NNDNs}

OpenDomains ==
    /\ files' = [files EXCEPT !.domains = {}]
    /\ GoTo("domains truncated")

-----------------------------------------------------------------------------
(* escrow analyze *)

StartAnalysis == StartTool("analysis", "tags")

\* AnalyzeDepostTag, AnalyzeHeaderTag, AnalyzeRegistrarTags, AnalyzeIDNTableRefTags.
AnalyzeTags ==
    /\ At("analysis", "tags")
    /\ GoTo("domains")
    /\ UNCHANGED <<stored, files, worker, counted, runs, faults>>

AnalyzeDomains ==
    /\ \/ At("analysis", "domains") /\ OpenDomains
       \/ /\ At("analysis", "domains truncated")
          /\ files' = [files EXCEPT !.domains = Domains]
          /\ tool' = [tool EXCEPT !.used = @ \cup UsedContacts, !.step = "contacts",
                                  !.errors = @ \/ Domains \cap Invalid # {}]
    /\ UNCHANGED <<stored, worker, counted, runs, faults>>

AnalyzeContacts ==
    /\ \/ At("analysis", "contacts") /\ OpenContacts
       \/ /\ At("analysis", "contacts truncated")
          /\ files' = [files EXCEPT !.contacts = LinkedContacts]
          /\ tool' = [tool EXCEPT !.step = "map",
                                  !.errors = @ \/ LinkedContacts \cap Invalid # {}]
    /\ UNCHANGED <<stored, worker, counted, runs, faults>>

\* Only a registrar that is unknown and has no domains, but hosts or contacts,
\* is an error; one with domains is a line of the log, and so is an answer that
\* is neither 200 nor 404.  Without --map-registrars nothing is mapped.
Sponsored(r, objects) == \E o \in objects : Sponsor[o] = r
Unmappable(r) == /\ ClIDOf[r] = NoClID
                 /\ ~Sponsored(r, Domains)
                 /\ Sponsored(r, Hosts \cup LinkedContacts)

MapRegistrars(asked, unanswered) ==
    /\ At("analysis", "map")
    /\ Cardinality(unanswered) <= MaxFaults - faults
    /\ asked \/ unanswered = {}
    /\ faults' = faults + Cardinality(unanswered)
    /\ tool' = [tool EXCEPT
           !.mapped = IF asked THEN {r \in Listed \ unanswered : ClIDOf[r] # NoClID} ELSE {},
           !.errors = @ \/ (asked /\ \E r \in Listed \ unanswered : Unmappable(r)),
           !.step = "save"]
    /\ UNCHANGED <<stored, files, worker, counted, runs>>

SaveAnalysis ==
    /\ At("analysis", "save")
    /\ files' = [files EXCEPT !.analysis = [saved |-> TRUE, errors |-> tool.errors, mapped |-> tool.mapped]]
    /\ GoTo("finished")
    /\ UNCHANGED <<stored, worker, counted, runs, faults>>

-----------------------------------------------------------------------------
(* escrow import *)

StartImport == StartTool("import", "load")

\* An analysis with errors is refused unless the operator says to ignore them.
LoadDepositAnalysis(ignoreErrors) ==
    /\ At("import", "load")
    /\ IF files.analysis.saved /\ (ignoreErrors \/ ~files.analysis.errors)
       THEN tool' = [tool EXCEPT !.mapped = files.analysis.mapped, !.step = "ids"]
       ELSE tool' = [Off EXCEPT !.step = "refused"]
    /\ UNCHANGED <<stored, files, worker, counted, runs, faults>>

\* "whole" remembers that the files are those of a complete extraction;
\* the code takes them as they are.
LoadUniqueContactIDs ==
    /\ At("import", "ids")
    /\ tool' = [tool EXCEPT !.used = files.contacts, !.step = "tld", !.answered = TRUE,
                            !.whole = /\ files.contacts = StatusLinked \cap UsedContacts
                                      /\ files.domains = Domains]
    /\ UNCHANGED <<stored, files, worker, counted, runs, faults>>

\* GetTLDFromAPI and the AllowEscrowImport flag, which an administrator sets.
CheckTLD(allowed) ==
    /\ At("import", "tld")
    /\ IF allowed THEN GoTo("contacts") ELSE tool' = [Off EXCEPT !.step = "refused"]
    /\ UNCHANGED <<stored, files, worker, counted, runs, faults>>

\* A batch of commands goes to the channel; the workers start.
Send(cmds, s) == tool' = [tool EXCEPT !.todo = cmds, !.commands = @ \cup cmds, !.step = s]

CreateContacts == Send(ContactCommands, "contact")

ExtractContacts ==
    /\ \/ At("import", "contacts") /\ Contacts # {} /\ OpenContacts
       \/ /\ At("import", "contacts") /\ Contacts = {}
          /\ GoTo("nndns")
          /\ UNCHANGED files
       \/ /\ At("import", "contacts truncated")
          /\ files' = [files EXCEPT !.contacts = LinkedContacts]
          /\ CreateContacts
    /\ UNCHANGED <<stored, worker, counted, runs, faults>>

CreateNNDNs == Send(NNDNCommands, "nndn")

ExtractNNDNS ==
    /\ At("import", "nndns")
    /\ IF NNDNs # {} THEN CreateNNDNs ELSE GoTo("hosts")
    /\ UNCHANGED <<stored, files, worker, counted, runs, faults>>

\* Mutant: a host that some domain of its own sponsor uses is passed over.
DuplicateForeignHosts(cmds) ==
    cmds \cup {Command("host", l[2], Sponsor[l[1]]) :
                   l \in {m \in Nameservers :
                             /\ m[1] \in files.domains /\ m[2] \notin Invalid
                             /\ \A n \in Nameservers : n[2] = m[2] => Sponsor[n[1]] # Sponsor[n[2]]}}

\* A host may only be used by its sponsor's domains: a host the deposit uses on
\* domains of other registrars is created once more for each of them.  The
\* command of a host that is not valid has no name to find it by.  The copy has
\* the RoID of the host, when that is one of this registry: the deposits here
\* have such RoIDs at most on hosts that only their sponsor's domains use, the
\* only ones this registry would write (Domain.AddHost).
DuplicateHostCommands(cmds) ==
    cmds \cup {Command("host", l[2], Sponsor[l[1]]) :
                   l \in {m \in Nameservers : m[1] \in files.domains /\ m[2] \notin Invalid}}

\* The CrRr and UpRr of a command.  In a duplicate of a host command the sponsor
\* of the domains takes the place of those that are not the host's sponsor.
AgentsOf(c) ==
    IF c.rar = Sponsor[c.object] THEN Agents[c.object]
    ELSE {IF r = Sponsor[c.object] THEN r ELSE c.rar : r \in Agents[c.object]}

CreateHosts == Send(DuplicateHostCommands(HostCommands), "host")

ExtractHosts ==
    /\ At("import", "hosts")
    /\ IF Hosts # {} THEN CreateHosts ELSE GoTo("domains")
    /\ UNCHANGED <<stored, files, worker, counted, runs, faults>>

CreateDomains == Send(DomainCommands, "domain")

ExtractDomains ==
    /\ \/ At("import", "domains") /\ Domains # {} /\ OpenDomains
       \/ /\ At("import", "domains") /\ Domains = {}
          /\ GoTo("links")
          /\ UNCHANGED files
       \/ /\ At("import", "domains truncated")
          /\ files' = [files EXCEPT !.domains = Domains]
          /\ CreateDomains
    /\ UNCHANGED <<stored, worker, counted, runs, faults>>

LinkHostsToDomains ==
    /\ At("import", "links")
    /\ IF Domains = {} \/ Hosts = {}
       THEN GoTo("save")
       ELSE Send({Command("link", l, Sponsor[l[1]]) : l \in {m \in Nameservers : m[1] \in files.domains}},
                 "link")
    /\ UNCHANGED <<stored, files, worker, counted, runs, faults>>

SaveImportResult ==
    /\ At("import", "save")
    /\ GoTo("finished")
    /\ UNCHANGED <<stored, files, worker, counted, runs, faults>>

-----------------------------------------------------------------------------
(* The workers of a batch *)

After(kind) == CASE kind = "contact" -> "nndns"
                 [] kind = "nndn"    -> "hosts"
                 [] kind = "host"    -> "domains"
                 [] kind = "domain"  -> "links"
                 [] kind = "link"    -> "save"

\* What is counted for the answer "created" (201, or 204 for a link),
\* "duplicate" (400, and the error says so), "refused" (400), "error" (any
\* other status) and "none" (the call failed).
createContact ==
    [created |-> "created", duplicate |-> "existing", refused |-> "failed",
     error |-> "failed", none |-> "uncounted"]

createHost ==
    [created |-> "created", duplicate |-> "existing", refused |-> "failed",
     error |-> "failed", none |-> "uncounted"]

\* Mutant: every 400 is taken for a duplicate.
createDomainAny400 ==
    [created |-> "created", duplicate |-> "existing", refused |-> "existing",
     error |-> "failed", none |-> "failed"]

createDomain ==
    [created |-> "created", duplicate |-> "existing", refused |-> "failed",
     error |-> "failed", none |-> "failed"]

\* Only a 400 is looked at.
createNNDN ==
    [created |-> "created", duplicate |-> "existing", refused |-> "failed",
     error |-> "uncounted", none |-> "failed"]

\* Present or Missing.
linkHostToDomain ==
    [created |-> "created", refused |-> "failed", error |-> "failed",
     none |-> "uncounted"]

Outcome(c, answer) ==
    CASE c.kind = "contact" -> createContact[answer]
      [] c.kind = "host"    -> createHost[answer]
      [] c.kind = "domain"  -> createDomain[answer]
      [] c.kind = "nndn"    -> createNNDN[answer]
      [] c.kind = "link"    -> linkHostToDomain[answer]

Counting(w, c, outcome) ==
    IF outcome = "uncounted" THEN FreeWorkers[w]
    ELSE [at |-> "answered", command |-> c, outcome |-> outcome, read |-> 0]

\* What fails before it is sent: a host or domain that failed validation, which
\* carries no registrar, and an object whose CrRr or UpRr has no entry in the
\* mapping.  (Its sponsor always has one: the object has been counted there.)
Unsendable(c) ==
    \/ c.kind \in {"host", "domain"} /\ c.object \in Invalid
    \/ c.kind \in {"contact", "host", "domain"} /\ ~(AgentsOf(c) \subseteq Entries)

Take(w, c) ==
    /\ tool.step \in Kinds /\ worker[w].at = "free" /\ c \in tool.todo
    /\ tool' = [tool EXCEPT !.todo = @ \ {c}]
    /\ worker' = [worker EXCEPT ![w] =
           IF Unsendable(c) THEN Counting(w, c, "failed")
                            ELSE [@ EXCEPT !.at = "sent", !.command = c]]
    /\ UNCHANGED <<stored, files, counted, runs, faults>>

\* What the API needs to find: the contacts of a domain, and the domain and a
\* host of the domain's sponsor for a link.
Needs(c) ==
    CASE c.kind = "domain" -> {<<"contact", x>> : x \in ContactsOf[c.object]}
      [] c.kind = "link"   -> {<<"domain", c.object[1]>>,
                               <<"host", c.object[2], ClIDOf[Sponsor[c.object[1]]]>>}
      [] OTHER             -> {}

\* Domain.AddHost: a domain has room for so many hosts, and a host that lies
\* below it must have an address.
Linked(d) == {l \in Nameservers : l[1] = d /\ <<"link", l>> \in stored}
MayLink(l) ==
    /\ Cardinality(Linked(l[1])) < MaxHostsPerDomain
    /\ l \in InBailiwick => AddressRow(l[2], Sponsor[l[1]]) \in stored

\* A sponsor that is not mapped is sent as an empty one, which no object may
\* have; a CrRr or UpRr that is sent empty is simply not set.  A host that is
\* linked already is looked for before the limit.
Acceptable(c) ==
    /\ c.object \notin Invalid
    /\ c.kind \in {"contact", "host", "domain"} => c.rar \in tool.mapped
    /\ Needs(c) \subseteq stored
    /\ c.kind = "link" /\ RowOf(c) \notin stored => MayLink(c.object)

\* A link that is there already is answered like a new one.
Answer(c) ==
    IF ~Acceptable(c) THEN "refused"
    ELSE IF RowOf(c) \notin stored \/ c.kind = "link" THEN "created"
    ELSE "duplicate"

\* HostService.CreateHost creates the host and then its addresses.  A host that
\* exists is left as it is, with the addresses it has.
Rows(c) == {RowOf(c)} \cup
           IF c.kind = "host" /\ c.object \in Glue THEN {AddressRow(c.object, c.rar)} ELSE {}
Stores(c) == IF Acceptable(c) /\ RowOf(c) \notin stored THEN stored \cup Rows(c) ELSE stored

Reply(w) ==
    LET c == worker[w].command IN
    /\ worker[w].at = "sent"
    /\ stored' = Stores(c)
    /\ worker' = [worker EXCEPT ![w] = Counting(w, c, Outcome(c, Answer(c)))]
    /\ UNCHANGED <<files, tool, counted, runs, faults>>

\* The API fails, or the call is not answered: it was not served, or served, or
\* the host was created without its addresses.
Fails(w, answer) ==
    LET c == worker[w].command IN
    /\ worker[w].at = "sent" /\ faults < MaxFaults
    /\ faults' = faults + 1
    /\ stored' \in {stored, Stores(c) \cap (stored \cup {RowOf(c)}), Stores(c)}
    /\ worker' = [worker EXCEPT ![w] = Counting(w, c, Outcome(c, answer))]
    /\ tool' = [tool EXCEPT !.answered = FALSE]
    /\ UNCHANGED <<files, counted, runs>>

ServerError(w) == Fails(w, "error")
NoAnswer(w) == Fails(w, "none")

\* counter++ of goroutines that share it: read, then write.
ReadCounter(w) ==
    LET c == worker[w].command IN
    /\ worker[w].at = "answered"
    /\ worker' = [worker EXCEPT ![w].at = "counting",
                                ![w].read = counted[c.kind][worker[w].outcome]]
    /\ UNCHANGED <<stored, files, tool, counted, runs, faults>>

WriteCounter(w) ==
    LET c == worker[w].command IN
    /\ worker[w].at = "counting"
    /\ counted' = [counted EXCEPT ![c.kind][worker[w].outcome] = worker[w].read + 1]
    /\ worker' = [worker EXCEPT ![w] = FreeWorkers[w]]
    /\ UNCHANGED <<stored, files, tool, runs, faults>>

\* The channel is closed and drained and every worker has returned.
Drained == tool.todo = {} /\ \A w \in Workers : worker[w].at = "free"

WaitGroupDone ==
    /\ tool.step \in Kinds /\ Drained
    /\ GoTo(After(tool.step))
    /\ UNCHANGED <<stored, files, worker, counted, runs, faults>>

-----------------------------------------------------------------------------
AnalysisStep ==
    \/ AnalyzeTags \/ AnalyzeDomains \/ AnalyzeContacts \/ SaveAnalysis
    \/ \E asked \in BOOLEAN, unanswered \in SUBSET Listed : MapRegistrars(asked, unanswered)

ImportStep ==
    \/ \E ignore \in BOOLEAN : LoadDepositAnalysis(ignore)
    \/ LoadUniqueContactIDs
    \/ \E allowed \in BOOLEAN : CheckTLD(allowed)
    \/ ExtractContacts \/ ExtractNNDNS \/ ExtractHosts \/ ExtractDomains
    \/ LinkHostsToDomains \/ SaveImportResult \/ WaitGroupDone

WorkerStep(w) ==
    \/ \E c \in tool.todo : Take(w, c)
    \/ Reply(w) \/ ServerError(w) \/ NoAnswer(w) \/ ReadCounter(w) \/ WriteCounter(w)

ToolStep == AnalysisStep \/ ImportStep \/ \E w \in Workers : WorkerStep(w)

EscrowInit ==
    /\ stored = {}
    /\ files = [contacts |-> {}, domains |-> {}, analysis |-> NoAnalysis]
    /\ tool = Off
    /\ worker = FreeWorkers
    /\ counted = Zeroes
    /\ runs = 0 /\ faults = 0

EscrowNext == StartAnalysis \/ StartImport \/ ToolDies \/ ReadFails \/ ToolStep

EscrowSpec == EscrowInit /\ [][EscrowNext]_escrowVars

-----------------------------------------------------------------------------
EscrowTypeOK ==
    /\ files.contacts \subseteq Contacts /\ files.domains \in {{}, Domains}
    /\ files.analysis.mapped \subseteq Registrars
    /\ tool.used \subseteq Contacts /\ tool.todo \subseteq tool.commands
    /\ \A w \in Workers : worker[w].at = "free" => worker[w] = FreeWorkers[w]
    /\ \A k \in Kinds, o \in Outcomes : counted[k][o] \in Nat
    /\ faults \in 0 .. MaxFaults /\ runs \in 0 .. MaxRuns

\* What the result file says is in the registry is in the registry: objects
\* counted as created or existing are stored, although workers share the
\* counters without a lock, calls fail and earlier runs died halfway
\* (escrow_service.go, createContact to createNNDN).
CountedAreStored ==
    \A k \in Kinds :
        counted[k].created + counted[k].existing
            <= Cardinality({c \in tool.commands : c.kind = k /\ RowOf(c) \in stored})

\* What an import can bring in, given the registrars the analysis mapped: what
\* is valid, is sent, is sponsored by a mapped registrar and finds what it needs.
\* Of a domain with more hosts than it may have, no host is counted on.
Importable(c) == c.object \notin Invalid /\ ~Unsendable(c) /\ c.rar \in tool.mapped
ImportableContacts ==
    {x \in StatusLinked \cap UsedContacts : Importable(Command("contact", x, Sponsor[x]))}
ImportableDomains ==
    {d \in Domains : /\ Importable(Command("domain", d, Sponsor[d]))
                     /\ ContactsOf[d] \subseteq ImportableContacts}
ImportableHosts ==
    {c \in HostCommands \cup {Command("host", l[2], Sponsor[l[1]]) : l \in Nameservers} :
        Importable(c)}
HostsOf(d) == {l \in Nameservers : l[1] = d}
ImportableLinks ==
    {l \in Nameservers : /\ l[1] \in ImportableDomains
                         /\ Command("host", l[2], Sponsor[l[1]]) \in ImportableHosts
                         /\ Cardinality(HostsOf(l[1])) <= MaxHostsPerDomain}

\* A host below the domain that is in the registry without an address: the
\* deposit has none, or an earlier run created the host and not its addresses,
\* which no later run makes good.
Unaddressed(l) ==
    /\ l \in InBailiwick
    /\ RowOf(Command("host", l[2], Sponsor[l[1]])) \in stored
    /\ AddressRow(l[2], Sponsor[l[1]]) \notin stored

\* An import that finishes, found its files whole and had every call answered
\* leaves everything importable in the registry, delegations included, whatever
\* happened to earlier runs (the import can simply be repeated; Existing is not
\* an error).  Not so for the delegations to hosts that were left unaddressed.
CleanImportCompletes ==
    (At("import", "finished") /\ tool.whole /\ tool.answered) =>
        /\ \A c \in ImportableContacts : <<"contact", c>> \in stored
        /\ \A n \in NNDNs \ Invalid : <<"nndn", n>> \in stored
        /\ \A c \in ImportableHosts : RowOf(c) \in stored
        /\ \A d \in ImportableDomains : <<"domain", d>> \in stored
        /\ \A l \in ImportableLinks : <<"link", l>> \in stored \/ Unaddressed(l)
=============================================================================
