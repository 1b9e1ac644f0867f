------------------------------- MODULE Quotes -------------------------------
(***************************************************************************)
(* What a registration, renewal, transfer or restore of a name costs:      *)
(* DomainService.GetQuote loads the phase with its prices and fees, the    *)
(* domain, the premium labels and the exchange rate, in four queries, and  *)
(* PriceEngine computes the quote.  Premium labels and exchange rates      *)
(* change meanwhile; the phase and the domain are read once, so that a     *)
(* quote may find any of the tables the constants list.                    *)
(***************************************************************************)
EXTENDS Integers, Sequences, FiniteSets, SequencesExt

CONSTANTS
    Currencies,
    Base,             \* the base currency of the phase
    MinorUnits,       \* how many minor units each currency has: 100, or 1
    PlainNames,       \* labels of the TLD
    LabelsLike,       \* which labels contain a label, itself included
    Tariffs,          \* rows of amounts: one for each column
    PhaseTables,      \* what a phase may hold: its prices, its fees, and
                      \* whether it has a premium list
    Grandfatherings,  \* the grandfathered renewal fees of a domain
    Rates,            \* exchange rates from Base, [num, den]
    Horizons,         \* the years quotes are asked for
    PremiumPage,      \* how many premium labels a quote looks at (25)
    MaxLabels         \* bound: the premium labels in the list

Columns == {"registration", "renewal", "transfer", "restore"}
Amounts == [Columns -> Nat]
Kinds == Columns \cup {"auto_renewal"}
NoGrandfathering == [amount |-> 0, currency |-> ""]
PremiumLabel == [label : PlainNames, currency : Currencies, tariff : Tariffs]

ASSUME QuotesAssumption ==
    /\ Base \in Currencies
    /\ MinorUnits \in [Currencies -> Nat \ {0}]
    /\ \A n \in PlainNames : n \in LabelsLike[n]
    /\ Tariffs \subseteq Amounts
    /\ \A t \in PhaseTables :
          /\ DOMAIN t = {"prices", "fees", "list"}
          /\ DOMAIN t.prices \subseteq Currencies
          /\ t.prices \in [DOMAIN t.prices -> Amounts]
          /\ \A f \in t.fees : f.amount \in Nat
          /\ t.list \in BOOLEAN
    /\ \A g \in Grandfatherings : g.amount \in Nat
    /\ \A r \in Rates : r.num \in Nat /\ r.den \in Nat \ {0}
    /\ Horizons \subseteq Nat
    /\ PremiumPage \in Nat \ {0}
    /\ MaxLabels \in Nat

VARIABLES
    labels,     \* the premium list of the phase, in the order of the ids
    fx,         \* the exchange rates from Base: a rate for some currencies
    refresh,    \* the rates a refresh has still to insert, or NotRefreshing
    quote       \* the quote that is computed, or NoQuote

quoteVars == <<labels, fx, refresh, quote>>

NoQuote == [step |-> "none"]
Par == [num |-> 1, den |-> 1]  \* the rate from Base to Base
NotRefreshing == [busy |-> FALSE]

QuotesInit ==
    /\ labels = <<>>
    /\ fx \in [{} -> Rates]
    /\ refresh = NotRefreshing
    /\ quote = NoQuote

-----------------------------------------------------------------------------
(* The price engine, on what the quote q has loaded.                       *)

\* FX.Convert: truncated to minor units; what rounds to nothing is 0.01,
\* which is nothing in a currency without cents.
Convert(amount, target, rate) ==
    LET exact == (amount * rate.num * MinorUnits[target]) \div (rate.den * MinorUnits[Base])
    IN  IF exact = 0 /\ amount > 0 THEN MinorUnits[target] \div 100 ELSE exact

\* A fee in the currency of the quote.
InCurrency(q, currency, amount) ==
    IF currency = q.currency THEN amount ELSE Convert(amount, q.currency, q.rate)

Line(what, currency, amount, yearly) ==
    [what |-> what, currency |-> currency, amount |-> amount, yearly |-> yearly]

\* The fees in the target currency, or else those in the base currency.
FeeLines(q) ==
    LET In(c) == {Line(<<"fee", f.name>>, c, f.amount, FALSE) : f \in {g \in q.phase.fees : g.currency = c}}
    IN  IF In(q.currency) # {} THEN In(q.currency) ELSE In(Base)

\* addGrandFatheringFees: renewals only.
Grandfathered(q) == q.grand # NoGrandfathering /\ q.kind = "renewal"

\* The entry for exactly this label, in the target currency or else in Base:
\* the index of the table leaves at most one of each.
PremiumMatches(q) ==
    LET In(c) == {e \in q.entries : e.label = q.name /\ e.currency = c}
    IN  IF In(q.currency) # {} THEN In(q.currency) ELSE In(Base)

\* PremiumLabel.GetMoney knows the columns only, Price.GetMoney renews too.
PriceColumn(kind) == IF kind = "auto_renewal" THEN "renewal" ELSE kind

PriceLines(q) ==
    LET In(c) == {Line(<<"price">>, c, q.phase.prices[c][PriceColumn(q.kind)], TRUE) :
                     d \in DOMAIN q.phase.prices \cap {c}}
    IN  IF In(q.currency) # {} THEN In(q.currency) ELSE In(Base)

MainLines(q) ==
    IF Grandfathered(q)
      THEN {Line(<<"grandfathered">>, q.grand.currency, q.grand.amount, TRUE)}
    ELSE IF q.entries # {}
      THEN {Line(<<"premium">>, e.currency, e.tariff[q.kind], TRUE) : e \in PremiumMatches(q)}
    ELSE PriceLines(q)

\* There are premium entries, none of them for this label and these currencies.
PremiumMissing(q) == ~Grandfathered(q) /\ q.entries # {} /\ PremiumMatches(q) = {}

\* A grandfathered fee in a third currency cannot be converted.
Inconvertible(q) == Grandfathered(q) /\ q.grand.currency \notin {q.currency, Base}

\* GetMoney returned nil and an error, which the price engine ignores.
Panics(q) ==
    ~Grandfathered(q) /\ q.entries # {} /\ PremiumMatches(q) # {} /\ q.kind \notin Columns

\* Mutant: a yearly amount is multiplied before it is converted.
TotalOfYears(q, line) ==
    InCurrency(q, line.currency, IF line.yearly THEN q.years * line.amount ELSE line.amount)

\* AddFeeAndUpdatePrice: what a line adds to the price.
Total(q, line) ==
    LET once == InCurrency(q, line.currency, line.amount)
    IN  IF line.yearly THEN q.years * once ELSE once

\* PriceEngine.GetQuote; "fees" counts how often the quote lists each line.
Answer(q) ==
    IF Inconvertible(q) \/ PremiumMissing(q) THEN [outcome |-> "error"]
    ELSE IF Panics(q) THEN [outcome |-> "panic"]
    ELSE LET lines == FeeLines(q) \cup MainLines(q)
         IN  [outcome |-> "quote",
              price |-> SumFunction([l \in lines |-> Total(q, l)]),
              fees |-> [l \in lines |-> IF l.yearly THEN 1 + (q.years - 1) ELSE 1]]

-----------------------------------------------------------------------------
(* GetQuote, query by query.                                               *)

\* The phase, with what it holds; without a premium list none is looked at.
LoadPhase(name, kind, currency, years) ==
    /\ quote = NoQuote
    /\ \E phase \in PhaseTables :
          quote' = [step |-> "domain", name |-> name, kind |-> kind, currency |-> currency,
                    years |-> years, phase |-> phase, grand |-> NoGrandfathering,
                    entries |-> {}, rate |-> Par, answer |-> [outcome |-> "none"],
                    steady |-> Range(labels)]
    /\ UNCHANGED <<labels, fx, refresh>>

\* A name that is not registered is quoted for a placeholder.
LoadDomain ==
    /\ quote.step = "domain"
    /\ \E grand \in Grandfatherings \cup {NoGrandfathering} :
          quote' = [quote EXCEPT !.step = "premium", !.grand = grand]
    /\ UNCHANGED <<labels, fx, refresh>>

\* Rows come in the order of their ids; FirstPage takes positions.
FirstPage(is) == {i \in is : Cardinality({j \in is : j < i}) < PremiumPage}

LikeIds(name) == {i \in DOMAIN labels : labels[i].label \in LabelsLike[name]}

\* Mutant: the page is cut before the exact label is looked for.
PremiumEntriesOfPage(name) ==
    {e \in {labels[i] : i \in FirstPage(LikeIds(name))} : e.label = name}

\* PremiumLabelRepository.List, filtered with ILIKE '%label%'.
PremiumEntries(name) == {labels[i] : i \in FirstPage(LikeIds(name))}

LoadPremiumLabels ==
    /\ quote.step = "premium"
    /\ quote' = [quote EXCEPT !.step = "rate",
                    !.entries = IF quote.phase.list THEN PremiumEntries(quote.name) ELSE {}]
    /\ UNCHANGED <<labels, fx, refresh>>

\* No rate is needed for the base currency; the engine runs on what was read.
LoadRateAndAnswer ==
    /\ quote.step = "rate"
    /\ LET known == quote.currency \in {Base} \cup DOMAIN fx
           q == [quote EXCEPT !.rate = IF quote.currency \in DOMAIN fx \ {Base}
                                       THEN fx[quote.currency] ELSE Par]
       IN  quote' = [q EXCEPT !.step = "answered",
                              !.answer = IF known THEN Answer(q) ELSE [outcome |-> "error"]]
    /\ UNCHANGED <<labels, fx, refresh>>

\* The caller has its answer.
Return ==
    /\ quote.step = "answered"
    /\ quote' = NoQuote
    /\ UNCHANGED <<labels, fx, refresh>>

-----------------------------------------------------------------------------
(* What happens meanwhile.                                                 *)

\* Observed: the rows that stay in the list for the whole quote.
Still(rows) ==
    quote' = IF quote.step = "none" THEN quote
             ELSE [quote EXCEPT !.steady = @ \cap rows]

\* An answer stands as it was computed: nothing is looked at any more.
Changing == quote.step # "answered"

\* The label and its currency are unique in the list.
CreateLabel(row) ==
    /\ Changing
    /\ Len(labels) < MaxLabels
    /\ \A i \in DOMAIN labels : <<labels[i].label, labels[i].currency>> # <<row.label, row.currency>>
    /\ labels' = Append(labels, row)
    /\ UNCHANGED <<fx, refresh, quote>>

DeleteLabel(name, currency) ==
    /\ Changing
    /\ \E i \in DOMAIN labels :
          /\ labels[i].label = name /\ labels[i].currency = currency
          /\ labels' = RemoveAt(labels, i)
    /\ Still(Range(labels'))
    /\ UNCHANGED <<fx, refresh>>

\* Deleting the list deletes its labels.
DeletePremiumList ==
    /\ Changing
    /\ labels # <<>>
    /\ labels' = <<>>
    /\ Still({})
    /\ UNCHANGED <<fx, refresh>>

\* FXRepository.UpdateAll: one statement deletes, another inserts.
DeleteRates(rates) ==
    /\ Changing
    /\ ~refresh.busy
    /\ fx' = [c \in {} |-> 0]
    /\ refresh' = [busy |-> TRUE, rates |-> rates]
    /\ UNCHANGED <<labels, quote>>

InsertRates ==
    /\ refresh.busy /\ Changing
    /\ fx' = refresh.rates
    /\ refresh' = NotRefreshing
    /\ UNCHANGED <<labels, quote>>

\* The second statement fails, or the process dies before it.
RefreshFails ==
    /\ refresh.busy /\ Changing
    /\ refresh' = NotRefreshing
    /\ UNCHANGED <<labels, fx, quote>>

QuotesNext ==
    \/ \E name \in PlainNames, kind \in Kinds, currency \in Currencies, years \in Horizons :
          LoadPhase(name, kind, currency, years)
    \/ LoadDomain
    \/ LoadPremiumLabels
    \/ LoadRateAndAnswer
    \/ Return
    \/ \E row \in PremiumLabel : CreateLabel(row)
    \/ \E name \in PlainNames, currency \in Currencies : DeleteLabel(name, currency)
    \/ DeletePremiumList
    \/ \E rates \in [Currencies \ {Base} -> Rates] : DeleteRates(rates)
    \/ InsertRates
    \/ RefreshFails

QuotesSpec == QuotesInit /\ [][QuotesNext]_quoteVars

-----------------------------------------------------------------------------
\* Every variable has its type.
QuotesTypeOK ==
    /\ labels \in Seq(PremiumLabel)
    /\ DOMAIN fx \subseteq Currencies /\ fx \in [DOMAIN fx -> Rates]
    /\ refresh.busy \in BOOLEAN
    /\ quote.step \in {"none", "domain", "premium", "rate", "answered"}

Quoted == quote.step = "answered" /\ quote.answer.outcome = "quote"

\* What a quote asks for is the sum of the fees it lists, each converted as it
\* is shown, for every number of years, currency, rate and rounding: the
\* registrar that adds up the fee lines arrives at the price to acknowledge.
QuoteAddsUp ==
    Quoted =>
       quote.answer.price =
          SumFunction([l \in DOMAIN quote.answer.fees |->
                          quote.answer.fees[l] * InCurrency(quote, l.currency, l.amount)])

\* While a label is on the list of the phase, no quote offers the name at the
\* price of the phase, whatever labels that contain it crowd the page the
\* quote reads and whatever is added to the list meanwhile.
PremiumNeverUndercut ==
    (Quoted /\ quote.phase.list /\ \E e \in quote.steady : e.label = quote.name) =>
       \A l \in DOMAIN quote.answer.fees : l.what # <<"price">>
=============================================================================
