-------------------------- MODULE AddForms_proofs --------------------------
(***************************************************************************)
(* The two implementations of fees and dividends agree on every input, and *)
(* so does what a form shows with what the server stores; and what is      *)
(* typed once is stored once, however the dialog is closed meanwhile.      *)
(***************************************************************************)
EXTENDS AddForms, TLAPS

-----------------------------------------------------------------------------
(* Rounding *)

\* Adding half a unit and cutting is rounding half up.
LEMMA RoundAgrees ==
    ASSUME NEW n \in Nat
    PROVE  /\ Backend!round_myr(n, 100) = roundMyr(n, 100)
           /\ Backend!round_myr(n, 10000) = roundMyr(n, 10000)
<1>1. Backend!round_myr(n, 100) = roundMyr(n, 100)
  BY SMTT(60) DEF roundMyr, Backend!round_myr
<1>2. Backend!round_myr(n, 10000) = roundMyr(n, 10000)
  BY SMTT(60) DEF roundMyr, Backend!round_myr
<1>. QED
  BY <1>1, <1>2

LEMMA RoundTyped ==
    ASSUME NEW n \in Nat
    PROVE  roundMyr(n, 100) \in Nat /\ roundMyr(n, 10000) \in Nat
BY SMTT(60) DEF roundMyr

\* A multiple reached from above is the quotient of what is rounded up.
LEMMA CeilingAgrees ==
    ASSUME NEW n \in Nat
    PROVE  Backend!ceiling(n, 100000) = (n + 99999) \div 100000
BY SMTT(60) DEF Backend!ceiling

LEMMA BrokerageAgrees ==
    ASSUME NEW a \in Nat, NEW b \in Brokers, b.rate \in Nat
    PROVE  Backend!compute_brokerage_fee(a, b) = computeBrokerageFee(a, b)
<1>. DEFINE x == roundMyr(a * b.rate, 10000)
<1>1. Backend!round_myr(a * b.rate, 10000) = x
  BY RoundAgrees
<1>. HIDE DEF x
<1>2. Backend!Max({x, b.minimum_fee}) = Max({x, b.minimum_fee})
  BY DEF Max, Backend!Max
<1>3. CASE b.fee_type = "percentage"
  <2>1. computeBrokerageFee(a, b) = Max({x, b.minimum_fee})
    BY <1>3 DEF computeBrokerageFee, x
  <2>2. Backend!compute_brokerage_fee(a, b) = Backend!Max({x, b.minimum_fee})
    BY <1>1, <1>3 DEF Backend!compute_brokerage_fee
  <2>. QED
    BY <1>2, <2>1, <2>2
<1>4. CASE b.fee_type # "percentage"
  BY <1>4 DEF computeBrokerageFee, Backend!compute_brokerage_fee
<1>. QED
  BY <1>3, <1>4

LEMMA ClearingAgrees ==
    ASSUME NEW a \in Nat
    PROVE  Backend!compute_clearing_fee(a) = computeClearingFee(a)
<1>1. Backend!round_myr(a * 3, 10000) = roundMyr(a * 3, 10000)
  BY RoundAgrees
<1>. QED
  BY <1>1 DEF computeClearingFee, Backend!compute_clearing_fee, Min, Backend!Min

LEMMA StampDutyAgrees ==
    ASSUME NEW a \in Nat
    PROVE  Backend!compute_stamp_duty(a) = computeStampDuty(a)
BY CeilingAgrees DEF computeStampDuty, Backend!compute_stamp_duty, Max, Backend!Max

\* Fees of a lot, component by component.
LEMMA FeesAgree ==
    ASSUME NEW shares \in Nat, NEW price \in Nat, NEW b \in Brokers, b.rate \in Nat
    PROVE  Backend!calculate_lot_fees(shares, price, b) = calculateLotFees(shares, price, b)
<1>. DEFINE a == computeInitialAmount(shares, price)
<1>1. Backend!compute_initial_amount(shares, price) = a /\ a \in Nat
  BY RoundAgrees, RoundTyped DEF computeInitialAmount, Backend!compute_initial_amount
<1>. HIDE DEF a
<1>2. /\ Backend!compute_brokerage_fee(a, b) = computeBrokerageFee(a, b)
      /\ Backend!compute_clearing_fee(a) = computeClearingFee(a)
      /\ Backend!compute_stamp_duty(a) = computeStampDuty(a)
  BY <1>1, BrokerageAgrees, ClearingAgrees, StampDutyAgrees
<1>. QED
  BY <1>1, <1>2 DEF calculateLotFees, Backend!calculate_lot_fees, a

LEMMA DividendsAgree ==
    ASSUME NEW perShare \in Nat, NEW shares \in Nat
    PROVE  Backend!dividend_total(perShare, shares) = computeDividendTotal(perShare, shares)
BY RoundAgrees DEF computeDividendTotal, Backend!dividend_total

-----------------------------------------------------------------------------
(* What is typed reaches the server as numbers *)

FormSound(f) ==
    /\ DOMAIN f = {"entry", "price", "shares", "broker", "year"}
    /\ f.price \in Nat /\ f.shares \in Nat /\ f.broker \in Brokers \cup {None}

PositionSound(p) ==
    /\ DOMAIN p = {"broker", "total", "used"}
    /\ p.broker \in Brokers /\ p.total \in Nat

HandlerSound(h, d) ==
    /\ DOMAIN h = {"step", "own", "entry", "price", "shares", "broker", "year", "label",
                   "total", "outcome"}
    /\ h.price \in Nat /\ h.shares \in Nat /\ h.total \in Nat
    /\ h.step = "sent" /\ d # "dividend" => h.broker \in Brokers

HandlersSound ==
    /\ handler = [t \in Handlers |-> handler[t]]
    /\ \A t \in Handlers : HandlerSound(handler[t], dialog)

\* The inductive invariant of PreviewIsStored.
ReceiptsSound ==
    /\ FormSound(form) /\ PositionSound(cache) /\ PositionSound(server) /\ HandlersSound
    /\ \E R : stored \in Seq(R) /\ \A r \in R : r.cost = r.shown

\* What the server computes is what was shown.
LEMMA ReceiptAgrees ==
    ASSUME NEW h, HandlerSound(h, dialog), h.step = "sent"
    PROVE  Receipt(h).cost = Receipt(h).shown
<1>1. CASE dialog = "dividend"
  BY <1>1, DividendsAgree DEF Receipt, HandlerSound
<1>2. CASE dialog # "dividend"
  <2>1. h.broker \in Brokers /\ h.broker.rate \in Nat
    BY <1>2, FormsAssumption DEF HandlerSound
  <2>. QED
    BY <1>2, <2>1, FeesAgree DEF Receipt, HandlerSound
<1>. QED
  BY <1>1, <1>2

LEMMA SoundMeansStored == ReceiptsSound => PreviewIsStored
<1>. SUFFICES ASSUME ReceiptsSound PROVE PreviewIsStored
  OBVIOUS
<1>1. PICK R : stored \in Seq(R) /\ \A r \in R : r.cost = r.shown
  BY DEF ReceiptsSound
<1>2. \A i \in 1..Len(stored) : stored[i] \in R
  BY <1>1
<1>. QED
  BY <1>1, <1>2 DEF PreviewIsStored, Receipts

LEMMA ResetSound ==
    ASSUME NEW f, NEW total \in Nat, f.broker \in Brokers \cup {None}
    PROVE  FormSound(Reset(f, total))
BY DEF FormSound, Reset

LEMMA IdleSound == HandlerSound(Idle, dialog)
BY DEF HandlerSound, Idle

LEMMA InitSound == Init => ReceiptsSound
<1>. SUFFICES ASSUME Init PROVE ReceiptsSound
  OBVIOUS
<1>1. PositionSound(server) /\ PositionSound(cache)
  BY FormsAssumption DEF Init, PositionSound
<1>2. FormSound(form)
  BY <1>1, ResetSound DEF Init, PositionSound
<1>3. HandlersSound
  BY IdleSound DEF Init, HandlersSound
<1>4. stored \in Seq({})
  BY DEF Init
<1>. QED
  BY <1>1, <1>2, <1>3, <1>4 DEF ReceiptsSound

-----------------------------------------------------------------------------
(* Steps *)

\* What most steps change: the form, the copies of the position, and one
\* handler, that does not begin to send.
LEMMA CalmStep ==
    ASSUME ReceiptsSound, UNCHANGED stored,
           FormSound(form'), PositionSound(cache'), PositionSound(server'), HandlersSound'
    PROVE  ReceiptsSound'
BY DEF ReceiptsSound, FormSound, PositionSound

\* Handlers of which one is replaced.
LEMMA OneHandler ==
    ASSUME HandlersSound, UNCHANGED dialog, NEW t \in Handlers,
           handler' = [handler EXCEPT ![t] = handler'[t]], HandlerSound(handler'[t], dialog)
    PROVE  HandlersSound'
<1>1. handler' = [u \in Handlers |-> handler'[u]]
  BY DEF HandlersSound
<1>2. \A u \in Handlers : u # t => handler'[u] = handler[u]
  BY DEF HandlersSound
<1>3. ASSUME NEW u \in Handlers PROVE HandlerSound(handler[u], dialog)'
  <2>1. CASE u = t
    BY <2>1 DEF HandlerSound
  <2>2. CASE u # t
    <3>1. HandlerSound(handler[u], dialog)
      BY DEF HandlersSound
    <3>. QED
      BY <1>2, <2>2, <3>1 DEF HandlerSound
  <2>. QED
    BY <2>1, <2>2
<1>. QED
  BY <1>1, <1>3 DEF HandlersSound

LEMMA BrokerSound ==
    ASSUME NEW f, NEW c, FormSound(f), PositionSound(c)
    PROVE  FormSound(WithBroker(f, c))
BY DEF FormSound, PositionSound, WithBroker

LEMMA AnsweredSound ==
    ASSUME NEW h, HandlerSound(h, dialog), NEW outcome
    PROVE  HandlerSound(Answered(h, outcome), dialog)
<1>. DEFINE a == Answered(h, outcome)
<1>1. /\ DOMAIN a = DOMAIN Idle /\ a.step = "answered" /\ a.total = h.total
      /\ a.price = 0 /\ a.shares = 0
  BY DEF Answered, Idle
<1>2. h.total \in Nat
  BY DEF HandlerSound
<1>. HIDE DEF a
<1>3. HandlerSound(a, dialog)
  BY <1>1, <1>2, IdleSound DEF HandlerSound
<1>. QED
  BY <1>3 DEF a

\* Every step keeps the rest as it is.
LEMMA Kept ==
    ASSUME ReceiptsSound
    PROVE  /\ UNCHANGED form => FormSound(form')
           /\ UNCHANGED cache => PositionSound(cache')
           /\ UNCHANGED server => PositionSound(server')
           /\ UNCHANGED <<dialog, handler>> => HandlersSound'
<1>1. UNCHANGED form => FormSound(form')
  BY DEF ReceiptsSound, FormSound
<1>2. UNCHANGED cache => PositionSound(cache')
  BY DEF ReceiptsSound, PositionSound
<1>3. UNCHANGED server => PositionSound(server')
  BY DEF ReceiptsSound, PositionSound
<1>4. UNCHANGED <<dialog, handler>> => HandlersSound'
  BY DEF ReceiptsSound, HandlersSound, HandlerSound
<1>. QED
  BY <1>1, <1>2, <1>3, <1>4

-----------------------------------------------------------------------------
(* Steps of the user *)

LEMMA FillSound ==
    ASSUME ReceiptsSound, NEW f, FormSound(f), Fill(f)
    PROVE  ReceiptsSound'
<1>1. FormSound(form')
  BY DEF Fill, FormSound
<1>2. UNCHANGED <<dialog, cache, server, handler, stored>>
  BY DEF Fill
<1>. QED
  BY <1>1, <1>2, Kept, CalmStep

LEMMA FieldsSound ==
    ASSUME ReceiptsSound, TypePrice \/ TypeShares \/ ChooseBroker \/ ChooseYear
    PROVE  ReceiptsSound'
<1>1. /\ DOMAIN form = {"entry", "price", "shares", "broker", "year"}
      /\ form.price \in Nat /\ form.shares \in Nat /\ form.broker \in Brokers \cup {None}
  BY DEF ReceiptsSound, FormSound
<1>2. ASSUME NEW p \in Prices PROVE FormSound([form EXCEPT !.price = p])
  BY <1>1, FormsAssumption DEF FormSound
<1>3. ASSUME NEW n \in Shares PROVE FormSound([form EXCEPT !.shares = n])
  BY <1>1, FormsAssumption DEF FormSound
<1>4. ASSUME NEW b \in Brokers PROVE FormSound([form EXCEPT !.broker = b])
  BY <1>1 DEF FormSound
<1>5. ASSUME NEW y \in Years PROVE FormSound([form EXCEPT !.year = y])
  BY <1>1 DEF FormSound
<1>. QED
  BY <1>2, <1>3, <1>4, <1>5, FillSound DEF TypePrice, TypeShares, ChooseBroker, ChooseYear

LEMMA SaveSound ==
    ASSUME ReceiptsSound, NEW t \in Handlers, Save(t)
    PROVE  ReceiptsSound'
<1>1. /\ form.price \in Nat /\ form.shares \in Nat /\ form.broker \in Brokers \cup {None}
      /\ cache.total \in Nat /\ HandlersSound
  BY DEF ReceiptsSound, FormSound, PositionSound
<1>2. dialog # "dividend" => form.broker # None
  BY DEF Save, validate
<1>3. form.broker # None => form.broker \in Brokers
  BY <1>1
<1>4. /\ handler' = [handler EXCEPT ![t] = handler'[t]]
      /\ DOMAIN handler'[t] = DOMAIN Idle
      /\ handler'[t].price = form.price /\ handler'[t].shares = form.shares
      /\ handler'[t].broker = form.broker
      /\ handler'[t].total = IF dialog = "dividend" THEN cache.total ELSE 0
  BY <1>1 DEF Save, HandlersSound, Idle
<1>5. HandlerSound(handler'[t], dialog)
  BY <1>1, <1>2, <1>3, <1>4, IdleSound DEF HandlerSound
<1>6. UNCHANGED <<dialog, form, cache, server, stored>>
  BY DEF Save
<1>. QED
  BY <1>1, <1>4, <1>5, <1>6, OneHandler, Kept, CalmStep

\* A handler whose page is left only loses the page.
LEMMA LeftSound ==
    ASSUME NEW h, HandlerSound(h, dialog)
    PROVE  HandlerSound([h EXCEPT !.own = FALSE], dialog)
<1>. DEFINE a == [h EXCEPT !.own = FALSE]
<1>1. /\ DOMAIN a = DOMAIN h /\ a.step = h.step /\ a.total = h.total
      /\ a.price = h.price /\ a.shares = h.shares /\ a.broker = h.broker
  BY DEF HandlerSound
<1>. HIDE DEF a
<1>2. HandlerSound(a, dialog)
  BY <1>1 DEF HandlerSound
<1>. QED
  BY <1>2 DEF a

LEMMA UserSteps ==
    ASSUME ReceiptsSound, UserStep
    PROVE  ReceiptsSound'
<1>1. /\ FormSound(form) /\ PositionSound(cache) /\ PositionSound(server) /\ HandlersSound
      /\ form.broker \in Brokers \cup {None} /\ cache.total \in Nat /\ server.total \in Nat
  BY DEF ReceiptsSound, FormSound, PositionSound
<1>2. CASE OpenDialog
  <2>1. FormSound(WithBroker(form, cache))
    BY <1>1, BrokerSound
  <2>2. UNCHANGED <<dialog, handler, cache, server, stored>> /\ form' = WithBroker(form, cache)
    BY <1>2 DEF OpenDialog
  <2>. QED
    BY <2>1, <2>2, Kept, CalmStep
<1>3. CASE Dismiss
  <2>1. FormSound(Reset(form, cache.total))
    BY <1>1, ResetSound
  <2>2. UNCHANGED <<dialog, handler, cache, server, stored>> /\ form' = Reset(form, cache.total)
    BY <1>3 DEF Dismiss
  <2>. QED
    BY <2>1, <2>2, Kept, CalmStep
<1>4. CASE Cancel
  BY <1>4, Kept, CalmStep DEF Cancel
<1>5. CASE LeavePage
  <2>1. ASSUME NEW t \in Handlers PROVE HandlerSound([handler[t] EXCEPT !.own = FALSE], dialog)
    BY <1>1, LeftSound DEF HandlersSound
  <2>2. UNCHANGED dialog /\ handler' = [t \in Handlers |-> [handler[t] EXCEPT !.own = FALSE]]
    BY <1>5 DEF LeavePage
  <2>3. HandlersSound'
    BY <2>1, <2>2 DEF HandlersSound
  <2>. QED
    BY <1>5, <2>3, Kept, CalmStep DEF LeavePage
<1>6. CASE Return
  <2>1. cache' \in {cache, server} /\ PositionSound(cache') /\ cache'.total \in Nat
    BY <1>1, <1>6 DEF Return, PositionSound
  <2>2. form' = Reset([broker |-> None], cache'.total)
    BY <1>6 DEF Return
  <2>3. FormSound(form')
    BY <2>1, <2>2 DEF Reset, FormSound
  <2>4. UNCHANGED <<dialog, handler, server, stored>>
    BY <1>6 DEF Return
  <2>. QED
    BY <2>1, <2>3, <2>4, Kept, CalmStep
<1>. QED
  BY <1>2, <1>3, <1>4, <1>5, <1>6, FieldsSound, SaveSound DEF UserStep

-----------------------------------------------------------------------------
(* Steps of the server, of other sessions and of the handlers *)

LEMMA PostSound ==
    ASSUME ReceiptsSound, NEW t \in Handlers, ServerPost(t)
    PROVE  ReceiptsSound'
<1>. DEFINE h == handler[t]
<1>1. HandlersSound /\ HandlerSound(h, dialog) /\ h.step = "sent" /\ h.shares \in Nat
  BY DEF ReceiptsSound, HandlersSound, HandlerSound, ServerPost
<1>2. HandlersSound'
  <2>1. PICK outcome : handler' = [handler EXCEPT ![t] = Answered(h, outcome)]
    BY DEF ServerPost
  <2>2. handler'[t] = Answered(h, outcome) /\ handler' = [handler EXCEPT ![t] = handler'[t]]
    BY <1>1, <2>1 DEF HandlersSound
  <2>3. HandlerSound(Answered(h, outcome), dialog)
    BY <1>1, AnsweredSound
  <2>. QED
    BY <1>1, <2>2, <2>3, OneHandler DEF ServerPost
<1>3. PositionSound(server')
  <2>1. DOMAIN server = {"broker", "total", "used"} /\ server.broker \in Brokers
        /\ server.total \in Nat
    BY DEF ReceiptsSound, PositionSound
  <2>2. \/ server' = server \/ server' = [server EXCEPT !.total = @ + h.shares]
        \/ server' = [server EXCEPT !.used[h.year] = @ \cup {h.label}]
    BY DEF ServerPost
  <2>. QED
    BY <1>1, <2>1, <2>2 DEF PositionSound
<1>4. (\E R : stored \in Seq(R) /\ \A r \in R : r.cost = r.shown)'
  <2>1. PICK R : stored \in Seq(R) /\ \A r \in R : r.cost = r.shown
    BY DEF ReceiptsSound
  <2>2. CASE Refused(h)
    BY <2>1, <2>2 DEF ServerPost
  <2>3. CASE ~Refused(h)
    <3>. DEFINE Q == R \cup {Receipt(h)}
    <3>1. stored' = Append(stored, Receipt(h))
      BY <2>3 DEF ServerPost
    <3>2. \A r \in Q : r.cost = r.shown
      BY <1>1, <2>1, ReceiptAgrees
    <3>3. stored \in Seq(Q) /\ Receipt(h) \in Q
      BY <2>1
    <3>. HIDE DEF Q
    <3>4. stored' \in Seq(Q)
      BY <3>1, <3>3
    <3>. QED
      BY <3>2, <3>4
  <2>. QED
    BY <2>2, <2>3
<1>5. FormSound(form') /\ PositionSound(cache')
  BY Kept DEF ServerPost
<1>. QED
  BY <1>2, <1>3, <1>4, <1>5 DEF ReceiptsSound, FormSound, PositionSound

LEMMA OthersSound ==
    ASSUME ReceiptsSound, OthersChange
    PROVE  ReceiptsSound'
<1>1. DOMAIN server = {"broker", "total", "used"} /\ server.broker \in Brokers
      /\ server.total \in Nat
  BY DEF ReceiptsSound, PositionSound
<1>2. \/ \E n \in Shares : server' = [server EXCEPT !.total = @ + n]
      \/ \E n \in Shares : server.total > n /\ server' = [server EXCEPT !.total = @ - n]
      \/ \E b \in Brokers : server' = [server EXCEPT !.broker = b]
      \/ \E y \in Years, l \in Labels :
           server' = [server EXCEPT !.used[y] = IF l \in @ THEN @ \ {l} ELSE @ \cup {l}]
  BY DEF OthersChange
<1>3. PositionSound(server')
  <2>1. ASSUME NEW n \in Shares, server' = [server EXCEPT !.total = @ + n]
        PROVE  PositionSound(server')
    BY <1>1, <2>1, FormsAssumption DEF PositionSound
  <2>2. ASSUME NEW n \in Shares, server.total > n, server' = [server EXCEPT !.total = @ - n]
        PROVE  PositionSound(server')
    BY <1>1, <2>2, FormsAssumption DEF PositionSound
  <2>3. ASSUME NEW b \in Brokers, server' = [server EXCEPT !.broker = b]
        PROVE  PositionSound(server')
    BY <1>1, <2>3 DEF PositionSound
  <2>4. ASSUME NEW y \in Years, NEW l \in Labels,
               server' = [server EXCEPT !.used[y] = IF l \in @ THEN @ \ {l} ELSE @ \cup {l}]
        PROVE  PositionSound(server')
    BY <1>1, <2>4 DEF PositionSound
  <2>. QED
    BY <1>2, <2>1, <2>2, <2>3, <2>4
<1>4. UNCHANGED <<dialog, form, cache, handler, stored>>
  BY DEF OthersChange
<1>. QED
  BY <1>3, <1>4, Kept, CalmStep

\* A new copy of the position is what the server has.
LEMMA CacheSound ==
    ASSUME ReceiptsSound, NEW f, FormSound(f), NewCache(f)
    PROVE  FormSound(form') /\ PositionSound(cache')
<1>1. FormSound(WithBroker(f, server)) /\ PositionSound(server)
  BY BrokerSound DEF ReceiptsSound
<1>2. cache' = server /\ (form' = f \/ form' = WithBroker(f, server))
  BY DEF NewCache
<1>. QED
  BY <1>1, <1>2 DEF FormSound, PositionSound

\* A handler whose fields but the step stay.
LEMMA RefreshingSound ==
    ASSUME NEW h, HandlerSound(h, dialog)
    PROVE  HandlerSound([h EXCEPT !.step = "refreshing"], dialog)
<1>. DEFINE a == [h EXCEPT !.step = "refreshing"]
<1>1. /\ DOMAIN a = DOMAIN h /\ a.step = "refreshing" /\ a.total = h.total
      /\ a.price = h.price /\ a.shares = h.shares /\ a.broker = h.broker
  BY DEF HandlerSound
<1>. HIDE DEF a
<1>2. HandlerSound(a, dialog)
  BY <1>1 DEF HandlerSound
<1>. QED
  BY <1>2 DEF a

LEMMA OneReplaced ==
    ASSUME HandlersSound, UNCHANGED dialog, NEW t \in Handlers, NEW h, HandlerSound(h, dialog),
           handler' = [handler EXCEPT ![t] = h]
    PROVE  HandlersSound'
<1>1. handler'[t] = h /\ handler' = [handler EXCEPT ![t] = handler'[t]]
  BY DEF HandlersSound
<1>2. HandlerSound(handler'[t], dialog)
  BY <1>1 DEF HandlerSound
<1>. QED
  BY <1>1, <1>2, OneHandler

LEMMA HandlerSteps ==
    ASSUME ReceiptsSound, NEW t \in Handlers, HandlerStep(t) \/ Lose(t)
    PROVE  ReceiptsSound'
<1>1. /\ HandlersSound /\ FormSound(form) /\ HandlerSound(handler[t], dialog)
      /\ form.broker \in Brokers \cup {None} /\ handler[t].total \in Nat
  BY DEF ReceiptsSound, HandlersSound, HandlerSound, FormSound
<1>2. HandlerSound(Idle, dialog)
  BY IdleSound
<1>3. FormSound(Reset(form, handler[t].total))
  BY <1>1, ResetSound
<1>4. CASE Lose(t)
  <2>1. HandlerSound(Answered(handler[t], "lost"), dialog)
    BY <1>1, AnsweredSound
  <2>2. HandlersSound'
    BY <1>1, <1>4, <2>1, OneReplaced DEF Lose
  <2>. QED
    BY <1>4, <2>2, Kept, CalmStep DEF Lose
<1>5. CASE SaveFailed(t)
  <2>1. HandlersSound'
    BY <1>1, <1>2, <1>5, OneReplaced DEF SaveFailed
  <2>. QED
    BY <1>5, <2>1, Kept, CalmStep DEF SaveFailed
<1>6. CASE LotAdded(t)
  <2>1. HandlersSound'
    BY <1>1, <1>2, <1>6, OneReplaced DEF LotAdded
  <2>2. form' = Reset(form, handler[t].total) \/ form' = form
    BY <1>6 DEF LotAdded
  <2>3. FormSound(form')
    BY <1>1, <1>3, <2>2 DEF FormSound
  <2>. QED
    BY <1>6, <2>1, <2>3, Kept, CalmStep DEF LotAdded
<1>7. CASE DividendLogged(t)
  <2>. DEFINE a == [Idle EXCEPT !.step = "refreshing", !.own = handler[t].own]
  <2>1. DOMAIN a = DOMAIN Idle /\ a.step = "refreshing" /\ a.price = 0 /\ a.shares = 0
        /\ a.total = 0
    BY DEF Idle
  <2>2. handler' = [handler EXCEPT ![t] = a]
    BY <1>7 DEF DividendLogged
  <2>. HIDE DEF a
  <2>3. HandlerSound(a, dialog)
    BY <1>2, <2>1 DEF HandlerSound
  <2>4. HandlersSound'
    BY <1>1, <1>7, <2>2, <2>3, OneReplaced DEF DividendLogged
  <2>5. form' = Reset(form, handler[t].total) \/ form' = form
    BY <1>7 DEF DividendLogged
  <2>6. FormSound(form')
    BY <1>1, <1>3, <2>5 DEF FormSound
  <2>. QED
    BY <1>7, <2>4, <2>6, Kept, CalmStep DEF DividendLogged
<1>8. CASE DividendRefreshed(t)
  <2>1. HandlersSound'
    BY <1>1, <1>2, <1>8, OneReplaced DEF DividendRefreshed
  <2>2. NewCache(form) \/ UNCHANGED <<cache, form>>
    BY <1>8 DEF DividendRefreshed
  <2>3. FormSound(form') /\ PositionSound(cache')
    BY <1>1, <2>2, CacheSound, Kept
  <2>. QED
    BY <1>8, <2>1, <2>3, Kept, CalmStep DEF DividendRefreshed
<1>9. CASE PositionSaved(t)
  <2>1. handler' = [handler EXCEPT ![t] = [handler[t] EXCEPT !.step = "refreshing"]]
    BY <1>9 DEF PositionSaved
  <2>2. HandlersSound'
    BY <1>1, <1>9, <2>1, RefreshingSound, OneReplaced DEF PositionSaved
  <2>. QED
    BY <1>9, <2>2, Kept, CalmStep DEF PositionSaved
<1>10. CASE PositionOpened(t)
  <2>. DEFINE F(u) == IF u = t THEN Idle ELSE [handler[u] EXCEPT !.own = FALSE]
  <2>1. ASSUME NEW u \in Handlers PROVE HandlerSound(F(u), dialog)
    BY <1>1, <1>2, LeftSound DEF HandlersSound
  <2>2. handler' = [u \in Handlers |-> F(u)] /\ UNCHANGED dialog
    BY <1>10 DEF PositionOpened
  <2>. HIDE DEF F
  <2>3. HandlersSound'
    BY <2>1, <2>2 DEF HandlersSound, HandlerSound
  <2>. QED
    BY <1>10, <2>3, Kept, CalmStep DEF PositionOpened
<1>. QED
  BY <1>4, <1>5, <1>6, <1>7, <1>8, <1>9, <1>10, PostSound DEF HandlerStep

-----------------------------------------------------------------------------
(* The theorem *)

LEMMA StepSound == ReceiptsSound /\ [Next]_vars => ReceiptsSound'
<1>. SUFFICES ASSUME ReceiptsSound, [Next]_vars PROVE ReceiptsSound'
  OBVIOUS
<1>1. CASE Revalidate
  <2>1. FormSound(form') /\ PositionSound(cache')
    BY <1>1, CacheSound DEF Revalidate, ReceiptsSound
  <2>. QED
    BY <1>1, <2>1, Kept, CalmStep DEF Revalidate
<1>2. CASE UNCHANGED vars
  BY <1>2, Kept, CalmStep DEF vars
<1>. QED
  BY <1>1, <1>2, UserSteps, HandlerSteps, OthersSound DEF Next

\* The costs a form shows are the costs the server stores, for all prices,
\* numbers of shares and fee schedules (FeePreview and FeeCalculator agree).
THEOREM PreviewNeverDiverges == Spec => []PreviewIsStored
<1>1. Spec => []ReceiptsSound
  BY InitSound, StepSound, PTL DEF Spec
<1>. QED
  BY <1>1, SoundMeansStored, PTL

-----------------------------------------------------------------------------
(* Nothing is saved twice *)

\* Entries are numbered as they are begun.
EntriesKnown ==
    /\ entries \in Nat /\ form.entry \in 0..entries
    /\ \A t \in Handlers : handler[t].entry \in 0..entries
    /\ \A i \in Receipts : stored[i].entry \in 0..entries

Owns(t) == handler[t].own = TRUE

\* A dialog waits for one handler at most, and is disabled while it waits.
OneAwaited ==
    /\ submitting \in BOOLEAN
    /\ \A t \in Handlers : handler[t].own \in BOOLEAN /\ (Owns(t) => submitting = TRUE)
    /\ \A t, u \in Handlers : Owns(t) /\ Owns(u) => t = u

Sends(t, e) == handler[t].step = "sent" /\ handler[t].entry = e

\* An entry whose answer was not lost is stored or on its way, and once.
SentOnce ==
    /\ SavedOnce
    /\ \A i \in Receipts, t \in Handlers :
         Sends(t, stored[i].entry) => stored[i].entry \in unanswered
    /\ \A t, u \in Handlers :
         t # u /\ handler[t].step = "sent" /\ Sends(u, handler[t].entry)
           => handler[t].entry \in unanswered

Used(e) == (\E i \in Receipts : stored[i].entry = e) \/ \E t \in Handlers : Sends(t, e)

\* The save that will still empty the form, or leave the page.
WillReset(t) ==
    /\ Owns(t)
    /\ \/ handler[t].step = "sent"
       \/ handler[t].step = "answered" /\ handler[t].outcome = "ok"
       \/ handler[t].step = "refreshing" /\ dialog = "position"

\* A form whose entry was sent is one the dialog is still busy with.
EntryAwaited ==
    page = "host" /\ form.entry # 0 /\ Used(form.entry) /\ form.entry \notin unanswered =>
      \E t \in Handlers : WillReset(t) /\ handler[t].entry = form.entry

\* An empty form has no price, and a dialog is open on its page only.
EmptyForms == (open = TRUE => page = "host") /\ (form.entry = 0 => form.price = 0)

\* The inductive invariant of SavedOnce.
SavesSound ==
    /\ ReceiptsSound
    /\ EntriesKnown /\ OneAwaited /\ SentOnce /\ EntryAwaited /\ EmptyForms

LEMMA InitSaves == Init => SavesSound
<1>. SUFFICES ASSUME Init PROVE SavesSound
  OBVIOUS
<1>1. Receipts = {}
  BY DEF Init, Receipts
<1>2. /\ page = "host" /\ open = FALSE /\ submitting = FALSE /\ entries = 0
      /\ form.entry = 0 /\ form.price = 0
  BY DEF Init, Reset
<1>3. \A t \in Handlers :
        handler[t].own = FALSE /\ handler[t].step = "idle" /\ handler[t].entry = 0
  BY DEF Init, Idle
<1>4. EntriesKnown
  BY <1>1, <1>2, <1>3 DEF EntriesKnown
<1>5. OneAwaited
  BY <1>2, <1>3, Zenon DEF OneAwaited, Owns
<1>6. EntryAwaited /\ EmptyForms
  BY <1>2 DEF EntryAwaited, EmptyForms
<1>7. SentOnce
  BY <1>1, <1>3 DEF SentOnce, SavedOnce, Sends
<1>. QED
  BY <1>4, <1>5, <1>6, <1>7, InitSound DEF SavesSound

\* What most steps do: nothing new is sent or stored, handlers lose their page
\* at most, and the form is kept with its save, emptied, begun anew or left.
GoesOn ==
    /\ UNCHANGED <<dialog, stored>> /\ unanswered \subseteq unanswered'
    /\ entries' \in Nat /\ entries <= entries' /\ form'.entry \in 0..entries'
    /\ submitting' \in BOOLEAN
    /\ \A t \in Handlers :
         /\ handler'[t].entry \in 0..entries /\ handler'[t].own \in BOOLEAN
         /\ handler'[t].step = "sent" =>
              handler[t].step = "sent" /\ handler'[t].entry = handler[t].entry
         /\ handler'[t].own = TRUE => Owns(t) /\ submitting' = TRUE
    /\ \/ page' # "host" \/ form'.entry = 0 \/ form'.entry > entries
       \/ /\ page = "host" /\ form'.entry = form.entry
          /\ \A t \in Handlers : WillReset(t) =>
               \/ handler[t].entry \in unanswered'
               \/ /\ handler'[t].entry = handler[t].entry
                  /\ WillReset(t)' \/ ~Used(handler[t].entry)'

LEMMA GoesOnSound ==
    ASSUME SavesSound, GoesOn, ReceiptsSound', EmptyForms'
    PROVE  SavesSound'
<1>1. Receipts' = Receipts /\ stored' = stored
  BY DEF GoesOn, Receipts
<1>2. EntriesKnown'
  BY <1>1 DEF EntriesKnown, GoesOn, SavesSound
<1>3. OneAwaited'
  BY DEF OneAwaited, GoesOn, SavesSound, Owns
<1>4. SentOnce'
  <2>1. SavedOnce'
    BY <1>1 DEF SavedOnce, GoesOn, SavesSound, SentOnce
  <2>2. ASSUME NEW i \in Receipts', NEW t \in Handlers, Sends(t, stored[i].entry)'
        PROVE  stored'[i].entry \in unanswered'
    BY <1>1, <2>2 DEF GoesOn, SavesSound, SentOnce, Sends
  <2>3. ASSUME NEW t \in Handlers, NEW u \in Handlers,
               t # u, handler'[t].step = "sent", Sends(u, handler[t].entry)'
        PROVE  handler'[t].entry \in unanswered'
    BY <2>3 DEF GoesOn, SavesSound, SentOnce, Sends
  <2>. QED
    BY <2>1, <2>2, <2>3 DEF SentOnce
<1>5. EntryAwaited'
  <2>. SUFFICES ASSUME page' = "host", form'.entry # 0, Used(form.entry)',
                       form'.entry \notin unanswered'
                PROVE  \E t \in Handlers : WillReset(t)' /\ handler'[t].entry = form'.entry
    BY DEF EntryAwaited
  <2>1. Used(form'.entry)
    BY <1>1 DEF Used, Sends, GoesOn
  <2>2. form'.entry <= entries
    BY <1>1, <2>1 DEF Used, Sends, SavesSound, EntriesKnown
  <2>3. /\ page = "host" /\ form'.entry = form.entry
        /\ \A t \in Handlers : WillReset(t) =>
             \/ handler[t].entry \in unanswered'
             \/ /\ handler'[t].entry = handler[t].entry
                /\ WillReset(t)' \/ ~Used(handler[t].entry)'
    BY <2>2 DEF GoesOn, SavesSound, EntriesKnown
  <2>4. form.entry \notin unanswered
    BY <2>3 DEF GoesOn
  <2>5. PICK t \in Handlers : WillReset(t) /\ handler[t].entry = form.entry
    BY <2>1, <2>3, <2>4 DEF SavesSound, EntryAwaited
  <2>6. CASE handler'[t].entry = handler[t].entry /\ ~Used(handler[t].entry)'
    BY <2>3, <2>5, <2>6 DEF Used, Sends
  <2>. QED
    BY <2>3, <2>4, <2>5, <2>6 DEF GoesOn
<1>. QED
  BY <1>2, <1>3, <1>4, <1>5 DEF SavesSound

\* Handlers of which one is replaced by what the step makes of it.
LEMMA OneMoves ==
    ASSUME HandlersSound, NEW t \in Handlers, NEW h, handler' = [handler EXCEPT ![t] = h]
    PROVE  handler'[t] = h /\ \A u \in Handlers : u # t => handler'[u] = handler[u]
BY DEF HandlersSound

\* A step in which the handlers stand still, and the form keeps its entry or
\* is emptied.
LEMMA StillGoesOn ==
    ASSUME SavesSound, UNCHANGED <<dialog, page, submitting, handler, stored, entries, unanswered>>,
           form'.entry \in {0, form.entry}
    PROVE  GoesOn
<1>1. ASSUME NEW t \in Handlers PROVE WillReset(t)' = WillReset(t)
  BY DEF WillReset, Owns
<1>2. /\ entries \in Nat /\ form.entry \in 0..entries /\ submitting \in BOOLEAN
      /\ \A t \in Handlers : /\ handler[t].entry \in 0..entries /\ handler[t].own \in BOOLEAN
                             /\ Owns(t) => submitting = TRUE
  BY DEF SavesSound, EntriesKnown, OneAwaited
<1>3. \/ page' # "host" \/ form'.entry = 0
      \/ page = "host" /\ form'.entry = form.entry
  OBVIOUS
<1>. QED
  BY <1>1, <1>2, <1>3 DEF GoesOn, Owns

\* A step that replaces one handler by one that sends nothing.
LEMMA OneGoesOn ==
    ASSUME SavesSound, UNCHANGED <<dialog, stored, entries>>, unanswered \subseteq unanswered',
           NEW t \in Handlers, NEW h, handler' = [handler EXCEPT ![t] = h],
           h.entry \in {0, handler[t].entry}, h.step # "sent",
           \/ h.own = FALSE /\ submitting' = (submitting /\ ~handler[t].own)
           \/ h.own = handler[t].own /\ submitting' = submitting,
           \/ form'.entry = 0
           \/ /\ form'.entry = form.entry /\ page' = page
              /\ \/ ~WillReset(t) \/ handler[t].entry \in unanswered'
                 \/ /\ h.entry = handler[t].entry
                    /\ WillReset(t)' \/ ~Used(h.entry)'
    PROVE  GoesOn
<1>1. handler'[t] = h /\ \A u \in Handlers : u # t => handler'[u] = handler[u]
  BY OneMoves DEF SavesSound, ReceiptsSound
<1>2. /\ entries \in Nat /\ form.entry \in 0..entries /\ submitting \in BOOLEAN
      /\ \A u \in Handlers : /\ handler[u].entry \in 0..entries /\ handler[u].own \in BOOLEAN
                             /\ Owns(u) => submitting = TRUE
      /\ \A u \in Handlers : Owns(t) /\ Owns(u) => t = u
  BY DEF SavesSound, EntriesKnown, OneAwaited
<1>3. submitting' \in BOOLEAN /\ h.own \in BOOLEAN
  BY <1>2, Zenon
<1>4. ASSUME NEW u \in Handlers, handler'[u].own = TRUE
      PROVE  Owns(u) /\ submitting' = TRUE
  <2>1. CASE h.own = FALSE /\ submitting' = (submitting /\ ~handler[t].own)
    <3>1. u # t /\ Owns(u) /\ submitting = TRUE
      BY <1>1, <1>2, <1>4, <2>1 DEF Owns
    <3>2. ~Owns(t)
      BY <1>2, <3>1
    <3>3. handler[t].own = FALSE
      BY <1>2, <3>2, Zenon DEF Owns
    <3>. QED
      BY <2>1, <3>1, <3>3
  <2>2. CASE h.own = handler[t].own /\ submitting' = submitting
    BY <1>1, <1>2, <1>4, <2>2 DEF Owns
  <2>. QED
    BY <2>1, <2>2
<1>5. \A u \in Handlers : /\ handler'[u].entry \in 0..entries /\ handler'[u].own \in BOOLEAN
                          /\ handler'[u].step = "sent" =>
                               handler[u].step = "sent" /\ handler'[u].entry = handler[u].entry
  <2>. TAKE u \in Handlers
  <2>1. CASE u = t
    BY <1>1, <1>2, <1>3, <2>1
  <2>2. CASE u # t
    BY <1>1, <1>2, <2>2
  <2>. QED
    BY <2>1, <2>2
<1>6. \/ page' # "host" \/ form'.entry = 0
      \/ /\ page = "host" /\ form'.entry = form.entry
         /\ \A u \in Handlers : WillReset(u) =>
              \/ handler[u].entry \in unanswered'
              \/ /\ handler'[u].entry = handler[u].entry
                 /\ WillReset(u)' \/ ~Used(handler[u].entry)'
  <2>1. ASSUME NEW u \in Handlers, u # t, WillReset(u)
        PROVE  WillReset(u)' /\ handler'[u].entry = handler[u].entry
    BY <1>1, <2>1 DEF WillReset, Owns
  <2>2. ~Used(h.entry)' => ~Used(handler[t].entry)'
    BY <1>1 DEF Used, Sends
  <2>. QED
    BY <1>1, <2>1, <2>2
<1>7. entries' \in Nat /\ entries <= entries' /\ form'.entry \in 0..entries'
  BY <1>2
<1>. QED
  BY <1>3, <1>4, <1>5, <1>6, <1>7 DEF GoesOn

\* A step that leaves the page.
LEMMA LeavingGoesOn ==
    ASSUME SavesSound, UNCHANGED <<dialog, form, stored, entries, unanswered>>,
           page' # "host", submitting' = FALSE,
           \A t \in Handlers :
             /\ handler'[t].own = FALSE /\ handler'[t].entry \in {0, handler[t].entry}
             /\ handler'[t].step = "sent" =>
                  handler[t].step = "sent" /\ handler'[t].entry = handler[t].entry
    PROVE  GoesOn
<1>1. /\ entries \in Nat /\ form.entry \in 0..entries
      /\ \A t \in Handlers : handler[t].entry \in 0..entries
  BY DEF SavesSound, EntriesKnown
<1>2. \A t \in Handlers : handler'[t].own \in BOOLEAN /\ handler'[t].own # TRUE
  BY Zenon
<1>3. submitting' \in BOOLEAN
  OBVIOUS
<1>4. \A t \in Handlers :
        /\ handler'[t].entry \in 0..entries /\ handler'[t].own \in BOOLEAN
        /\ handler'[t].step = "sent" =>
             handler[t].step = "sent" /\ handler'[t].entry = handler[t].entry
        /\ handler'[t].own = TRUE => Owns(t) /\ submitting' = TRUE
  <2>1. \A t \in Handlers : handler'[t].entry \in 0..entries
    BY <1>1
  <2>. QED
    BY <1>2, <2>1, Zenon
<1>. QED
  BY <1>1, <1>3, <1>4 DEF GoesOn

\* An entry is sent when nothing waits for an earlier save of it.
LEMMA SaveSaves ==
    ASSUME SavesSound, NEW t \in Handlers, Save(t)
    PROVE  SavesSound'
<1>. DEFINE e == form.entry
<1>1. /\ UNCHANGED <<dialog, page, open, form, stored, entries, unanswered>>
      /\ open /\ ~submitting /\ submitting' = TRUE /\ handler[t] = Idle /\ form.price > 0
  BY DEF Save, SaveEnabled, validate, validatePerShareAmount, validatePurchasePrice, Free
<1>2. /\ handler'[t].step = "sent" /\ handler'[t].own = TRUE /\ handler'[t].entry = e
      /\ \A u \in Handlers : u # t => handler'[u] = handler[u]
  BY DEF Save, SavesSound, ReceiptsSound, HandlersSound
<1>3. ReceiptsSound'
  BY SaveSound DEF SavesSound
<1>4. e # 0 /\ page = "host" /\ e \in 0..entries
  <2>1. form.entry = 0 => form.price = 0
    BY DEF SavesSound, EmptyForms
  <2>2. open = TRUE => page = "host"
    BY DEF SavesSound, EmptyForms
  <2>3. page = "host"
    BY <1>1 DEF Save, SavesSound, EmptyForms
  <2>. QED
    BY <1>1, <2>1, <2>3 DEF SavesSound, EntriesKnown
<1>5. \A u \in Handlers : ~Owns(u)
  BY <1>1 DEF SavesSound, OneAwaited
<1>6. Used(e) => e \in unanswered
  BY <1>4, <1>5 DEF SavesSound, EntryAwaited, WillReset
<1>7. EntriesKnown'
  <2>1. \A u \in Handlers : handler'[u].entry \in 0..entries
    BY <1>2, <1>4 DEF SavesSound, EntriesKnown
  <2>. QED
    BY <1>1, <2>1 DEF SavesSound, EntriesKnown, Receipts
<1>8. OneAwaited'
  <2>1. \A u \in Handlers : handler'[u].own \in BOOLEAN
    BY <1>2 DEF SavesSound, OneAwaited
  <2>2. \A u \in Handlers : handler'[u].own = TRUE => u = t
    BY <1>2, <1>5 DEF Owns
  <2>. QED
    BY <1>1, <2>1, <2>2 DEF OneAwaited, Owns
<1>9. SentOnce'
  <2>1. SavedOnce'
    BY <1>1 DEF SavesSound, SentOnce, SavedOnce, Receipts
  <2>2. ASSUME NEW i \in Receipts, NEW u \in Handlers,
               handler'[u].step = "sent", handler'[u].entry = stored[i].entry
        PROVE  stored[i].entry \in unanswered
    <3>1. CASE u = t
      BY <1>2, <1>6, <2>2, <3>1 DEF Used
    <3>2. CASE u # t
      BY <1>2, <2>2, <3>2 DEF SavesSound, SentOnce, Sends
    <3>. QED
      BY <3>1, <3>2
  <2>3. ASSUME NEW u \in Handlers, NEW w \in Handlers, u # w,
               handler'[u].step = "sent", handler'[w].step = "sent",
               handler'[w].entry = handler'[u].entry
        PROVE  handler'[u].entry \in unanswered
    <3>1. CASE u = t
      BY <1>2, <1>6, <2>3, <3>1 DEF Used, Sends
    <3>2. CASE w = t
      BY <1>2, <1>6, <2>3, <3>2 DEF Used, Sends
    <3>3. CASE u # t /\ w # t
      BY <1>2, <2>3, <3>3 DEF SavesSound, SentOnce, Sends
    <3>. QED
      BY <3>1, <3>2, <3>3
  <2>. QED
    BY <1>1, <2>1, <2>2, <2>3 DEF SentOnce, Sends, Receipts
<1>10. EntryAwaited'
  <2>1. WillReset(t)' /\ handler'[t].entry = form'.entry
    BY <1>1, <1>2 DEF WillReset, Owns
  <2>. QED
    BY <2>1 DEF EntryAwaited
<1>11. EmptyForms'
  BY <1>1 DEF SavesSound, EmptyForms
<1>. QED
  BY <1>3, <1>7, <1>8, <1>9, <1>10, <1>11 DEF SavesSound

LEMMA EmptyAndBroker ==
    ASSUME NEW f, FormSound(f), NEW c, NEW total
    PROVE  /\ Reset(f, total).entry = 0 /\ Reset(f, total).price = 0
           /\ WithBroker(f, c).entry = f.entry /\ WithBroker(f, c).price = f.price
BY DEF Reset, WithBroker, FormSound

LEMMA AnsweredFields ==
    ASSUME NEW h, NEW outcome
    PROVE  /\ Answered(h, outcome).step = "answered" /\ Answered(h, outcome).own = h.own
           /\ Answered(h, outcome).entry = h.entry /\ Answered(h, outcome).outcome = outcome
BY DEF Answered, Idle

\* What is refused was sent once, and is stored nowhere.
LEMMA RefusedSaves ==
    ASSUME SavesSound, NEW t \in Handlers, ServerPost(t), Refused(handler[t])
    PROVE  GoesOn
<1>. PICK h : h = Answered(handler[t], "refused")
  OBVIOUS
<1>1. /\ UNCHANGED <<dialog, page, form, submitting, stored, entries, unanswered>>
      /\ handler' = [handler EXCEPT ![t] = h] /\ handler[t].step = "sent"
  BY DEF ServerPost
<1>2. h.step = "answered" /\ h.own = handler[t].own /\ h.entry = handler[t].entry
  BY AnsweredFields
<1>3. handler'[t] = h /\ \A u \in Handlers : u # t => handler'[u] = handler[u]
  BY <1>1, OneMoves DEF SavesSound, ReceiptsSound
<1>4. ASSUME Used(h.entry)' PROVE h.entry \in unanswered
  <2>1. CASE \E i \in Receipts : stored[i].entry = h.entry
    BY <1>1, <1>2, <2>1 DEF SavesSound, SentOnce, Sends
  <2>2. CASE \E u \in Handlers : handler'[u].step = "sent" /\ handler'[u].entry = h.entry
    BY <1>1, <1>2, <1>3, <2>2 DEF SavesSound, SentOnce, Sends
  <2>. QED
    BY <1>1, <1>4, <2>1, <2>2 DEF Used, Sends, Receipts
<1>5. handler[t].entry \in unanswered' \/ ~Used(h.entry)'
  BY <1>1, <1>2, <1>4
<1>. QED
  BY <1>1, <1>2, <1>5, OneGoesOn

\* What is stored was sent once, and leaves the way as it enters the store.
LEMMA StoredSaves ==
    ASSUME SavesSound, NEW t \in Handlers, ServerPost(t), ~Refused(handler[t])
    PROVE  SavesSound'
<1>. PICK h, r, n :
       h = Answered(handler[t], "ok") /\ r = Receipt(handler[t]) /\ n = Len(stored)
  OBVIOUS
<1>1. /\ UNCHANGED <<dialog, page, open, form, submitting, entries, unanswered>>
      /\ handler' = [handler EXCEPT ![t] = h] /\ handler[t].step = "sent"
      /\ stored' = Append(stored, r)
  BY DEF ServerPost
<1>2. h.step = "answered" /\ h.own = handler[t].own /\ h.entry = handler[t].entry
      /\ h.outcome = "ok"
  BY AnsweredFields
<1>3. r.entry = h.entry
  BY <1>2 DEF Receipt
<1>4. handler'[t] = h /\ \A u \in Handlers : u # t => handler'[u] = handler[u]
  BY <1>1, OneMoves DEF SavesSound, ReceiptsSound
<1>5. /\ n \in Nat /\ Receipts' = 1..(n + 1) /\ Receipts = 1..n
      /\ stored'[n + 1] = r /\ \A i \in 1..n : stored'[i] = stored[i]
  <2>1. PICK R : stored \in Seq(R)
    BY DEF SavesSound, ReceiptsSound
  <2>2. stored \in Seq(R \cup {r}) /\ r \in R \cup {r}
    BY <2>1
  <2>. QED
    BY <1>1, <2>2 DEF Receipts
<1>6. ReceiptsSound'
  BY PostSound DEF SavesSound
<1>7. EntriesKnown'
  <2>1. h.entry \in 0..entries
    BY <1>2 DEF SavesSound, EntriesKnown
  <2>2. \A u \in Handlers : handler'[u].entry \in 0..entries
    BY <1>4, <2>1 DEF SavesSound, EntriesKnown
  <2>3. \A i \in Receipts' : stored'[i].entry \in 0..entries
    BY <1>3, <1>5, <2>1 DEF SavesSound, EntriesKnown
  <2>. QED
    BY <1>1, <2>2, <2>3 DEF SavesSound, EntriesKnown
<1>8. OneAwaited'
  <2>1. \A u \in Handlers : handler'[u].own = handler[u].own
    BY <1>2, <1>4
  <2>. QED
    BY <1>1, <2>1 DEF SavesSound, OneAwaited, Owns
<1>9. SentOnce'
  <2>1. ASSUME NEW i \in 1..n, stored[i].entry = h.entry PROVE h.entry \in unanswered
    BY <1>1, <1>2, <1>5, <2>1 DEF SavesSound, SentOnce, Sends
  <2>2. ASSUME NEW u \in Handlers, handler'[u].step = "sent", handler'[u].entry = h.entry
        PROVE  h.entry \in unanswered
    BY <1>1, <1>2, <1>4, <2>2 DEF SavesSound, SentOnce, Sends
  <2>3. ASSUME NEW i \in 1..(n + 1), NEW j \in 1..(n + 1), i # j,
               stored'[i].entry = stored'[j].entry
        PROVE  stored'[i].entry \in unanswered
    <3>1. CASE i \in 1..n /\ j \in 1..n
      BY <1>5, <2>3, <3>1 DEF SavesSound, SentOnce, SavedOnce
    <3>2. CASE i = n + 1 /\ j \in 1..n
      BY <1>3, <1>5, <2>1, <2>3, <3>2
    <3>3. CASE j = n + 1 /\ i \in 1..n
      BY <1>3, <1>5, <2>1, <2>3, <3>3
    <3>. QED
      BY <1>5, <2>3, <3>1, <3>2, <3>3
  <2>4. ASSUME NEW i \in 1..(n + 1), NEW u \in Handlers,
               handler'[u].step = "sent", handler'[u].entry = stored'[i].entry
        PROVE  stored'[i].entry \in unanswered
    <3>1. CASE i \in 1..n
      BY <1>2, <1>4, <1>5, <2>4, <3>1 DEF SavesSound, SentOnce, Sends
    <3>2. CASE i = n + 1
      BY <1>3, <1>5, <2>2, <2>4, <3>2
    <3>. QED
      BY <1>5, <3>1, <3>2
  <2>5. ASSUME NEW u \in Handlers, NEW w \in Handlers, u # w,
               handler'[u].step = "sent", handler'[w].step = "sent",
               handler'[w].entry = handler'[u].entry
        PROVE  handler'[u].entry \in unanswered
    BY <1>2, <1>4, <2>5 DEF SavesSound, SentOnce, Sends
  <2>. QED
    BY <1>1, <1>5, <2>3, <2>4, <2>5 DEF SentOnce, SavedOnce, Sends
<1>10. EntryAwaited'
  <2>. SUFFICES ASSUME page = "host", form.entry # 0, form.entry \notin unanswered, Used(form.entry)'
                PROVE  \E u \in Handlers : WillReset(u)' /\ handler'[u].entry = form.entry
    BY <1>1 DEF EntryAwaited
  <2>1. Used(form.entry)
    <3>1. CASE \E i \in Receipts' : stored'[i].entry = form.entry
      <4>1. PICK i \in 1..(n + 1) : stored'[i].entry = form.entry
        BY <1>5, <3>1
      <4>2. CASE i = n + 1
        BY <1>1, <1>2, <1>3, <1>5, <4>1, <4>2 DEF Used, Sends
      <4>3. CASE i \in 1..n
        BY <1>5, <4>1, <4>3 DEF Used
      <4>. QED
        BY <1>5, <4>1, <4>2, <4>3
    <3>2. CASE \E u \in Handlers : handler'[u].step = "sent" /\ handler'[u].entry = form.entry
      BY <1>2, <1>4, <3>2 DEF Used, Sends
    <3>. QED
      BY <1>1, <3>1, <3>2 DEF Used, Sends
  <2>2. PICK u \in Handlers : WillReset(u) /\ handler[u].entry = form.entry
    BY <2>1 DEF SavesSound, EntryAwaited
  <2>3. WillReset(u)'
    BY <1>1, <1>2, <1>4, <2>2 DEF WillReset, Owns
  <2>. QED
    BY <1>2, <1>4, <2>2, <2>3
<1>11. EmptyForms'
  BY <1>1 DEF SavesSound, EmptyForms
<1>. QED
  BY <1>6, <1>7, <1>8, <1>9, <1>10, <1>11 DEF SavesSound

\* The form after a fill is of the old entry, or of one nobody has sent.
LEMMA FillSaves ==
    ASSUME SavesSound, NEW f, Fill(f), DOMAIN f = DOMAIN form, f.entry = form.entry
    PROVE  GoesOn /\ EmptyForms'
<1>1. /\ UNCHANGED <<dialog, page, submitting, handler, stored, unanswered>>
      /\ UNCHANGED open /\ open
  BY DEF Fill
<1>2. \/ form.entry # 0 /\ form' = f /\ entries' = entries
      \/ /\ form.entry = 0 /\ entries' = entries + 1
         /\ form' = [f EXCEPT !.entry = entries']
  BY DEF Fill
<1>3. /\ entries \in Nat /\ form.entry \in 0..entries /\ submitting \in BOOLEAN
      /\ \A t \in Handlers : /\ handler[t].entry \in 0..entries /\ handler[t].own \in BOOLEAN
                             /\ Owns(t) => submitting = TRUE
  BY DEF SavesSound, EntriesKnown, OneAwaited
<1>4. \A t \in Handlers : WillReset(t)' = WillReset(t)
  BY <1>1 DEF WillReset, Owns
<1>5. DOMAIN form = {"entry", "price", "shares", "broker", "year"}
  BY DEF SavesSound, ReceiptsSound, FormSound
<1>6. page = "host"
  BY <1>1, Zenon DEF SavesSound, EmptyForms
<1>7. /\ entries' \in Nat /\ entries <= entries' /\ form'.entry \in 0..entries' /\ form'.entry # 0
      /\ form'.entry > entries \/ form'.entry = form.entry
  BY <1>2, <1>3, <1>5
<1>8. GoesOn
  BY <1>1, <1>3, <1>4, <1>6, <1>7 DEF GoesOn, Owns
<1>9. EmptyForms'
  BY <1>1, <1>6, <1>7 DEF EmptyForms
<1>. QED
  BY <1>8, <1>9

LEMMA FieldsSaves ==
    ASSUME SavesSound, TypePrice \/ TypeShares \/ ChooseBroker \/ ChooseYear
    PROVE  SavesSound'
<1>1. DOMAIN form = {"entry", "price", "shares", "broker", "year"}
  BY DEF SavesSound, ReceiptsSound, FormSound
<1>2. PICK f : Fill(f) /\ DOMAIN f = DOMAIN form /\ f.entry = form.entry
  <2>1. CASE TypePrice
    BY <1>1, <2>1 DEF TypePrice
  <2>2. CASE TypeShares
    BY <1>1, <2>2 DEF TypeShares
  <2>3. CASE ChooseBroker
    BY <1>1, <2>3 DEF ChooseBroker
  <2>4. CASE ChooseYear
    BY <1>1, <2>4 DEF ChooseYear
  <2>. QED
    BY <2>1, <2>2, <2>3, <2>4
<1>3. ReceiptsSound'
  BY FieldsSound DEF SavesSound
<1>. QED
  BY <1>2, <1>3, FillSaves, GoesOnSound

LEMMA UserSaves ==
    ASSUME SavesSound, UserStep
    PROVE  SavesSound'
<1>1. ReceiptsSound'
  BY UserSteps DEF SavesSound
<1>2. /\ FormSound(form) /\ (open = TRUE => page = "host")
      /\ form.entry = 0 => form.price = 0
  BY DEF SavesSound, ReceiptsSound, EmptyForms
<1>3. CASE OpenDialog
  <2>1. /\ UNCHANGED <<dialog, page, submitting, handler, stored, entries, unanswered>>
        /\ form'.entry = form.entry /\ form'.price = form.price /\ page = "host"
    BY <1>2, <1>3, EmptyAndBroker DEF OpenDialog
  <2>. QED
    BY <1>1, <1>2, <2>1, StillGoesOn, GoesOnSound DEF EmptyForms
<1>4. CASE Dismiss
  <2>1. /\ UNCHANGED <<dialog, page, submitting, handler, stored, entries, unanswered>>
        /\ form'.entry = 0 /\ form'.price = 0 /\ open' = FALSE
    BY <1>2, <1>4, EmptyAndBroker DEF Dismiss
  <2>. QED
    BY <1>1, <2>1, StillGoesOn, GoesOnSound DEF EmptyForms
<1>5. CASE Cancel
  <2>1. /\ UNCHANGED <<dialog, page, form, submitting, handler, stored, entries, unanswered>>
        /\ open' = FALSE
    BY <1>5 DEF Cancel
  <2>. QED
    BY <1>1, <1>2, <2>1, StillGoesOn, GoesOnSound DEF EmptyForms
<1>6. CASE LeavePage
  <2>1. /\ UNCHANGED <<dialog, form, stored, entries, unanswered>>
        /\ page' = "away" /\ open' = FALSE /\ submitting' = FALSE
    BY <1>6 DEF LeavePage
  <2>2. ASSUME NEW t \in Handlers
        PROVE  /\ handler'[t].own = FALSE /\ handler'[t].entry = handler[t].entry
               /\ handler'[t].step = handler[t].step
    BY <1>6 DEF LeavePage, SavesSound, ReceiptsSound, HandlersSound, HandlerSound
  <2>3. GoesOn
    BY <2>1, <2>2, LeavingGoesOn
  <2>. QED
    BY <1>1, <1>2, <2>1, <2>3, GoesOnSound DEF EmptyForms
<1>7. CASE Return
  <2>1. /\ UNCHANGED <<dialog, open, submitting, handler, stored, entries, unanswered>>
        /\ page' = "host" /\ form'.entry = 0 /\ form'.price = 0
    BY <1>7 DEF Return, Reset
  <2>2. GoesOn
    <3>1. /\ entries \in Nat /\ submitting \in BOOLEAN
          /\ \A t \in Handlers : /\ handler[t].entry \in 0..entries /\ handler[t].own \in BOOLEAN
                                 /\ Owns(t) => submitting = TRUE
      BY DEF SavesSound, EntriesKnown, OneAwaited
    <3>. QED
      BY <2>1, <3>1 DEF GoesOn, Owns
  <2>. QED
    BY <1>1, <2>1, <2>2, GoesOnSound DEF EmptyForms
<1>. QED
  BY <1>3, <1>4, <1>5, <1>6, <1>7, FieldsSaves, SaveSaves DEF UserStep

LEMMA HandlerSaves ==
    ASSUME SavesSound, NEW t \in Handlers, HandlerStep(t) \/ Lose(t)
    PROVE  SavesSound'
<1>1. ReceiptsSound'
  BY HandlerSteps DEF SavesSound
<1>2. /\ FormSound(form) /\ submitting \in BOOLEAN /\ handler[t].own \in BOOLEAN
      /\ (open = TRUE => page = "host") /\ (form.entry = 0 => form.price = 0)
      /\ HandlersSound /\ DOMAIN handler[t] = DOMAIN Idle /\ HandlerSound(Idle, dialog)
  BY IdleSound DEF SavesSound, ReceiptsSound, EmptyForms, OneAwaited, HandlersSound, HandlerSound
<1>3. /\ Idle.own = FALSE /\ Idle.entry = 0 /\ Idle.step = "idle"
  BY DEF Idle
<1>4. CASE ServerPost(t)
  <2>1. CASE Refused(handler[t])
    <3>1. UNCHANGED <<page, open, form>>
      BY <1>4 DEF ServerPost
    <3>. QED
      BY <1>1, <1>2, <1>4, <2>1, <3>1, RefusedSaves, GoesOnSound DEF EmptyForms
  <2>. QED
    BY <1>4, <2>1, StoredSaves
<1>5. CASE Lose(t)
  <2>1. /\ handler' = [handler EXCEPT ![t] = Answered(handler[t], "lost")]
        /\ unanswered' = unanswered \cup {handler[t].entry}
        /\ UNCHANGED <<dialog, page, open, form, submitting, stored, entries>>
    BY <1>5 DEF Lose
  <2>2. GoesOn
    BY <2>1, AnsweredFields, OneGoesOn
  <2>. QED
    BY <1>1, <1>2, <2>1, <2>2, GoesOnSound DEF EmptyForms
<1>6. CASE SaveFailed(t)
  <2>1. /\ handler' = [handler EXCEPT ![t] = Idle] /\ ~WillReset(t)
        /\ submitting' = (submitting /\ ~handler[t].own)
        /\ UNCHANGED <<dialog, page, open, form, stored, entries, unanswered>>
    BY <1>6 DEF SaveFailed, AfterFailure, WillReset
  <2>2. GoesOn
    BY <1>3, <2>1, OneGoesOn
  <2>. QED
    BY <1>1, <1>2, <2>1, <2>2, GoesOnSound DEF EmptyForms
<1>7. CASE LotAdded(t)
  <2>1. /\ handler' = [handler EXCEPT ![t] = Idle]
        /\ submitting' = (submitting /\ ~handler[t].own)
        /\ UNCHANGED <<dialog, page, stored, entries, unanswered>>
        /\ open' = TRUE => open = TRUE
    BY <1>7, Zenon DEF LotAdded
  <2>2. CASE Owns(t)
    <3>1. form'.entry = 0 /\ form'.price = 0
      BY <1>2, <1>7, <2>2, EmptyAndBroker DEF LotAdded, Owns
    <3>2. GoesOn
      BY <1>3, <2>1, <3>1, OneGoesOn
    <3>. QED
      BY <1>1, <1>2, <2>1, <3>1, <3>2, GoesOnSound DEF EmptyForms
  <2>3. CASE ~Owns(t)
    <3>1. form' = form /\ ~WillReset(t)
      BY <1>2, <1>7, <2>3 DEF LotAdded, Owns, WillReset
    <3>2. GoesOn
      BY <1>3, <2>1, <3>1, OneGoesOn
    <3>. QED
      BY <1>1, <1>2, <2>1, <3>1, <3>2, GoesOnSound DEF EmptyForms
  <2>. QED
    BY <2>2, <2>3
<1>8. CASE DividendLogged(t)
  <2>. PICK h : h = [Idle EXCEPT !.step = "refreshing", !.own = handler[t].own]
    OBVIOUS
  <2>1. /\ handler' = [handler EXCEPT ![t] = h] /\ h.step = "refreshing"
        /\ h.own = handler[t].own /\ h.entry = 0
        /\ UNCHANGED <<dialog, page, submitting, stored, entries, unanswered>>
    BY <1>8 DEF DividendLogged, Idle
  <2>2. open' = TRUE => open = TRUE
    BY <1>8, Zenon DEF DividendLogged
  <2>3. CASE Owns(t)
    <3>1. form'.entry = 0 /\ form'.price = 0
      BY <1>2, <1>8, <2>3, EmptyAndBroker DEF DividendLogged, Owns
    <3>2. GoesOn
      BY <2>1, <3>1, OneGoesOn
    <3>. QED
      BY <1>1, <1>2, <2>1, <2>2, <3>1, <3>2, GoesOnSound DEF EmptyForms
  <2>4. CASE ~Owns(t)
    <3>1. form' = form /\ ~WillReset(t)
      BY <1>2, <1>8, <2>4 DEF DividendLogged, Owns, WillReset
    <3>2. GoesOn
      BY <2>1, <3>1, OneGoesOn
    <3>. QED
      BY <1>1, <1>2, <2>1, <2>2, <3>1, <3>2, GoesOnSound DEF EmptyForms
  <2>. QED
    BY <2>3, <2>4
<1>9. CASE DividendRefreshed(t)
  <2>1. /\ handler' = [handler EXCEPT ![t] = Idle] /\ ~WillReset(t)
        /\ submitting' = (submitting /\ ~handler[t].own)
        /\ UNCHANGED <<dialog, page, open, stored, entries, unanswered>>
    BY <1>9 DEF DividendRefreshed, WillReset
  <2>2. form' = form \/ form' = WithBroker(form, server)
    BY <1>9 DEF DividendRefreshed, NewCache
  <2>3. form'.entry = form.entry /\ form'.price = form.price
    BY <1>2, <2>2, EmptyAndBroker
  <2>4. GoesOn
    BY <1>3, <2>1, <2>3, OneGoesOn
  <2>. QED
    BY <1>1, <1>2, <2>1, <2>3, <2>4, GoesOnSound DEF EmptyForms
<1>10. CASE PositionSaved(t)
  <2>. PICK h : h = [handler[t] EXCEPT !.step = "refreshing"]
    OBVIOUS
  <2>1. /\ handler' = [handler EXCEPT ![t] = h] /\ h.step = "refreshing"
        /\ h.own = handler[t].own /\ h.entry = handler[t].entry /\ dialog = "position"
        /\ UNCHANGED <<dialog, page, open, form, submitting, stored, entries, unanswered>>
    BY <1>2, <1>10 DEF PositionSaved, Idle
  <2>2. handler'[t] = h
    BY <1>2, <2>1, OneMoves
  <2>3. WillReset(t) => WillReset(t)'
    BY <2>1, <2>2 DEF WillReset, Owns
  <2>4. GoesOn
    BY <2>1, <2>3, OneGoesOn
  <2>. QED
    BY <1>1, <1>2, <2>1, <2>4, GoesOnSound DEF EmptyForms
<1>11. CASE PositionOpened(t)
  <2>1. /\ UNCHANGED <<dialog, form, stored, entries, unanswered>>
        /\ page' = "created" /\ open' = FALSE /\ submitting' = FALSE
    BY <1>11 DEF PositionOpened
  <2>2. ASSUME NEW u \in Handlers
        PROVE  /\ handler'[u].own = FALSE /\ handler'[u].entry \in {0, handler[u].entry}
               /\ handler'[u].step = "sent" =>
                    handler[u].step = "sent" /\ handler'[u].entry = handler[u].entry
    <3>1. CASE u = t
      BY <1>3, <1>11, <3>1 DEF PositionOpened
    <3>2. CASE u # t
      <4>1. handler'[u] = [handler[u] EXCEPT !.own = FALSE] /\ DOMAIN handler[u] = DOMAIN Idle
        BY <1>2, <1>11, <3>2 DEF PositionOpened, HandlersSound, HandlerSound
      <4>. QED
        BY <4>1 DEF Idle
    <3>. QED
      BY <3>1, <3>2
  <2>3. GoesOn
    BY <2>1, <2>2, LeavingGoesOn
  <2>. QED
    BY <1>1, <1>2, <2>1, <2>3, GoesOnSound DEF EmptyForms
<1>. QED
  BY <1>4, <1>5, <1>6, <1>7, <1>8, <1>9, <1>10, <1>11 DEF HandlerStep

LEMMA StepSaves == SavesSound /\ [Next]_vars => SavesSound'
<1>. SUFFICES ASSUME SavesSound, [Next]_vars PROVE SavesSound'
  OBVIOUS
<1>1. ReceiptsSound'
  BY StepSound DEF SavesSound
<1>2. /\ FormSound(form) /\ (open = TRUE => page = "host")
      /\ form.entry = 0 => form.price = 0
  BY DEF SavesSound, ReceiptsSound, EmptyForms
<1>3. CASE OthersChange \/ UNCHANGED vars
  <2>1. UNCHANGED <<dialog, page, open, form, submitting, handler, stored, entries, unanswered>>
    BY <1>3 DEF OthersChange, vars
  <2>. QED
    BY <1>1, <1>2, <2>1, StillGoesOn, GoesOnSound DEF EmptyForms
<1>4. CASE Revalidate
  <2>1. /\ UNCHANGED <<dialog, page, open, submitting, handler, stored, entries, unanswered>>
        /\ form' = form \/ form' = WithBroker(form, server)
    BY <1>4 DEF Revalidate, NewCache
  <2>2. form'.entry = form.entry /\ form'.price = form.price
    BY <1>2, <2>1, EmptyAndBroker
  <2>. QED
    BY <1>1, <1>2, <2>1, <2>2, StillGoesOn, GoesOnSound DEF EmptyForms
<1>. QED
  BY <1>3, <1>4, UserSaves, HandlerSaves DEF Next

\* However its dialog is cancelled, dismissed, opened again or left while it
\* saves (handleOpenChange, handleSave), what was typed once is stored once
\* unless an answer was lost.
THEOREM TypedOnceIsStoredOnce == Spec => []SavedOnce
<1>1. Spec => []SavesSound
  BY InitSaves, StepSaves, PTL DEF Spec
<1>2. SavesSound => SavedOnce
  BY DEF SavesSound, SentOnce
<1>. QED
  BY <1>1, <1>2, PTL

-----------------------------------------------------------------------------
(* What SaveEnds rests on: a dialog that is disabled as "Saving" has a     *)
(* handler that will enable it again.                                      *)

\* The handler has a step left to take.
Underway(t) ==
    \/ handler[t].step \in {"sent", "answered"}
    \/ handler[t].step = "refreshing" /\ dialog \in {"dividend", "position"}

\* A dialog is busy exactly while one handler of its own has steps left.
BusyWhileSaving ==
    /\ submitting = TRUE <=> \E t \in Handlers : Owns(t)
    /\ \A t, u \in Handlers : Owns(t) /\ Owns(u) => t = u
    /\ \A t \in Handlers : Owns(t) => Underway(t)

\* The part of it that OneAwaited does not say.
BusyAwaited ==
    /\ submitting = TRUE => \E t \in Handlers : Owns(t)
    /\ \A t \in Handlers : Owns(t) => Underway(t)

\* Every handler keeps its page, and its steps: the dialog stays busy.
LEMMA StaysAwaited ==
    ASSUME BusyAwaited, submitting' = TRUE => submitting = TRUE,
           \A t \in Handlers : Owns(t)' <=> Owns(t), \A t \in Handlers : Owns(t) => Underway(t)'
    PROVE  BusyAwaited'
BY Zenon DEF BusyAwaited

\* One handler takes a step that does not end it.
LEMMA OneProceeds ==
    ASSUME SavesSound, BusyAwaited, UNCHANGED <<dialog, submitting>>, NEW t \in Handlers, NEW h,
           handler' = [handler EXCEPT ![t] = h], h.own = handler[t].own,
           \/ h.step = "answered"
           \/ h.step = "refreshing" /\ dialog \in {"dividend", "position"}
    PROVE  BusyAwaited'
<1>1. handler'[t] = h /\ \A u \in Handlers : u # t => handler'[u] = handler[u]
  BY DEF SavesSound, ReceiptsSound, HandlersSound
<1>2. \A u \in Handlers : Owns(u)' <=> Owns(u)
  BY <1>1 DEF Owns
<1>3. \A u \in Handlers : Owns(u) => Underway(u)'
  BY <1>1 DEF Underway, BusyAwaited
<1>. QED
  BY <1>2, <1>3, StaysAwaited

\* One handler ends, and enables the dialog if it is its own.
LEMMA OneEnds ==
    ASSUME SavesSound, BusyAwaited, UNCHANGED dialog, NEW t \in Handlers,
           handler' = [handler EXCEPT ![t] = Idle],
           submitting' = (submitting /\ ~handler[t].own)
    PROVE  BusyAwaited'
<1>1. handler'[t] = Idle /\ \A u \in Handlers : u # t => handler'[u] = handler[u]
  BY DEF SavesSound, ReceiptsSound, HandlersSound
<1>2. Owns(t)' <=> FALSE
  BY <1>1 DEF Owns, Idle
<1>3. \A u \in Handlers : u # t => (Owns(u)' <=> Owns(u)) /\ (Underway(u)' <=> Underway(u))
  BY <1>1 DEF Owns, Underway
<1>4. submitting' = TRUE => submitting = TRUE /\ ~Owns(t)
  <2>1. submitting \in BOOLEAN /\ handler[t].own \in BOOLEAN
    BY DEF SavesSound, OneAwaited
  <2>. QED
    BY <2>1 DEF Owns
<1>. QED
  BY <1>2, <1>3, <1>4, Zenon DEF BusyAwaited

LEMMA StepAwaited == SavesSound /\ BusyAwaited /\ [Next]_vars => BusyAwaited'
<1>. SUFFICES ASSUME SavesSound, BusyAwaited, [Next]_vars PROVE BusyAwaited'
  OBVIOUS
<1>1. CASE UNCHANGED <<dialog, submitting, handler>>
  BY <1>1 DEF BusyAwaited, Owns, Underway
<1>2. ASSUME NEW t \in Handlers, Save(t) PROVE BusyAwaited'
  <2>1. UNCHANGED dialog /\ handler = [u \in Handlers |-> handler[u]]
    BY <1>2 DEF Save, SavesSound, ReceiptsSound, HandlersSound
  <2>2. /\ handler'[t].step = "sent" /\ handler'[t].own = TRUE
        /\ \A u \in Handlers : u # t => handler'[u] = handler[u]
    BY <1>2, <2>1 DEF Save
  <2>3. Owns(t)' /\ Underway(t)'
    BY <2>2 DEF Owns, Underway
  <2>4. \A u \in Handlers : u # t => (Owns(u)' <=> Owns(u)) /\ (Underway(u)' <=> Underway(u))
    BY <2>1, <2>2 DEF Owns, Underway
  <2>. QED
    BY <2>3, <2>4, Zenon DEF BusyAwaited
<1>3. CASE LeavePage
  <2>1. submitting' = FALSE /\ \A t \in Handlers : handler'[t].own = FALSE
    <3>1. /\ submitting' = FALSE
          /\ handler' = [t \in Handlers |-> [handler[t] EXCEPT !.own = FALSE]]
      BY <1>3 DEF LeavePage
    <3>2. \A t \in Handlers : "own" \in DOMAIN handler[t]
      BY DEF SavesSound, ReceiptsSound, HandlersSound, HandlerSound
    <3>. QED
      BY <3>1, <3>2
  <2>. QED
    BY <2>1 DEF BusyAwaited, Owns
<1>4. ASSUME NEW t \in Handlers, ServerPost(t) \/ Lose(t) PROVE BusyAwaited'
  <2>1. /\ UNCHANGED <<dialog, submitting>>
        /\ \E outcome : handler' = [handler EXCEPT ![t] = Answered(handler[t], outcome)]
    BY <1>4, Zenon DEF ServerPost, Lose
  <2>2. PICK outcome : handler' = [handler EXCEPT ![t] = Answered(handler[t], outcome)]
    BY <2>1
  <2>3. /\ Answered(handler[t], outcome).own = handler[t].own
        /\ Answered(handler[t], outcome).step = "answered"
    BY DEF Answered, Idle
  <2>. QED
    BY <2>1, <2>2, <2>3, OneProceeds
<1>5. ASSUME NEW t \in Handlers, LotAdded(t) \/ DividendRefreshed(t) \/ SaveFailed(t)
      PROVE  BusyAwaited'
  BY <1>5, OneEnds, Zenon DEF LotAdded, DividendRefreshed, SaveFailed, AfterFailure
<1>6. ASSUME NEW t \in Handlers, DividendLogged(t) PROVE BusyAwaited'
  <2>. DEFINE h == [Idle EXCEPT !.step = "refreshing", !.own = handler[t].own]
  <2>1. h.own = handler[t].own /\ h.step = "refreshing"
    BY DEF Idle
  <2>2. handler' = [handler EXCEPT ![t] = h] /\ UNCHANGED <<dialog, submitting>> /\ dialog = "dividend"
    BY <1>6 DEF DividendLogged
  <2>. HIDE DEF h
  <2>. QED
    BY <2>1, <2>2, OneProceeds
<1>7. ASSUME NEW t \in Handlers, PositionSaved(t) PROVE BusyAwaited'
  <2>1. "own" \in DOMAIN handler[t] /\ "step" \in DOMAIN handler[t]
    BY DEF SavesSound, ReceiptsSound, HandlersSound, HandlerSound
  <2>. DEFINE h == [handler[t] EXCEPT !.step = "refreshing"]
  <2>2. h.own = handler[t].own /\ h.step = "refreshing"
    BY <2>1
  <2>3. handler' = [handler EXCEPT ![t] = h] /\ UNCHANGED <<dialog, submitting>> /\ dialog = "position"
    BY <1>7 DEF PositionSaved
  <2>. HIDE DEF h
  <2>. QED
    BY <2>2, <2>3, OneProceeds
<1>8. ASSUME NEW t \in Handlers, PositionOpened(t) PROVE BusyAwaited'
  <2>1. /\ submitting' = FALSE
        /\ handler' = [u \in Handlers |-> IF u = t THEN Idle ELSE [handler[u] EXCEPT !.own = FALSE]]
    BY <1>8 DEF PositionOpened
  <2>2. \A u \in Handlers : "own" \in DOMAIN handler[u]
    BY DEF SavesSound, ReceiptsSound, HandlersSound, HandlerSound
  <2>3. \A u \in Handlers : handler'[u].own = FALSE
    BY <2>1, <2>2 DEF Idle
  <2>. QED
    BY <2>1, <2>3 DEF BusyAwaited, Owns
<1>9. \/ UNCHANGED <<dialog, submitting, handler>> \/ LeavePage
      \/ \E t \in Handlers : Save(t) \/ HandlerStep(t) \/ Lose(t)
  BY Zenon DEF Next, UserStep, OpenDialog, Dismiss, Cancel, TypePrice, TypeShares, ChooseBroker,
    ChooseYear, Fill, Return, OthersChange, Revalidate, vars
<1>. QED
  BY <1>1, <1>2, <1>3, <1>4, <1>5, <1>6, <1>7, <1>8, <1>9, Zenon DEF HandlerStep

\* A dialog shows "Saving" exactly while one save of its own is under way, and
\* that save has steps left that enable it: it is never left disabled with
\* nobody to enable it, however it is cancelled, dismissed, reopened or left
\* meanwhile (handleSave and its finally, in the three add dialogs).
THEOREM SavingIsAwaited == Spec => []BusyWhileSaving
<1>1. Init => BusyAwaited
  BY DEF Init, BusyAwaited, Owns, Idle
<1>2. SavesSound /\ BusyAwaited => BusyWhileSaving
  BY Zenon DEF SavesSound, OneAwaited, BusyAwaited, BusyWhileSaving
<1>. QED
  BY <1>1, <1>2, InitSaves, StepSaves, StepAwaited, PTL DEF Spec
=============================================================================
