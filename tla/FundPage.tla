------------------------------ MODULE FundPage ------------------------------
(***************************************************************************)
(* The conversion page in the browser: the buy card, the progress card and  *)
(* the poll of public/js/fund.js, the sell card and the review dialog of    *)
(* public/js/trade.js, and the sign-in and sign-out of public/js/app.js.    *)
(*                                                                          *)
(* Every fetch, timer and passkey prompt is a call in flight; what happens  *)
(* between two awaits is one step.  The page tells a late answer by a       *)
(* counter copied when the call was made (GEN, SESSION, QUOTE_REQUEST,      *)
(* generation, quoteGeneration) or by panel.isConnected: "void" is what     *)
(* that comparison will say, and a void call that releases no flag is       *)
(* forgotten at once.                                                       *)
(*                                                                          *)
(* The server keeps one job per account, a conversion or a trade, and a     *)
(* convertible amount per asset; it may refuse any price, review or         *)
(* transaction.  Prices, wording and layout are left out.                   *)
(***************************************************************************)
EXTENDS Naturals, FiniteSets

CONSTANTS
  Accounts, Assets, None,
  MaxAmount,     \* what can be typed, deposited and converted
  LeaveAnyTime,  \* may a sign-out come while a call that checks no session is under way
  MaxCalls,      \* bound: calls in flight when the person acts
  MaxInputs,     \* bound: acts of the person
  MaxVersion,    \* bound: moves of a job of itself
  MaxEvents      \* bound: deposits, failed status calls and lost answers to a write

ASSUME Bounds == /\ {MaxAmount, MaxCalls, MaxInputs, MaxVersion, MaxEvents} \subseteq Nat
                 /\ LeaveAnyTime \in BOOLEAN /\ "eth" \in Assets

VARIABLES
  account,   \* ADDRESS: the wallet on screen, None on the landing page
  cred,      \* credentialId(): the passkey remembered, also after a sign-out
  job,       \* server: [n, at] of each account
  spend,     \* server: what of each asset can be converted
  page,      \* the state of the two scripts, and what they show
  inputs, events

pageVars == <<account, cred, job, spend, page, inputs, events>>

Blank ==
  [timer |-> FALSE, last |-> None, busy |-> FALSE, working |-> FALSE,
   mode |-> "buy", selected |-> None, draft |-> [s \in Assets |-> None], panel |-> None,
   sellBox |-> 0, sellRoutes |-> None, dialog |-> None, fields |-> 0, review |-> None,
   calls |-> {}]

\* "frees" is the flag its handler releases: BUSY of fund.js, working of trade.js.
Call(kind, phase, frees, who, what) ==
  [kind |-> kind, phase |-> phase, frees |-> frees, who |-> who, what |-> what,
   void |-> FALSE, ok |-> TRUE]

\* The kinds of calls whose answer is compared with SESSION or generation.
OfSession == {"quote", "start", "sellquote", "preview", "sell", "approve", "tap", "action"}
OfNoSession == {"act", "land", "requote"}
Kinds == OfSession \cup OfNoSession \cup {"status"}

\* MUTANT of Voided: the handler of a late answer returns past its "finally".
VoidedForGood(p, kinds) == [p EXCEPT !.calls = {c \in @ : c.kind \notin kinds}]

Voided(p, kinds) ==
  LET late == {c \in p.calls : c.kind \in kinds}
  IN  [p EXCEPT !.calls = (@ \ late) \cup
         {[c EXCEPT !.void = TRUE] : c \in {d \in late : d.frees # "none"}}]
Done(p, c) == [p EXCEPT !.calls = @ \ {c}]
Plus(p, c) == [p EXCEPT !.calls = @ \cup {c}]
Turns(c, d) == Plus(Done(page, c), d)
Freed(p, flag) ==
  [p EXCEPT !.busy = @ /\ flag # "busy", !.working = @ /\ flag # "working"]

(***************************************************************************)
(* The poll: refresh() voids the refresh under way and the timer.           *)
(***************************************************************************)
\* MUTANT of Stopped: the timer is cleared, but GEN is not counted up.
StoppedTimer(p) == [p EXCEPT !.timer = FALSE]

Stopped(p) == [Voided(p, {"status"}) EXCEPT !.timer = FALSE]
Refreshing(p, who, flag) ==
  IF who = None THEN Freed(Stopped(p), flag)
  ELSE Plus(Stopped(p), Call("status", "ask", flag, who, None))

Forgotten(p) ==
  LET q == Stopped(Voided(p, OfSession))
  IN  [Blank EXCEPT !.busy = p.busy, !.working = p.working,
                    !.calls = {c \in q.calls : c.phase # "wait"}]

(***************************************************************************)
(* The buy card.                                                            *)
(***************************************************************************)
\* SELECTED of fund.js follows mode and selected of trade.js.
Selected(p) == IF p.mode = "buy" THEN p.selected ELSE None
Price(who, asset, amount, from) ==
  [who |-> who, asset |-> asset, amount |-> amount, from |-> from]

\* MUTANT of Requoted: QUOTE_REQUEST is not counted up.
RequotedSameRequest(p) ==
  LET s == Selected(p)
      q == [p EXCEPT !.calls = {c \in @ : c.phase # "wait"}]
  IN  IF p.panel = None \/ s = None THEN q
      ELSE Plus([q EXCEPT !.draft[s] = p.panel.box, !.panel.routes = None],
                Call("quote", "wait", "none", None, [asset |-> s, amount |-> p.panel.box]))

\* A new amount hides the routes, voids the quotes asked for and arms the debounce.
Requoted(p) ==
  LET s == Selected(p)
      q == [p EXCEPT !.calls = {c \in @ : c.phase # "wait"}]
  IN  IF p.panel = None \/ s = None THEN q
      ELSE Plus([Voided(q, {"quote"}) EXCEPT !.draft[s] = p.panel.box, !.panel.routes = None],
                Call("quote", "wait", "none", None, [asset |-> s, amount |-> p.panel.box]))

\* The old panel is disconnected: an answer for it is void.
Repanelled(p, panel) == [Voided(p, {"quote"}) EXCEPT !.panel = panel]

Convertible(p) ==
  /\ p.last # None /\ p.last.live /\ p.last.at # "moving"
  /\ Selected(p) # None /\ p.last.spend[Selected(p)] > 0

PanelOf(p) ==
  LET s == Selected(p)
      st == p.last
      box == IF p.draft[s] = None THEN st.spend[s] ELSE p.draft[s]
  IN  [asset |-> s, spend |-> st.spend[s], box |-> box,
       routes |-> IF box = st.spend[s] /\ st.quoted[s] > 0
                  THEN Price(st.who, s, st.quoted[s], "status") ELSE None]

\* With the focus in the panel it is left alone unless its asset or maximum changed.
BuyCard(p, focused) ==
  LET s == Selected(p)
      q == Repanelled(p, PanelOf(p))
      kept == focused /\ p.panel # None /\ p.panel.asset = s /\ p.panel.spend = p.last.spend[s]
  IN  IF ~Convertible(p) THEN Repanelled(p, None)
      ELSE IF kept THEN p
      ELSE IF p.draft[s] # None \/ p.last.quoted[s] = 0 THEN Requoted(q) ELSE q

Tradable(p) == p.last # None /\ p.last.live /\ p.last.at = "idle"
SellCard(p) ==
  IF Tradable(p) THEN p ELSE [Voided(p, {"sellquote"}) EXCEPT !.sellRoutes = None]

Rendered(p, focused) == SellCard(BuyCard(p, focused))

SelectAsset(p, mode, s) ==
  LET q == [p EXCEPT !.mode = mode, !.selected = s]
      r == IF Selected(q) = Selected(p) THEN q
           ELSE [Repanelled(q, None) EXCEPT !.calls = {c \in @ : c.phase # "wait"}]
  IN  IF r.last = None THEN r ELSE Rendered(r, FALSE)

(***************************************************************************)
(* Acts of the person.                                                      *)
(***************************************************************************)
Act(p) == /\ inputs < MaxInputs /\ inputs' = inputs + 1
          /\ Cardinality(page.calls) < MaxCalls
          /\ page' = p
Input(p) == /\ account # None /\ Act(p)
            /\ UNCHANGED <<account, cred, job, spend, events>>
\* The dialog is modal: the page behind it takes no input.
OnPage(p) == page.dialog = None /\ Input(p)
Busy(kind, phase, what) ==
  Plus([page EXCEPT !.busy = TRUE], Call(kind, phase, "busy", cred, what))
Working(p, kind, phase, what) ==
  Plus([p EXCEPT !.working = TRUE], Call(kind, phase, "working", cred, what))
Free(p, kind, phase, what) == Plus(p, Call(kind, phase, "none", cred, what))

SignIn(a) ==
  /\ account = None /\ account' = a /\ cred' = a
  /\ Act(Refreshing(page, a, "none"))
  /\ UNCHANGED <<job, spend, events>>

SignOut ==
  /\ account # None /\ account' = None
  /\ LeaveAnyTime \/ \A c \in page.calls : c.kind \notin OfNoSession
  /\ Act(Stopped(Forgotten(page)))
  /\ UNCHANGED <<cred, job, spend, events>>

UserRefresh == OnPage(Refreshing(page, cred, "none"))

ChooseMode ==
  LET q == [Voided(page, {"sellquote"}) EXCEPT !.sellRoutes = None]
  IN  OnPage(SelectAsset(q, IF page.mode = "buy" THEN "sell" ELSE "buy", None))

OpenAsset(s) ==
  /\ page.last # None
  /\ page.mode = "sell" => s \in {None, "eth"}
  /\ OnPage(SelectAsset(page, page.mode, s))

\* Typing, Max and "Compare buy routes".
Type(x) == /\ page.panel # None
           /\ OnPage(Requoted([page EXCEPT !.panel.box = x]))

StartSwap ==
  /\ page.panel # None /\ page.panel.routes # None
  /\ ~page.busy /\ Tradable(page)
  /\ OnPage(Busy("start", "submit",
       [asset |-> page.panel.asset, amount |-> page.panel.box, price |-> page.panel.routes]))

Stalled == page.last # None /\ page.last.at = "stopped"
Moving == page.last # None /\ page.last.at = "moving"

RetryOrReset == Stalled /\ OnPage(Free(page, "act", "submit", None))
ReviewRecovery ==
  /\ Stalled /\ \A c \in page.calls : c.kind # "requote"
  /\ OnPage(Free(page, "requote", "ask", None))
Land == Moving /\ ~page.busy /\ OnPage(Busy("land", "ask", None))

SellShown == page.mode = "sell" /\ page.selected = "eth" /\ Tradable(page)
SellType(x) ==
  /\ SellShown
  /\ OnPage([Voided(page, {"sellquote"}) EXCEPT !.sellBox = x, !.sellRoutes = None])
\* "Compare", or Max, which fills the box first.
SellQuote(x) ==
  /\ SellShown /\ x \in {page.sellBox, MaxAmount}
  /\ OnPage(Free([Voided(page, {"sellquote"}) EXCEPT !.sellBox = x, !.sellRoutes = None],
                 "sellquote", "ask", [amount |-> x]))
SellReview ==
  /\ page.sellRoutes # None /\ ~page.working
  /\ OnPage(Working(page, "sell", "ask", page.sellRoutes))

OpenWithdraw ==
  /\ page.selected = "eth" /\ Tradable(page)
  /\ OnPage([page EXCEPT !.dialog = "withdraw", !.fields = 0, !.review = None])
CloseDialog == page.dialog # None /\ Input([page EXCEPT !.dialog = None])

Approving == \E c \in page.calls : c.kind = "approve"
\* "fields" stands for the receiving address and the amount, 0 for blank ones.
Fill(x) == /\ page.dialog = "withdraw" /\ ~Approving
           /\ Input([page EXCEPT !.fields = x, !.review = None])
Preview(max) ==
  /\ page.dialog = "withdraw" /\ ~Approving /\ ~page.working
  /\ Input(Working([page EXCEPT !.review = None], "preview", "ask",
                   [text |-> page.fields, max |-> max]))
Confirm ==
  /\ page.dialog # None /\ page.review # None /\ ~page.working
  /\ Input(Working(page, "approve", "sign", page.review))

Tap == Moving /\ ~page.working /\ OnPage(Working(page, "tap", "ask", None))
RetryOrCancel == (Moving \/ Stalled) /\ ~page.working
                 /\ OnPage(Working(page, "action", "ask", None))

Person ==
  \/ \E a \in Accounts : SignIn(a)
  \/ SignOut \/ UserRefresh \/ ChooseMode
  \/ \E s \in Assets \cup {None} : OpenAsset(s)
  \/ \E x \in 0..MaxAmount : Type(x) \/ SellType(x) \/ SellQuote(x) \/ Fill(x)
  \/ StartSwap \/ RetryOrReset \/ ReviewRecovery \/ Land
  \/ SellReview \/ OpenWithdraw \/ CloseDialog
  \/ \E max \in BOOLEAN : Preview(max)
  \/ Confirm \/ Tap \/ RetryOrCancel

(***************************************************************************)
(* Timers, prompts and answers.                                             *)
(***************************************************************************)
Becomes(p) == page' = p /\ UNCHANGED <<account, cred, job, spend, inputs, events>>
Released(c) == Becomes(Freed(Done(page, c), c.frees))
Wanted(c, phase) == c.phase = phase /\ ~c.void

Poll == page.timer /\ Becomes(Refreshing(page, cred, "none"))

\* The debounce is over: an amount above zero is priced.
PriceDue(c) ==
  /\ Wanted(c, "wait")
  /\ Becomes(IF c.what.amount = 0 THEN Done(page, c)
             ELSE Turns(c, Call("quote", "ask", "none", cred, c.what)))

\* The passkey prompt, or the question reviewRecovery() asks, is answered or closed.
\* land() and reviewRecovery() go on as whoever is signed in by now.
Signed(c) ==
  [c EXCEPT !.phase = "submit", !.what = IF c.kind \in OfNoSession THEN [signer |-> cred] ELSE @]
Prompt(c) == Wanted(c, "sign") /\ (Becomes(Turns(c, Signed(c))) \/ Released(c))

\* refresh() of a status: the job and what is convertible are read first, the quotes
\* after them.
StatusRead(c) ==
  /\ c.kind = "status" /\ Wanted(c, "ask")
  /\ Becomes(Turns(c, [c EXCEPT !.phase = "told", !.what =
       [who |-> c.who, n |-> job[c.who].n, at |-> job[c.who].at, spend |-> spend[c.who]]]))
Quoted(c, from) ==
  [s \in Assets |-> IF c.what.at = "moving" THEN 0 ELSE from[s]]
Status(c, from) ==
  [who |-> c.who, n |-> c.what.n, at |-> c.what.at, spend |-> c.what.spend,
   quoted |-> Quoted(c, from), live |-> TRUE]
Told(c, st, focused) ==
  Freed([Rendered([Done(page, c) EXCEPT !.last = st], focused) EXCEPT !.timer = TRUE], c.frees)
Refreshed(c) ==
  /\ c.kind = "status" /\ Wanted(c, "told")
  /\ \E from \in {c.what.spend, spend[c.who]}, focused \in BOOLEAN :
       Becomes(Told(c, Status(c, from), focused))
\* A failed one keeps the job on screen, and polls again.
RefreshFailed(c) ==
  /\ c.kind = "status" /\ c.phase \in {"ask", "told"} /\ ~c.void
  /\ events < MaxEvents /\ events' = events + 1
  /\ \E focused \in BOOLEAN :
       page' = Told(c, IF page.last = None THEN None
                                   ELSE [page.last EXCEPT !.live = FALSE], focused)
  /\ UNCHANGED <<account, cred, job, spend, inputs>>

\* MUTANT of Granted: the review of a withdrawal is shown whatever the fields say by now.
GrantedAnyway(c) ==
  LET p == Done(page, c)
      text == IF c.what.max THEN MaxAmount ELSE c.what.text
  IN
  CASE c.kind = "quote" ->
         [p EXCEPT !.panel.routes = Price(c.who, c.what.asset, c.what.amount, "quote")]
    [] c.kind = "sellquote" -> [p EXCEPT !.sellRoutes = [who |-> c.who, amount |-> c.what.amount]]
    [] c.kind = "sell" ->
         [p EXCEPT !.dialog = "sell", !.fields = 0,
                   !.review = [kind |-> "sell", who |-> c.who, text |-> c.what.amount]]
    [] c.kind = "preview" ->
         [p EXCEPT !.review = [kind |-> "withdraw", who |-> c.who, text |-> text]]
    [] OTHER -> Plus(p, [c EXCEPT !.phase = "sign"])

\* What the answer to each question puts on screen.  A withdrawal's review is shown
\* only if the fields still say what was sent.
Granted(c) ==
  LET p == Done(page, c)
      text == IF c.what.max THEN MaxAmount ELSE c.what.text
  IN
  CASE c.kind = "quote" ->
         IF c.what.asset # Selected(p) THEN p
         ELSE [p EXCEPT !.panel.routes = Price(c.who, c.what.asset, c.what.amount, "quote")]
    [] c.kind = "sellquote" -> [p EXCEPT !.sellRoutes = [who |-> c.who, amount |-> c.what.amount]]
    [] c.kind = "sell" ->
         [p EXCEPT !.dialog = "sell", !.fields = 0,
                   !.review = [kind |-> "sell", who |-> c.who, text |-> c.what.amount]]
    [] c.kind = "preview" ->
         IF c.what.text = 0 \/ c.what.text # p.fields THEN p
         ELSE [p EXCEPT !.fields = text,
                        !.review = [kind |-> "withdraw", who |-> c.who, text |-> text]]
    [] OTHER -> Plus(p, [c EXCEPT !.phase = "sign"])

Grant(c) ==
  /\ c.kind # "status" /\ Wanted(c, "ask")
  /\ Becomes(IF c.kind \in {"quote", "sellquote", "sell", "preview"}
             THEN Freed(Granted(c), c.frees) ELSE Granted(c))

\* Refused, or an answer nobody waits for.  A refused tap() reads the status again.
Refused(c) ==
  IF c.kind = "tap" /\ ~c.void THEN Becomes(Refreshing(Done(page, c), cred, c.frees))
  ELSE IF c.kind = "start" /\ ~c.void
  THEN \E p \in {Done(page, c), Requoted(Done(page, c))} : Becomes(Freed(p, c.frees))
  ELSE Released(c)
Refuse(c) ==
  \/ c.void /\ c.phase # "submit" /\ Released(c)
  \/ c.kind # "status" /\ Wanted(c, "ask") /\ Refused(c)

(***************************************************************************)
(* The writes: the server takes the call or not, then the page is told.     *)
(***************************************************************************)
Moved(a, at) == job' = [job EXCEPT ![a] = [n |-> @.n + 1, at |-> at]]

Accepts(c) ==
  LET at == job[c.who].at IN
  CASE c.kind = "start" ->
         /\ at = "idle" /\ c.what.price.who = c.who /\ c.what.price.asset = c.what.asset
         /\ c.what.price.amount = c.what.amount /\ c.what.amount \in 1..spend[c.who][c.what.asset]
    [] c.kind = "approve" -> at = "idle"
    [] c.kind = "land" -> at = "moving" /\ c.what.signer = c.who
    [] c.kind = "requote" -> at = "stopped" /\ c.what.signer = c.who
    [] c.kind = "tap" -> at = "moving"
    [] c.kind = "act" -> at = "stopped"
    [] OTHER -> at # "idle"
\* Retry, Reset and Cancel; a landing; anything that starts or resumes a job.
LeavesJob(c) == IF c.kind \in {"act", "action"} THEN {"moving", "idle"}
             ELSE IF c.kind \in {"land", "tap"} THEN {"idle"} ELSE {"moving"}

Write(c) ==
  /\ c.kind # "status" /\ c.phase = "submit"
  /\ page' = Turns(c, [c EXCEPT !.phase = "told", !.ok = Accepts(c)])
  /\ IF ~Accepts(c) THEN UNCHANGED <<job, spend>>
     ELSE /\ \E at \in LeavesJob(c) : Moved(c.who, at)
          /\ spend' = IF c.kind # "start" THEN spend
                      ELSE [spend EXCEPT ![c.who][c.what.asset] = @ - c.what.amount]
  /\ UNCHANGED <<account, cred, inputs, events>>

\* Every write that was taken ends in a refresh.
Ends(c) ==
  LET p == Done(page, c)
  IN  Refreshing(IF c.kind = "approve" THEN [p EXCEPT !.dialog = None, !.review = None] ELSE p,
                 cred, c.frees)
Written(c) == /\ c.kind # "status" /\ Wanted(c, "told")
              /\ IF c.ok THEN Becomes(Ends(c)) ELSE Refused(c)
WriteLost(c) ==
  /\ c.kind # "status" /\ c.phase = "told" /\ c.ok
  /\ events < MaxEvents /\ events' = events + 1
  /\ page' = Turns(c, [c EXCEPT !.ok = FALSE])
  /\ UNCHANGED <<account, cred, job, spend, inputs>>

JobMoves(a) ==
  /\ job[a].at = "moving" /\ job[a].n < MaxVersion
  /\ \E at \in {"idle", "stopped"} : Moved(a, at)
  /\ UNCHANGED <<account, cred, spend, page, inputs, events>>
\* Only those of the wallet the page asks about can make a difference.
Deposit(s) ==
  /\ events < MaxEvents /\ events' = events + 1
  /\ spend[cred][s] < MaxAmount /\ spend' = [spend EXCEPT ![cred][s] = @ + 1]
  /\ UNCHANGED <<account, cred, job, page, inputs>>

Advance(c) ==
  \/ PriceDue(c) \/ Prompt(c) \/ StatusRead(c) \/ Refreshed(c)
  \/ Grant(c) \/ Refuse(c) \/ Write(c) \/ Written(c)

\* The page after a first status, with a card open or none; a withdrawal may be
\* being filled in.
Opened(a, mode, s, dialog) ==
  LET st == [who |-> a, n |-> 0, at |-> job[a].at, spend |-> spend[a],
             quoted |-> [x \in Assets |-> IF job[a].at = "moving" THEN 0 ELSE spend[a][x]],
             live |-> TRUE]
  IN  Rendered([Blank EXCEPT !.last = st, !.timer = TRUE, !.mode = mode, !.selected = s,
                             !.dialog = dialog], FALSE)

PageInit ==
  /\ \E at \in {"idle", "moving", "stopped"} : job = [a \in Accounts |-> [n |-> 0, at |-> at]]
  /\ spend = [a \in Accounts |-> [s \in Assets |-> 1]]
  /\ account = (CHOOSE a \in Accounts : TRUE) /\ cred = account
  /\ \E mode \in {"buy", "sell"}, s \in {None, "eth"}, dialog \in {None, "withdraw"} :
       /\ dialog # None => s = "eth" /\ job[account].at = "idle"
       /\ page = Opened(account, mode, s, dialog)
  /\ inputs = 0 /\ events = 0

PageNext ==
  \/ Person \/ Poll
  \/ \E c \in page.calls : Advance(c) \/ RefreshFailed(c) \/ WriteLost(c)
  \/ \E a \in Accounts : JobMoves(a)
  \/ \E s \in Assets : Deposit(s)

PageSpec == PageInit /\ [][PageNext]_pageVars

(***************************************************************************)
(* What the page promises.                                                  *)
(***************************************************************************)
\* Every route button on screen is priced for the wallet that is signed in, for
\* the selected asset and for the amount in the box; only the price that came
\* with the maximum itself may be off, by a deposit that landed in between.
PricesTheBox ==
  /\ page.panel # None /\ page.panel.routes # None =>
       LET r == page.panel.routes
       IN  /\ r.who = account /\ r.asset = page.panel.asset /\ r.asset = Selected(page)
           /\ \/ r.amount = page.panel.box
              \/ r.from = "status" /\ page.panel.box = page.panel.spend
  /\ page.sellRoutes # None =>
       page.sellRoutes.who = account /\ page.sellRoutes.amount = page.sellBox

\* What the passkey will approve is of the wallet signed in and what the dialog says.
ReviewIsShown ==
  page.review # None =>
    /\ page.review.who = account
    /\ page.review.kind = "withdraw" => page.review.text = page.fields
    /\ page.dialog # None => page.dialog = page.review.kind

\* The job on screen never goes back to an earlier one: a late status is not shown.
OnlyForward ==
  [][(page.last # None /\ page'.last # None /\ page.last.who = page'.last.who)
       => page'.last.n >= page.last.n]_pageVars

\* Nothing of the wallet that was signed in before is on another one's screen.
NothingOfAnother == account # None /\ page.last # None => page.last.who = account

\* However calls end, the page does not get stuck: signed in, it polls or waits for a
\* status that will be heeded, and a flag that disables its buttons is set only while
\* the call that releases it is under way.
NeverStuck ==
  LET waits(f) == \E c \in page.calls : c.frees = f
  IN  /\ account # None => page.timer \/ \E c \in page.calls : c.kind = "status" /\ ~c.void
      /\ page.busy => waits("busy")
      /\ page.working => waits("working")
=============================================================================
