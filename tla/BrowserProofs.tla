----------------------------- MODULE BrowserProofs -----------------------------
(***************************************************************************)
(* Theorems about what the browser shows.  First about FundPage, for any    *)
(* wallets, assets, amounts and bounds: the conversion page prices what is  *)
(* in its boxes, shows what will be approved, moves only forward and never  *)
(* gets stuck, however its calls end or overtake each other.  Then about    *)
(* Sends, for any forms, accounts, hosts, tries, faults and reorganisations *)
(* of the chain: what people are told of a send is so until the chain takes *)
(* back the block they were told of, and a form that is sent off again pays *)
(* once unless an answer was lost, a forecast, or read from such a block.   *)
(***************************************************************************)
EXTENDS FundPage, Sends, FiniteSetTheorems, TLAPS

PageFields ==
  {"timer", "last", "busy", "working", "mode", "selected", "draft", "panel", "sellBox",
   "sellRoutes", "dialog", "fields", "review", "calls"}
CallFields == {"kind", "phase", "frees", "who", "what", "void", "ok"}

CallSound(c) ==
  /\ DOMAIN c = CallFields /\ c.kind \in Kinds /\ c.void \in BOOLEAN
  /\ c.phase = "wait" => c.kind = "quote"
  /\ c.kind \in {"quote", "sellquote"} => c.frees = "none"
  /\ c.kind \in {"preview", "sell"} => c.frees = "working"
  /\ c.phase # "wait" => c.who \in Accounts

Shaped(p) == DOMAIN p = PageFields /\ \A c \in p.calls : CallSound(c)

\* A flag is set only while a call that releases it is under way, except that f is
\* about to be released; and one call at a time releases "working".
Flags(p, f) ==
  /\ p.busy => f = "busy" \/ \E c \in p.calls : c.frees = "busy"
  /\ p.working => f = "working" \/ \E c \in p.calls : c.frees = "working"
  /\ f = "working" => p.working
  /\ \A c \in p.calls : c.frees = "working" =>
       /\ p.working /\ f # "working"
       /\ \A d \in p.calls : d.frees = "working" => c = d

Awake(p, a) == a # None => p.timer \/ \E c \in p.calls : c.kind = "status" /\ ~c.void

Heard(p, kinds) == {c \in p.calls : c.kind \in kinds /\ ~c.void}

Reviews(p, a) ==
  /\ p.review # None =>
       /\ p.review.who = a /\ a # None
       /\ p.review.kind = "withdraw" => p.review.text = p.fields
       /\ p.dialog # None => p.dialog = p.review.kind
  /\ \A c \in Heard(p, {"sell", "preview"}) : c.who = a /\ a # None
  /\ \A c \in Heard(p, {"preview"}) : p.dialog \in {None, "withdraw"}

Forwards(p, k, j) ==
  /\ p.last # None => /\ p.last.who \in Accounts /\ p.last.n <= j[p.last.who].n
                      /\ DOMAIN p.last = {"who", "n", "at", "spend", "quoted", "live"}
                      /\ p.last.n \in Nat
  /\ \A c \in Heard(p, {"status"}) :
       /\ c.who = k /\ c.phase \in {"ask", "told"}
       /\ c.phase = "told" =>
            /\ c.what.n <= j[c.who].n /\ c.what.n \in Nat
            /\ p.last # None /\ p.last.who = c.who => p.last.n <= c.what.n
       /\ \A d \in Heard(p, {"status"}) : c = d

OfAsset(p, a) == /\ a # None /\ Selected(p) # None /\ p.panel.asset = Selected(p)
                 /\ DOMAIN p.panel = {"asset", "spend", "box", "routes"}
PanelFits(p, a) == p.panel # None => OfAsset(p, a)

\* The routes of the buy card, and the quotes that will still be heard.
BuyPriced(p, a) ==
  /\ PanelFits(p, a)
  /\ p.panel # None /\ p.panel.routes # None =>
       LET r == p.panel.routes
       IN  /\ r.who = a /\ r.asset = Selected(p)
           /\ \/ r.amount = p.panel.box
              \/ r.from = "status" /\ p.panel.box = p.panel.spend
  /\ \A c \in Heard(p, {"quote"}) :
       /\ OfAsset(p, a) /\ c.what.asset = Selected(p) /\ c.what.amount = p.panel.box
       /\ c.phase # "wait" => c.who = a

SellPriced(p, a) ==
  /\ p.sellRoutes # None => a # None /\ p.sellRoutes.who = a /\ p.sellRoutes.amount = p.sellBox
  /\ \A c \in Heard(p, {"sellquote"}) : a # None /\ c.who = a /\ c.what.amount = p.sellBox

\* Nothing of another wallet, and nothing on its way while nobody is signed in.
Own(p, a) ==
  /\ p.last # None => p.last.who = a /\ a # None
  /\ a = None => ~p.timer /\ \A c \in p.calls : c.void

Priced(p, a) == BuyPriced(p, a) /\ SellPriced(p, a) /\ Own(p, a)

ServerSound(a, k, j) ==
  /\ k \in Accounts /\ (a # None => a = k)
  /\ DOMAIN j = Accounts
  /\ \A b \in Accounts : DOMAIN j[b] = {"n", "at"} /\ j[b].n \in Nat

Sound(p, a, k, j, f) ==
  /\ Shaped(p) /\ Flags(p, f) /\ Reviews(p, a) /\ Forwards(p, k, j)
  /\ ~LeaveAnyTime => Priced(p, a)

PageInv ==
  /\ ServerSound(account, cred, job)
  /\ Sound(page, account, cred, job, "none") /\ Awake(page, account)

\* None is none of the panels of the buy card.
NoPanel == DOMAIN None # {"asset", "spend", "box", "routes"}

-----------------------------------------------------------------------------
(* Calls in flight. *)

Quotes == {"quote", "sellquote"}

\* The calls that release a flag.
Releasing(p) == {c \in p.calls : c.frees # "none"}

LEMMA KindFacts ==
  /\ "status" \in Kinds /\ OfSession \subseteq Kinds /\ OfNoSession \subseteq Kinds
  /\ "status" \notin OfSession /\ Quotes \subseteq OfSession
  /\ {"sell", "preview", "start", "approve", "tap", "action"} \subseteq OfSession
  /\ OfNoSession = {"act", "land", "requote"} /\ OfSession \cap OfNoSession = {}
  BY DEF Kinds, OfSession, OfNoSession, Quotes

\* The flags depend on these calls only.
LEMMA FlagsStay ==
  ASSUME NEW p, NEW q, NEW f, Flags(p, f), q.busy = p.busy, q.working = p.working,
         Releasing(q) = Releasing(p)
  PROVE  Flags(q, f)
<1>1. \A c : (c \in q.calls /\ c.frees # "none") <=> (c \in p.calls /\ c.frees # "none")
  BY DEF Releasing
<1> QED
  BY <1>1 DEF Flags

\* What is shown to approve.
LEMMA ReviewsStay ==
  ASSUME NEW p, NEW q, NEW a, Reviews(p, a), q.review = p.review, q.fields = p.fields,
         q.dialog = p.dialog,
         Heard(q, {"sell", "preview"}) \subseteq Heard(p, {"sell", "preview"})
  PROVE  Reviews(q, a)
<1>1. Heard(q, {"preview"}) \subseteq Heard(p, {"preview"})
  BY DEF Heard
<1> QED
  BY <1>1 DEF Reviews

LEMMA ForwardsStay ==
  ASSUME NEW p, NEW q, NEW k, NEW j, Forwards(p, k, j), q.last = p.last,
         Heard(q, {"status"}) \subseteq Heard(p, {"status"})
  PROVE  Forwards(q, k, j)
  BY DEF Forwards

\* Calls of other kinds than quotes make no difference to the prices.
LEMMA PricedStays ==
  ASSUME NEW p, NEW q, NEW a, Priced(p, a), q.panel = p.panel, q.sellRoutes = p.sellRoutes,
         q.sellBox = p.sellBox, q.last = p.last, q.mode = p.mode, q.selected = p.selected,
         q.timer = p.timer \/ a # None,
         Heard(q, {"quote"}) \subseteq Heard(p, {"quote"}),
         Heard(q, {"sellquote"}) \subseteq Heard(p, {"sellquote"}),
         a # None \/ \A c \in q.calls : c.void
  PROVE  Priced(q, a)
<1>1. Selected(q) = Selected(p)
  BY DEF Selected
<1>2. BuyPriced(q, a)
  BY <1>1 DEF Priced, BuyPriced, PanelFits, OfAsset
<1>3. SellPriced(q, a)
  BY DEF Priced, SellPriced
<1>4. Own(q, a)
  BY DEF Priced, Own
<1> QED
  BY <1>2, <1>3, <1>4 DEF Priced

LEMMA VoidOf ==
  ASSUME NEW c, CallSound(c)
  PROVE  LET d == [c EXCEPT !.void = TRUE]
         IN /\ CallSound(d) /\ d.void /\ d.frees = c.frees /\ d.kind = c.kind
            /\ d.phase = c.phase /\ d.who = c.who
<1>1. PICK d : d = [c EXCEPT !.void = TRUE]
  OBVIOUS
<1>2. DOMAIN d = CallFields /\ \A x \in CallFields : x # "void" => d[x] = c[x]
  BY <1>1 DEF CallSound
<1>3. d.void = TRUE
  BY <1>1 DEF CallSound, CallFields
<1>4. d.kind = c.kind /\ d.frees = c.frees /\ d.phase = c.phase /\ d.who = c.who
  BY <1>2 DEF CallFields
<1>5. CallSound(d)
  BY <1>2, <1>3, <1>4 DEF CallSound
<1> QED
  BY <1>1, <1>3, <1>4, <1>5

\* Voided() leaves the calls of other kinds alone; of the late ones only those that
\* release a flag remain, and nobody hears them.
LEMMA VoidedFacts ==
  ASSUME NEW p, NEW kinds, Shaped(p), NEW q, q = Voided(p, kinds)
  PROVE  /\ Shaped(q)
         /\ \A x \in PageFields : x # "calls" => q[x] = p[x]
         /\ \A ks : Heard(q, ks) = {c \in Heard(p, ks) : c.kind \notin kinds}
         /\ \A c \in p.calls : c.frees # "none" =>
              (IF c.kind \in kinds THEN [c EXCEPT !.void = TRUE] ELSE c) \in q.calls
         /\ \A d \in q.calls : \/ d \in p.calls /\ d.kind \notin kinds
                               \/ \E c \in p.calls : /\ c.kind \in kinds /\ c.frees # "none"
                                                     /\ d = [c EXCEPT !.void = TRUE]
<1>1. PICK late : late = {c \in p.calls : c.kind \in kinds}
  OBVIOUS
<1>2. PICK calls : calls = (p.calls \ late) \cup
                     {[c EXCEPT !.void = TRUE] : c \in {d \in late : d.frees # "none"}}
  OBVIOUS
<1>3. q = [p EXCEPT !.calls = calls]
  BY <1>1, <1>2 DEF Voided
<1>4. DOMAIN q = PageFields /\ q.calls = calls /\ \A x \in PageFields : x # "calls" => q[x] = p[x]
  BY <1>3 DEF Shaped, PageFields
<1>5. \A d \in q.calls : \/ d \in p.calls /\ d.kind \notin kinds
                         \/ \E c \in p.calls : /\ c.kind \in kinds /\ c.frees # "none"
                                               /\ d = [c EXCEPT !.void = TRUE]
  BY <1>1, <1>2, <1>4
<1>6. \A c \in p.calls : CallSound(c)
  BY DEF Shaped
<1>7. \A c \in p.calls : CallSound([c EXCEPT !.void = TRUE]) /\ [c EXCEPT !.void = TRUE].void
  BY <1>6, VoidOf
<1>8. Shaped(q)
  BY <1>4, <1>5, <1>6, <1>7 DEF Shaped
<1>9. \A c \in p.calls : c.frees # "none" =>
         (IF c.kind \in kinds THEN [c EXCEPT !.void = TRUE] ELSE c) \in q.calls
  BY <1>1, <1>2, <1>4
<1>10. ASSUME NEW ks PROVE Heard(q, ks) = {c \in Heard(p, ks) : c.kind \notin kinds}
  <2>1. ASSUME NEW d \in Heard(q, ks) PROVE d \in Heard(p, ks) /\ d.kind \notin kinds
    BY <2>1, <1>5, <1>7 DEF Heard
  <2>2. ASSUME NEW d \in Heard(p, ks), d.kind \notin kinds PROVE d \in Heard(q, ks)
    <3>1. d \in q.calls
      BY <2>2, <1>1, <1>2, <1>4 DEF Heard
    <3> QED
      BY <3>1, <2>2 DEF Heard
  <2> QED
    BY <2>1, <2>2
<1> QED
  BY <1>4, <1>5, <1>8, <1>9, <1>10

LEMMA VoidedFlags ==
  ASSUME NEW p, NEW kinds, Shaped(p), NEW f, Flags(p, f), NEW q, q.busy = p.busy,
         q.working = p.working,
         Releasing(q) = Releasing(Voided(p, kinds))
  PROVE  Flags(q, f)
<1>1. PICK v : v = Voided(p, kinds)
  OBVIOUS
<1>2. /\ v.busy = p.busy /\ v.working = p.working
      /\ \A c \in p.calls : c.frees # "none" =>
              (IF c.kind \in kinds THEN [c EXCEPT !.void = TRUE] ELSE c) \in v.calls
      /\ \A d \in v.calls : \/ d \in p.calls /\ d.kind \notin kinds
                            \/ \E c \in p.calls : /\ c.kind \in kinds /\ c.frees # "none"
                                                  /\ d = [c EXCEPT !.void = TRUE]
  BY <1>1, VoidedFacts DEF PageFields
<1>3. \A c \in p.calls : [c EXCEPT !.void = TRUE].frees = c.frees
  BY VoidOf DEF Shaped
<1>4. \A c \in p.calls : c.frees # "none" => \E d \in v.calls : d.frees = c.frees
  BY <1>2, <1>3
<1>5. ASSUME NEW d \in v.calls
      PROVE  \E c \in p.calls : /\ d.frees = c.frees
                                /\ c.kind \in kinds => d = [c EXCEPT !.void = TRUE]
                                /\ c.kind \notin kinds => d = c
  <2>1. CASE d \in p.calls /\ d.kind \notin kinds
    BY <2>1
  <2>2. ASSUME NEW c \in p.calls, c.kind \in kinds, d = [c EXCEPT !.void = TRUE]
        PROVE  d.frees = c.frees
    BY <2>2, <1>3
  <2> QED
    BY <2>1, <2>2, <1>2
<1>6. /\ \A d \in v.calls : d.frees = "working" => p.working /\ f # "working"
      /\ \A d, e \in v.calls : d.frees = "working" /\ e.frees = "working" => d = e
  <2> SUFFICES ASSUME NEW d \in v.calls, NEW e \in v.calls, d.frees = "working"
               PROVE  p.working /\ f # "working" /\ (e.frees = "working" => d = e)
    OBVIOUS
  <2>1. PICK b \in p.calls : /\ d.frees = b.frees
                             /\ b.kind \in kinds => d = [b EXCEPT !.void = TRUE]
                             /\ b.kind \notin kinds => d = b
    BY <1>5
  <2>2. PICK c \in p.calls : /\ e.frees = c.frees
                             /\ c.kind \in kinds => e = [c EXCEPT !.void = TRUE]
                             /\ c.kind \notin kinds => e = c
    BY <1>5
  <2>3. p.working /\ f # "working" /\ (c.frees = "working" => b = c)
    BY <2>1 DEF Flags
  <2> QED
    BY <2>1, <2>2, <2>3
<1>7. Flags(v, f)
  BY <1>2, <1>4, <1>6 DEF Flags
<1> QED
  BY <1>1, <1>2, <1>7, FlagsStay

-----------------------------------------------------------------------------
(* The cards. *)

\* q shows other prices than p, or waits for other quotes, and is the same otherwise.
Reprices(p, q) ==
  /\ Shaped(q) /\ Releasing(q) = Releasing(p)
  /\ \A x \in PageFields \ {"calls", "panel", "draft", "sellRoutes"} : q[x] = p[x]
  /\ \A ks : ks \cap Quotes = {} => Heard(q, ks) = Heard(p, ks)
  /\ \A c \in q.calls : c.phase = "wait" \/ c \in p.calls

LEMMA RepricesSame ==
  ASSUME NEW p, Shaped(p) PROVE Reprices(p, p)
  BY DEF Reprices

LEMMA RepricesThen ==
  ASSUME NEW p, NEW q, NEW r, Reprices(p, q), Reprices(q, r) PROVE Reprices(p, r)
  BY DEF Reprices

LEMMA RepricesFields ==
  ASSUME NEW p, NEW q, Reprices(p, q)
  PROVE  /\ Shaped(q) /\ q.timer = p.timer /\ q.last = p.last /\ q.busy = p.busy
         /\ q.working = p.working /\ q.mode = p.mode /\ q.selected = p.selected
         /\ q.sellBox = p.sellBox /\ q.dialog = p.dialog /\ q.fields = p.fields
         /\ q.review = p.review /\ Selected(q) = Selected(p)
  BY DEF Reprices, PageFields, Selected

\* What else the page promises stays.
LEMMA RepricesKeeps ==
  ASSUME NEW p, NEW q, Reprices(p, q), NEW a, NEW k, NEW j, NEW f
  PROVE  /\ Flags(p, f) => Flags(q, f)
         /\ Reviews(p, a) => Reviews(q, a)
         /\ Forwards(p, k, j) => Forwards(q, k, j)
         /\ Awake(p, a) => Awake(q, a)
<1>1. /\ q.busy = p.busy /\ q.working = p.working /\ Releasing(q) = Releasing(p)
      /\ q.timer = p.timer /\ q.last = p.last /\ q.dialog = p.dialog /\ q.fields = p.fields
      /\ q.review = p.review
  BY RepricesFields DEF Reprices
<1>2. Heard(q, {"sell", "preview"}) = Heard(p, {"sell", "preview"})
  BY DEF Reprices, Quotes
<1>3. Heard(q, {"status"}) = Heard(p, {"status"})
  BY DEF Reprices, Quotes
<1>4. Awake(p, a) => Awake(q, a)
  BY <1>1, <1>3 DEF Awake, Heard
<1> QED
  BY <1>1, <1>2, <1>3, <1>4, FlagsStay, ReviewsStay, ForwardsStay

\* Quotes release no flag, so that late ones are forgotten at once.
LEMMA QuotesVoided ==
  ASSUME NEW p, Shaped(p), NEW kinds, kinds \subseteq Quotes, NEW q, q = Voided(p, kinds)
  PROVE  /\ Reprices(p, q) /\ q.panel = p.panel /\ q.sellRoutes = p.sellRoutes
         /\ \A ks : Heard(q, ks) = {c \in Heard(p, ks) : c.kind \notin kinds}
         /\ q.calls = {c \in p.calls : c.kind \notin kinds}
<1>1. \A c \in p.calls : c.kind \in kinds => c.frees = "none"
  BY DEF Shaped, CallSound, Quotes
<1>2. /\ Shaped(q)
      /\ \A x \in PageFields : x # "calls" => q[x] = p[x]
      /\ \A ks : Heard(q, ks) = {c \in Heard(p, ks) : c.kind \notin kinds}
  BY VoidedFacts
<1>3. q.calls = {c \in p.calls : c.kind \notin kinds}
  BY <1>1 DEF Voided, Shaped, PageFields
<1>4. Releasing(q) = Releasing(p)
  BY <1>1, <1>3 DEF Releasing
<1>5. q.panel = p.panel /\ q.sellRoutes = p.sellRoutes
  BY <1>2 DEF PageFields
<1>6. \A ks : ks \cap Quotes = {} => Heard(q, ks) = Heard(p, ks)
  BY <1>2 DEF Heard
<1> QED
  BY <1>2, <1>3, <1>4, <1>5, <1>6 DEF Reprices

\* The debounce is cleared.
LEMMA WaitsDropped ==
  ASSUME NEW p, Shaped(p), NEW q, q = [p EXCEPT !.calls = {c \in @ : c.phase # "wait"}]
  PROVE  /\ Reprices(p, q) /\ q.panel = p.panel /\ q.sellRoutes = p.sellRoutes
         /\ \A ks : Heard(q, ks) \subseteq Heard(p, ks)
         /\ Heard(q, {"sellquote"}) = Heard(p, {"sellquote"})
<1>1. /\ q.calls = {c \in p.calls : c.phase # "wait"} /\ DOMAIN q = PageFields
      /\ \A x \in PageFields : x # "calls" => q[x] = p[x]
  BY DEF Shaped, PageFields
<1>2. \A c \in p.calls : c.phase = "wait" => c.kind = "quote" /\ c.frees = "none"
  BY DEF Shaped, CallSound
<1>3. Releasing(q) = Releasing(p)
  BY <1>1, <1>2 DEF Releasing
<1>4. Shaped(q)
  BY <1>1 DEF Shaped
<1>5. \A ks : "quote" \notin ks => Heard(q, ks) = Heard(p, ks)
  BY <1>1, <1>2 DEF Heard
<1>6. \A ks : Heard(q, ks) \subseteq Heard(p, ks)
  BY <1>1 DEF Heard
<1>7. q.panel = p.panel /\ q.sellRoutes = p.sellRoutes
  BY <1>1 DEF PageFields
<1> QED
  BY <1>1, <1>3, <1>4, <1>5, <1>6, <1>7 DEF Reprices, Quotes

\* The prices of the other card are not touched.
SellSame(p, q) ==
  q.sellRoutes = p.sellRoutes /\ Heard(q, {"sellquote"}) = Heard(p, {"sellquote"})

LEMMA SellStays ==
  ASSUME NEW p, NEW q, NEW a, SellSame(p, q), q.sellBox = p.sellBox, SellPriced(p, a)
  PROVE  SellPriced(q, a)
  BY DEF SellSame, SellPriced

LEMMA RepanelledFacts ==
  ASSUME NEW p, Shaped(p), NEW panel, NEW q, q = Repanelled(p, panel)
  PROVE  /\ Reprices(p, q) /\ SellSame(p, q)
         /\ q.panel = panel /\ Heard(q, {"quote"}) = {}
<1>1. PICK v : v = Voided(p, {"quote"})
  OBVIOUS
<1>2. /\ Reprices(p, v) /\ v.panel = p.panel /\ v.sellRoutes = p.sellRoutes
      /\ \A ks : Heard(v, ks) = {c \in Heard(p, ks) : c.kind \notin {"quote"}}
      /\ v.calls \subseteq p.calls
  BY <1>1, QuotesVoided DEF Quotes
<1>3. q = [v EXCEPT !.panel = panel]
  BY <1>1 DEF Repanelled
<1>4. /\ DOMAIN q = PageFields /\ q.panel = panel
      /\ \A x \in PageFields : x # "panel" => q[x] = v[x]
  BY <1>2, <1>3 DEF Reprices, Shaped, PageFields
<1>5. q.calls = v.calls /\ q.sellRoutes = v.sellRoutes
  BY <1>4 DEF PageFields
<1>6. Shaped(q) /\ Releasing(q) = Releasing(v) /\ \A ks : Heard(q, ks) = Heard(v, ks)
  BY <1>2, <1>4, <1>5 DEF Reprices, Shaped, Releasing, Heard
<1>7. Reprices(v, q)
  BY <1>4, <1>5, <1>6 DEF Reprices
<1>8. Reprices(p, q)
  BY <1>2, <1>7, RepricesThen
<1>9. Heard(q, {"quote"}) = {} /\ Heard(q, {"sellquote"}) = Heard(p, {"sellquote"})
  BY <1>2, <1>6 DEF Heard
<1> QED
  BY <1>2, <1>4, <1>5, <1>8, <1>9 DEF SellSame

\* A new panel has the prices it was made with, or none.
LEMMA RepanelledPrices ==
  ASSUME NEW p, Shaped(p), NEW a, NEW panel, NEW q, q = Repanelled(p, panel),
         panel # None =>
           /\ a # None /\ Selected(p) # None /\ panel.asset = Selected(p)
           /\ DOMAIN panel = {"asset", "spend", "box", "routes"}
           /\ panel.routes # None =>
                /\ panel.routes.who = a /\ panel.routes.asset = Selected(p)
                /\ panel.routes.from = "status" /\ panel.box = panel.spend
  PROVE  BuyPriced(q, a)
<1>1. q.panel = panel /\ Heard(q, {"quote"}) = {} /\ Selected(q) = Selected(p)
  BY RepanelledFacts, RepricesFields
<1> QED
  BY <1>1 DEF BuyPriced, PanelFits, OfAsset

LEMMA RequotedFacts ==
  ASSUME NEW p, Shaped(p), NEW q, q = Requoted(p), NEW a
  PROVE  /\ Reprices(p, q) /\ SellSame(p, q)
         /\ PanelFits(p, a) /\ (p.panel = None => Heard(p, {"quote"}) = {}) => BuyPriced(q, a)
<1> DEFINE Fits == PanelFits(p, a) /\ (p.panel = None => Heard(p, {"quote"}) = {})
<1>1. PICK s : s = Selected(p)
  OBVIOUS
<1>2. PICK w : w = [p EXCEPT !.calls = {c \in @ : c.phase # "wait"}]
  OBVIOUS
<1>3. /\ Reprices(p, w) /\ w.panel = p.panel /\ w.sellRoutes = p.sellRoutes
      /\ \A ks : Heard(w, ks) \subseteq Heard(p, ks)
      /\ Heard(w, {"sellquote"}) = Heard(p, {"sellquote"})
  BY <1>2, WaitsDropped
<1>4. Shaped(w) /\ Selected(w) = s
  BY <1>1, <1>3, RepricesFields
<1>5. CASE p.panel = None \/ s = None
  <2>1. q = w
    BY <1>1, <1>2, <1>5 DEF Requoted
  <2>2. Fits => BuyPriced(w, a)
    BY <1>1, <1>3, <1>4, <1>5 DEF BuyPriced, PanelFits, OfAsset
  <2> QED
    BY <2>1, <2>2, <1>3 DEF SellSame
<1>6. CASE p.panel # None /\ s # None
  <2>1. Fits => /\ p.panel.asset = s /\ a # None
                /\ DOMAIN p.panel = {"asset", "spend", "box", "routes"}
    BY <1>1, <1>6 DEF PanelFits, OfAsset
  <2>2. PICK v : v = Voided(w, {"quote"})
    OBVIOUS
  <2>3. /\ Reprices(w, v) /\ v.panel = w.panel /\ v.sellRoutes = w.sellRoutes
        /\ \A ks : Heard(v, ks) = {c \in Heard(w, ks) : c.kind \notin {"quote"}}
    BY <1>4, <2>2, QuotesVoided DEF Quotes
  <2>4. PICK new : new = Call("quote", "wait", "none", None, [asset |-> s, amount |-> p.panel.box])
    OBVIOUS
  <2>5. /\ CallSound(new) /\ ~new.void /\ new.kind = "quote" /\ new.frees = "none"
        /\ new.phase = "wait" /\ new.what.asset = s /\ new.what.amount = p.panel.box
    BY <2>4, KindFacts DEF Call, CallSound, CallFields, Quotes
  <2>6. PICK draft : draft = [v.draft EXCEPT ![s] = p.panel.box]
    OBVIOUS
  <2>7. PICK panel : panel = [v.panel EXCEPT !.routes = None]
    OBVIOUS
  <2>8. Fits =>
          /\ panel.routes = None /\ panel.asset = s /\ panel.box = p.panel.box
          /\ DOMAIN panel = {"asset", "spend", "box", "routes"}
    BY <1>3, <2>1, <2>3, <2>7
  <2>9. PICK u : u = [v EXCEPT !.draft = draft, !.panel = panel]
    OBVIOUS
  <2>10. q = [u EXCEPT !.calls = @ \cup {new}]
    BY <1>1, <1>2, <1>6, <2>2, <2>4, <2>6, <2>7, <2>9 DEF Requoted, Plus
  <2>11. DOMAIN v = PageFields
    BY <2>3 DEF Reprices, Shaped
  <2>12. /\ DOMAIN u = PageFields /\ u.panel = panel
         /\ \A x \in PageFields : x \notin {"draft", "panel"} => u[x] = v[x]
    BY <2>9, <2>11 DEF PageFields
  <2>13. /\ DOMAIN q = PageFields /\ q.panel = panel /\ q.calls = v.calls \cup {new}
         /\ \A x \in PageFields : x \notin {"draft", "panel", "calls"} => q[x] = v[x]
    BY <2>10, <2>12 DEF PageFields
  <2>14. Shaped(q) /\ Releasing(q) = Releasing(v)
    BY <2>3, <2>5, <2>13 DEF Reprices, Shaped, Releasing
  <2>15. \A ks : Heard(q, ks) = Heard(v, ks) \cup (IF "quote" \in ks THEN {new} ELSE {})
    BY <2>5, <2>13 DEF Heard
  <2>16. Reprices(v, q)
    BY <2>5, <2>13, <2>14, <2>15 DEF Reprices, Quotes
  <2>17. Reprices(p, q)
    BY <1>3, <2>3, <2>16, RepricesThen
  <2>18. SellSame(p, q)
    <3>1. q.sellRoutes = v.sellRoutes
      BY <2>13 DEF PageFields
    <3>2. Heard(q, {"sellquote"}) = Heard(v, {"sellquote"})
      BY <2>15
    <3>3. Heard(v, {"sellquote"}) = Heard(w, {"sellquote"})
      BY <2>3 DEF Heard
    <3> QED
      BY <1>3, <2>3, <3>1, <3>2, <3>3 DEF SellSame
  <2>19. Heard(q, {"quote"}) = {new}
    BY <2>3, <2>15 DEF Heard
  <2>20. Selected(q) = s
    BY <1>1, <2>17, RepricesFields
  <2>21. Fits => BuyPriced(q, a)
    BY <1>6, <2>1, <2>5, <2>8, <2>13, <2>19, <2>20 DEF BuyPriced, PanelFits, OfAsset
  <2> QED
    BY <2>17, <2>18, <2>21
<1> QED
  BY <1>5, <1>6

LEMMA BuyCardFacts ==
  ASSUME NEW p, Shaped(p), NEW focused, NEW q, q = BuyCard(p, focused), NEW a
  PROVE  /\ Reprices(p, q) /\ SellSame(p, q)
         /\ BuyPriced(p, a) /\ (p.last # None => p.last.who = a /\ a # None) => BuyPriced(q, a)
<1> DEFINE Fits == BuyPriced(p, a) /\ (p.last # None => p.last.who = a /\ a # None)
<1>1. PICK s : s = Selected(p)
  OBVIOUS
<1>2. PICK new : new = PanelOf(p)
  OBVIOUS
<1>3. PICK v : v = Repanelled(p, new)
  OBVIOUS
<1>4. q \in {Repanelled(p, None)} \/ q = p \/ (Convertible(p) /\ q \in {v, Requoted(v)})
  BY <1>2, <1>3 DEF BuyCard
<1>5. CASE q = Repanelled(p, None)
  BY <1>5, RepanelledFacts, RepanelledPrices
<1>6. CASE q = p
  BY <1>6, RepricesSame DEF SellSame
<1>7. CASE Convertible(p) /\ q \in {v, Requoted(v)}
  <2>1. p.last # None /\ s # None
    BY <1>1, <1>7 DEF Convertible
  <2>2. /\ new.asset = s /\ DOMAIN new = {"asset", "spend", "box", "routes"}
        /\ new.routes # None =>
             /\ new.routes.who = p.last.who /\ new.routes.asset = s
             /\ new.routes.from = "status" /\ new.box = new.spend
    BY <1>1, <1>2 DEF PanelOf, Price
  <2>3. Fits => BuyPriced(v, a)
    BY <1>1, <1>3, <2>1, <2>2, RepanelledPrices
  <2>4. Reprices(p, v) /\ SellSame(p, v) /\ Heard(v, {"quote"}) = {} /\ Shaped(v)
    BY <1>3, RepanelledFacts, RepricesFields
  <2>5. CASE q = v
    BY <2>3, <2>4, <2>5
  <2>6. CASE q = Requoted(v)
    <3>1. Reprices(v, q) /\ SellSame(v, q)
      BY <2>4, <2>6, RequotedFacts
    <3>2. PanelFits(v, a) => BuyPriced(q, a)
      BY <2>4, <2>6, RequotedFacts
    <3> QED
      BY <2>3, <2>4, <3>1, <3>2, RepricesThen DEF SellSame, BuyPriced
  <2> QED
    BY <1>7, <2>5, <2>6
<1> QED
  BY <1>4, <1>5, <1>6, <1>7

LEMMA SellCardFacts ==
  ASSUME NEW p, Shaped(p), NEW q, q = SellCard(p), NEW a
  PROVE  /\ Reprices(p, q)
         /\ BuyPriced(p, a) => BuyPriced(q, a)
         /\ SellPriced(p, a) => SellPriced(q, a)
<1>1. CASE q = p
  BY <1>1, RepricesSame
<1>2. CASE q = [Voided(p, {"sellquote"}) EXCEPT !.sellRoutes = None]
  <2>1. PICK v : v = Voided(p, {"sellquote"})
    OBVIOUS
  <2>2. /\ Reprices(p, v) /\ v.panel = p.panel
        /\ \A ks : Heard(v, ks) = {c \in Heard(p, ks) : c.kind \notin {"sellquote"}}
    BY <2>1, QuotesVoided DEF Quotes
  <2>3. /\ DOMAIN q = PageFields /\ q.sellRoutes = None
        /\ \A x \in PageFields : x # "sellRoutes" => q[x] = v[x]
    BY <1>2, <2>1, <2>2 DEF Reprices, Shaped, PageFields
  <2>4. q.calls = v.calls /\ q.panel = v.panel
    BY <2>3 DEF PageFields
  <2>5. Shaped(q) /\ Releasing(q) = Releasing(v) /\ \A ks : Heard(q, ks) = Heard(v, ks)
    BY <2>2, <2>3, <2>4 DEF Reprices, Shaped, Releasing, Heard
  <2>6. Reprices(p, q)
    <3>1. Reprices(v, q)
      BY <2>3, <2>4, <2>5 DEF Reprices
    <3> QED
      BY <2>2, <3>1, RepricesThen
  <2>7. Selected(q) = Selected(p) /\ q.panel = p.panel
    BY <2>2, <2>4, <2>6, RepricesFields
  <2>8. Heard(q, {"quote"}) = Heard(p, {"quote"}) /\ Heard(q, {"sellquote"}) = {}
    BY <2>2, <2>5 DEF Heard
  <2>9. BuyPriced(p, a) => BuyPriced(q, a)
    BY <2>7, <2>8 DEF BuyPriced, PanelFits, OfAsset
  <2>10. SellPriced(q, a)
    BY <2>3, <2>8 DEF SellPriced
  <2> QED
    BY <2>6, <2>9, <2>10
<1> QED
  BY <1>1, <1>2 DEF SellCard

\* Both cards: what is priced is priced for the wallet and the box, and nothing else changes.
LEMMA RenderedFacts ==
  ASSUME NEW p, Shaped(p), NEW focused, NEW q, q = Rendered(p, focused), NEW a
  PROVE  /\ Reprices(p, q)
         /\ /\ BuyPriced(p, a) /\ SellPriced(p, a)
            /\ p.last # None => p.last.who = a /\ a # None
            => BuyPriced(q, a) /\ SellPriced(q, a)
<1>1. PICK b : b = BuyCard(p, focused)
  OBVIOUS
<1>2. /\ Reprices(p, b) /\ SellSame(p, b)
      /\ BuyPriced(p, a) /\ (p.last # None => p.last.who = a /\ a # None) => BuyPriced(b, a)
  BY <1>1, BuyCardFacts
<1>3. Shaped(b) /\ b.sellBox = p.sellBox
  BY <1>2, RepricesFields
<1>4. SellPriced(p, a) => SellPriced(b, a)
  BY <1>2, <1>3, SellStays
<1>5. /\ Reprices(b, q) /\ (BuyPriced(b, a) => BuyPriced(q, a))
      /\ (SellPriced(b, a) => SellPriced(q, a))
  BY <1>1, <1>3, SellCardFacts DEF Rendered
<1> QED
  BY <1>2, <1>4, <1>5, RepricesThen

-----------------------------------------------------------------------------
(* What keeps the page sound. *)

LEMMA SoundReprices ==
  ASSUME NEW p, NEW q, NEW a, NEW k, NEW j, NEW f, Sound(p, a, k, j, f), Reprices(p, q),
         ~LeaveAnyTime => BuyPriced(q, a) /\ SellPriced(q, a)
  PROVE  Sound(q, a, k, j, f) /\ (Awake(p, a) => Awake(q, a))
<1>1. Shaped(q) /\ Flags(q, f) /\ Reviews(q, a) /\ Forwards(q, k, j) /\ (Awake(p, a) => Awake(q, a))
  BY RepricesKeeps, RepricesFields DEF Sound
<1>2. BuyPriced(q, a) /\ Own(p, a) => Own(q, a)
  <2>1. ASSUME BuyPriced(q, a), a = None, \A c \in p.calls : c.void, NEW c \in q.calls
        PROVE  c.void
    <3>1. c.phase = "wait" => c.kind = "quote"
      BY <1>1 DEF Shaped, CallSound
    <3>2. c \notin Heard(q, {"quote"})
      BY <2>1 DEF BuyPriced, OfAsset
    <3> QED
      BY <2>1, <3>1, <3>2 DEF Reprices, Heard
  <2> QED
    BY <2>1, RepricesFields DEF Own
<1> QED
  BY <1>1, <1>2 DEF Sound, Priced

LEMMA SoundRendered ==
  ASSUME NEW p, NEW focused, NEW a, NEW k, NEW j, NEW f, Sound(p, a, k, j, f),
         NEW q, q = Rendered(p, focused)
  PROVE  Sound(q, a, k, j, f) /\ (Awake(p, a) => Awake(q, a)) /\ q.timer = p.timer
         /\ q.last = p.last
<1>1. Shaped(p) /\ (~LeaveAnyTime => BuyPriced(p, a) /\ SellPriced(p, a) /\ Own(p, a))
  BY DEF Sound, Priced
<1>2. Reprices(p, q) /\ (~LeaveAnyTime => BuyPriced(q, a) /\ SellPriced(q, a))
  BY <1>1, RenderedFacts DEF Own
<1> QED
  BY <1>2, SoundReprices, RepricesFields

LEMMA SoundRequoted ==
  ASSUME NEW p, NEW a, NEW k, NEW j, NEW f, Sound(p, a, k, j, f), NEW q, q = Requoted(p)
  PROVE  Sound(q, a, k, j, f) /\ (Awake(p, a) => Awake(q, a))
<1>1. Shaped(p) /\ (~LeaveAnyTime => BuyPriced(p, a) /\ SellPriced(p, a))
  BY DEF Sound, Priced
<1>2. Reprices(p, q) /\ SellSame(p, q)
  BY <1>1, RequotedFacts
<1>3. CASE p.panel = None => Heard(p, {"quote"}) = {}
  <2>1. ~LeaveAnyTime => BuyPriced(q, a)
    BY <1>1, <1>3, RequotedFacts DEF BuyPriced
  <2>2. ~LeaveAnyTime => SellPriced(q, a)
    BY <1>1, <1>2, SellStays, RepricesFields
  <2> QED
    BY <1>2, <2>1, <2>2, SoundReprices
<1>4. CASE p.panel = None
  <2>1. PICK w : w = [p EXCEPT !.calls = {c \in @ : c.phase # "wait"}]
    OBVIOUS
  <2>2. q = w
    BY <1>4, <2>1 DEF Requoted
  <2>3. /\ w.panel = p.panel /\ Heard(w, {"quote"}) \subseteq Heard(p, {"quote"})
        /\ Selected(w) = Selected(p)
    BY <1>1, <2>1, WaitsDropped, RepricesFields
  <2>4. ~LeaveAnyTime => BuyPriced(q, a)
    BY <1>1, <2>2, <2>3 DEF BuyPriced, PanelFits, OfAsset
  <2>5. ~LeaveAnyTime => SellPriced(q, a)
    BY <1>1, <1>2, SellStays, RepricesFields
  <2> QED
    BY <1>2, <2>4, <2>5, SoundReprices
<1> QED
  BY <1>3, <1>4

\* Only the card that is open changes; what is priced is the card's.
LEMMA SoundSelect ==
  ASSUME NEW p, NEW mode, NEW s, NEW a, NEW k, NEW j, NEW f, Sound(p, a, k, j, f),
         NEW q, q = SelectAsset(p, mode, s)
  PROVE  Sound(q, a, k, j, f) /\ (Awake(p, a) => Awake(q, a))
<1>1. PICK m : m = [p EXCEPT !.mode = mode, !.selected = s]
  OBVIOUS
<1>2. /\ DOMAIN m = PageFields /\ Shaped(p)
      /\ \A x \in PageFields : x \notin {"mode", "selected"} => m[x] = p[x]
  BY <1>1 DEF Sound, Shaped, PageFields
<1>3. /\ m.timer = p.timer /\ m.last = p.last /\ m.busy = p.busy /\ m.working = p.working
      /\ m.dialog = p.dialog /\ m.fields = p.fields /\ m.review = p.review
      /\ m.calls = p.calls /\ m.panel = p.panel /\ m.sellBox = p.sellBox
      /\ m.sellRoutes = p.sellRoutes
  BY <1>2 DEF PageFields
<1>4. Shaped(m) /\ Releasing(m) = Releasing(p) /\ \A ks : Heard(m, ks) = Heard(p, ks)
  BY <1>2, <1>3 DEF Shaped, Releasing, Heard
<1>5. Flags(m, f) /\ Reviews(m, a) /\ Forwards(m, k, j) /\ (Awake(p, a) => Awake(m, a))
  BY <1>3, <1>4, FlagsStay, ReviewsStay, ForwardsStay DEF Sound, Awake
<1>6. /\ SellPriced(p, a) => SellPriced(m, a)
      /\ Own(p, a) => Own(m, a)
  BY <1>3, <1>4 DEF SellPriced, Own
<1>7. PICK r : r = IF Selected(m) = Selected(p) THEN m
                   ELSE [Repanelled(m, None) EXCEPT !.calls = {c \in @ : c.phase # "wait"}]
  OBVIOUS
<1>8. Sound(r, a, k, j, f) /\ (Awake(p, a) => Awake(r, a))
  <2>1. CASE Selected(m) = Selected(p)
    <3>1. BuyPriced(p, a) => BuyPriced(m, a)
      BY <1>3, <1>4, <2>1 DEF BuyPriced, PanelFits, OfAsset
    <3> QED
      BY <1>4, <1>5, <1>6, <1>7, <2>1, <3>1 DEF Sound, Priced
  <2>2. CASE Selected(m) # Selected(p)
    <3>1. PICK v : v = Repanelled(m, None)
      OBVIOUS
    <3>2. /\ Reprices(m, v) /\ SellSame(m, v) /\ v.panel = None
          /\ Heard(v, {"quote"}) = {} /\ Shaped(v)
      BY <1>4, <3>1, RepanelledFacts, RepricesFields
    <3>3. r = [v EXCEPT !.calls = {c \in @ : c.phase # "wait"}]
      BY <1>7, <2>2, <3>1
    <3>4. /\ Reprices(v, r) /\ SellSame(v, r) /\ r.panel = None
          /\ Heard(r, {"quote"}) = {}
      BY <3>2, <3>3, WaitsDropped DEF SellSame
    <3>5. BuyPriced(r, a)
      BY <3>4 DEF BuyPriced, PanelFits
    <3>6. Reprices(m, r) /\ SellSame(m, r)
      BY <3>2, <3>4, RepricesThen DEF SellSame
    <3>7. ~LeaveAnyTime => SellPriced(r, a)
      BY <1>6, <3>6, SellStays, RepricesFields DEF Sound, Priced
    <3>8. /\ Shaped(r) /\ Flags(r, f) /\ Reviews(r, a) /\ Forwards(r, k, j)
          /\ (Awake(p, a) => Awake(r, a))
      BY <1>5, <3>6, RepricesKeeps, RepricesFields
    <3>9. ~LeaveAnyTime => Own(r, a)
      <4>1. \A c \in r.calls : c \in m.calls
        BY <3>2, <3>3, <1>4, <3>6 DEF Shaped, Reprices, PageFields
      <4> QED
        BY <1>6, <3>6, <4>1, RepricesFields DEF Own, Sound, Priced
    <3> QED
      BY <3>5, <3>7, <3>8, <3>9 DEF Sound, Priced
  <2> QED
    BY <2>1, <2>2
<1>9. q = r \/ q = Rendered(r, FALSE)
  BY <1>1, <1>7 DEF SelectAsset
<1> QED
  BY <1>8, <1>9, SoundRendered

\* Nothing is shown or awaited while nobody is signed in, so anyone may sign in.
LEMMA SoundForAnyone ==
  ASSUME NEW p, NEW a, NEW k, NEW j, NEW f, Sound(p, None, k, j, f)
  PROVE  Sound(p, a, k, j, f)
<1>1. Reviews(p, a)
  BY DEF Sound, Reviews
<1>2. ~LeaveAnyTime => BuyPriced(p, a) /\ SellPriced(p, a) /\ Own(p, a)
  BY DEF Sound, Priced, BuyPriced, PanelFits, OfAsset, SellPriced, Own
<1> QED
  BY <1>1, <1>2 DEF Sound, Priced

LEMMA FreedFacts ==
  ASSUME NEW p, DOMAIN p = PageFields, NEW flag, NEW q, q = Freed(p, flag)
  PROVE  /\ DOMAIN q = PageFields
         /\ \A x \in PageFields \ {"busy", "working"} : q[x] = p[x]
         /\ q.busy = (p.busy /\ flag # "busy") /\ q.working = (p.working /\ flag # "working")
         /\ q.timer = p.timer /\ q.last = p.last /\ q.mode = p.mode /\ q.selected = p.selected
         /\ q.panel = p.panel /\ q.sellBox = p.sellBox /\ q.sellRoutes = p.sellRoutes
         /\ q.dialog = p.dialog /\ q.fields = p.fields /\ q.review = p.review
         /\ q.calls = p.calls
  BY DEF Freed, PageFields

\* The poll is stopped: the status under way will not be heard.
LEMMA StoppedHeard ==
  ASSUME NEW p, Shaped(p), NEW q, q = Stopped(p), NEW ks
  PROVE  Heard(q, ks) = {c \in Heard(p, ks) : c.kind # "status"}
<1>1. PICK v : v = Voided(p, {"status"})
  OBVIOUS
<1>2. DOMAIN v = PageFields /\ Heard(v, ks) = {c \in Heard(p, ks) : c.kind \notin {"status"}}
  BY <1>1, VoidedFacts DEF Shaped
<1>3. q = [v EXCEPT !.timer = FALSE]
  BY <1>1 DEF Stopped
<1>4. q.calls = v.calls
  BY <1>2, <1>3 DEF PageFields
<1> QED
  BY <1>2, <1>4 DEF Heard

LEMMA StoppedFacts ==
  ASSUME NEW p, Shaped(p), NEW q, q = Stopped(p)
  PROVE  /\ Shaped(q) /\ Heard(q, {"status"}) = {}
         /\ \A f : Flags(p, f) => Flags(q, f)
         /\ q.last = p.last /\ q.mode = p.mode /\ q.selected = p.selected
         /\ q.panel = p.panel /\ q.sellBox = p.sellBox /\ q.sellRoutes = p.sellRoutes
         /\ q.dialog = p.dialog /\ q.fields = p.fields /\ q.review = p.review
         /\ q.busy = p.busy /\ q.working = p.working /\ q.timer = FALSE
<1>1. PICK v : v = Voided(p, {"status"})
  OBVIOUS
<1>2. /\ Shaped(v) /\ \A x \in PageFields : x # "calls" => v[x] = p[x]
      /\ \A ks : Heard(v, ks) = {c \in Heard(p, ks) : c.kind \notin {"status"}}
  BY <1>1, VoidedFacts
<1>3. q = [v EXCEPT !.timer = FALSE]
  BY <1>1 DEF Stopped
<1>4. /\ DOMAIN q = PageFields /\ q.timer = FALSE
      /\ \A x \in PageFields : x # "timer" => q[x] = v[x]
  BY <1>2, <1>3 DEF Shaped, PageFields
<1>5. /\ q.last = p.last /\ q.mode = p.mode /\ q.selected = p.selected
      /\ q.panel = p.panel /\ q.sellBox = p.sellBox /\ q.sellRoutes = p.sellRoutes
      /\ q.dialog = p.dialog /\ q.fields = p.fields /\ q.review = p.review
      /\ q.busy = p.busy /\ q.working = p.working /\ q.calls = v.calls
  BY <1>2, <1>4 DEF PageFields
<1>6. Shaped(q) /\ Releasing(q) = Releasing(v) /\ \A ks : Heard(q, ks) = Heard(v, ks)
  BY <1>2, <1>4, <1>5 DEF Shaped, Releasing, Heard
<1>7. Heard(q, {"status"}) = {}
  BY <1>2, <1>6 DEF Heard
<1>8. \A f : Flags(p, f) => Flags(q, f)
  BY <1>1, <1>5, <1>6, VoidedFlags
<1> QED
  BY <1>4, <1>5, <1>6, <1>7, <1>8

LEMMA RefreshingFacts ==
  ASSUME NEW p, NEW a, NEW k, NEW j, NEW flag, Sound(p, a, k, j, flag),
         NEW who \in Accounts, a # None \/ LeaveAnyTime,
         NEW q, q = Refreshing(p, who, flag)
  PROVE  /\ Sound(q, a, who, j, "none")
         /\ a = who => Awake(q, a)
<1>1. PICK st : st = Stopped(p)
  OBVIOUS
<1>2. /\ Shaped(st) /\ Heard(st, {"status"}) = {}
      /\ \A ks : Heard(st, ks) = {c \in Heard(p, ks) : c.kind # "status"}
      /\ Flags(st, flag)
      /\ st.last = p.last /\ st.mode = p.mode /\ st.selected = p.selected
      /\ st.panel = p.panel /\ st.sellBox = p.sellBox /\ st.sellRoutes = p.sellRoutes
      /\ st.dialog = p.dialog /\ st.fields = p.fields /\ st.review = p.review
      /\ st.busy = p.busy /\ st.working = p.working
  <2>1. Shaped(p) /\ Flags(p, flag)
    BY DEF Sound
  <2>2. st = Stopped(p)
    BY <1>1
  <2>3. Shaped(st) /\ Heard(st, {"status"}) = {}
    BY <2>1, <2>2, StoppedFacts
  <2>4. \A ks : Heard(st, ks) = {c \in Heard(p, ks) : c.kind # "status"}
    BY <2>1, <2>2, StoppedHeard
  <2>5. Flags(st, flag)
    BY <2>1, <2>2, StoppedFacts
  <2>6. /\ st.last = p.last /\ st.mode = p.mode /\ st.selected = p.selected
        /\ st.panel = p.panel /\ st.sellBox = p.sellBox /\ st.sellRoutes = p.sellRoutes
        /\ st.dialog = p.dialog /\ st.fields = p.fields /\ st.review = p.review
    BY <2>1, <2>2, StoppedFacts
  <2>7. st.busy = p.busy /\ st.working = p.working
    BY <2>1, <2>2, StoppedFacts
  <2> QED
    BY <2>3, <2>5, <2>6, <2>7, <2>4
<1>3. Reviews(st, a)
  BY <1>2, ReviewsStay DEF Sound
<1>4. ~LeaveAnyTime => Priced(st, a)
  BY <1>2, PricedStays DEF Sound
<1>5. Forwards(st, who, j)
  BY <1>2 DEF Sound, Forwards
<1>6. CASE who = None
  <2>1. q = Freed(st, flag)
    BY <1>1, <1>6 DEF Refreshing
  <2>2. /\ DOMAIN q = PageFields
        /\ q.busy = (st.busy /\ flag # "busy") /\ q.working = (st.working /\ flag # "working")
        /\ q.timer = st.timer /\ q.last = st.last /\ q.mode = st.mode /\ q.selected = st.selected
        /\ q.panel = st.panel /\ q.sellBox = st.sellBox /\ q.sellRoutes = st.sellRoutes
        /\ q.dialog = st.dialog /\ q.fields = st.fields /\ q.review = st.review
        /\ q.calls = st.calls
    BY <1>2, <2>1, FreedFacts DEF Shaped
  <2>3. Shaped(q) /\ \A ks : Heard(q, ks) = Heard(st, ks)
    BY <1>2, <2>2 DEF Shaped, Heard
  <2>4. Flags(q, "none")
    <3>1. Flags(st, flag)
      BY <1>2
    <3> QED
      BY <2>2, <3>1 DEF Flags
  <2>5. Reviews(q, a) /\ Forwards(q, who, j)
    BY <1>3, <1>5, <2>2, <2>3, ReviewsStay, ForwardsStay
  <2>6. ~LeaveAnyTime => Priced(q, a)
    BY <1>4, <2>2, <2>3, PricedStays
  <2> QED
    BY <1>6, <2>3, <2>4, <2>5, <2>6 DEF Sound, Awake
<1>7. CASE who # None
  <2>1. PICK new : new = Call("status", "ask", flag, who, None)
    OBVIOUS
  <2>2. CallSound(new) /\ ~new.void /\ new.kind = "status" /\ new.phase = "ask"
        /\ new.who = who /\ new.frees = flag
    BY <2>1, KindFacts DEF Call, CallSound, CallFields, Quotes
  <2>3. q = [st EXCEPT !.calls = @ \cup {new}]
    BY <1>1, <1>7, <2>1 DEF Refreshing, Plus
  <2>4. /\ DOMAIN q = PageFields /\ q.calls = st.calls \cup {new}
        /\ \A x \in PageFields : x # "calls" => q[x] = st[x]
    BY <1>2, <2>3 DEF Shaped, PageFields
  <2>5. /\ q.busy = st.busy /\ q.working = st.working
        /\ q.timer = st.timer /\ q.last = st.last /\ q.mode = st.mode /\ q.selected = st.selected
        /\ q.panel = st.panel /\ q.sellBox = st.sellBox /\ q.sellRoutes = st.sellRoutes
        /\ q.dialog = st.dialog /\ q.fields = st.fields /\ q.review = st.review
    BY <2>4 DEF PageFields
  <2>6. /\ Shaped(q)
        /\ \A ks : Heard(q, ks) = Heard(st, ks) \cup (IF "status" \in ks THEN {new} ELSE {})
    BY <1>2, <2>2, <2>4 DEF Shaped, Heard
  <2>7. Flags(q, "none")
    BY <1>2, <2>2, <2>4, <2>5 DEF Flags
  <2>8. Reviews(q, a)
    BY <1>3, <2>5, <2>6, ReviewsStay
  <2>9. Heard(q, {"status"}) = {new}
    BY <1>2, <2>6
  <2>10. Forwards(q, who, j)
    BY <1>5, <2>2, <2>5, <2>9 DEF Forwards
  <2>11. ~LeaveAnyTime => Priced(q, a)
    BY <1>4, <2>5, <2>6, PricedStays
  <2>12. Awake(q, a)
    BY <2>2, <2>4 DEF Awake
  <2> QED
    BY <2>6, <2>7, <2>8, <2>10, <2>11, <2>12 DEF Sound
<1> QED
  BY <1>6, <1>7

\* A call has ended, and its flag is still to be released.
LEMMA DoneFacts ==
  ASSUME NEW p, DOMAIN p = PageFields, NEW c, NEW q, q = Done(p, c)
  PROVE  /\ DOMAIN q = PageFields /\ q.calls = p.calls \ {c}
         /\ \A x \in PageFields : x # "calls" => q[x] = p[x]
         /\ q.timer = p.timer /\ q.last = p.last /\ q.mode = p.mode /\ q.selected = p.selected
         /\ q.panel = p.panel /\ q.sellBox = p.sellBox /\ q.sellRoutes = p.sellRoutes
         /\ q.dialog = p.dialog /\ q.fields = p.fields /\ q.review = p.review
         /\ q.busy = p.busy /\ q.working = p.working
  BY DEF Done, PageFields

LEMMA DoneSound ==
  ASSUME NEW p, NEW a, NEW k, NEW j, Sound(p, a, k, j, "none"), NEW c \in p.calls,
         NEW q, q = Done(p, c)
  PROVE  /\ Sound(q, a, k, j, c.frees)
         /\ (c.void \/ c.kind # "status") /\ Awake(p, a) => Awake(q, a)
<1>1. /\ DOMAIN q = PageFields /\ q.calls = p.calls \ {c}
      /\ q.timer = p.timer /\ q.last = p.last /\ q.mode = p.mode /\ q.selected = p.selected
      /\ q.panel = p.panel /\ q.sellBox = p.sellBox /\ q.sellRoutes = p.sellRoutes
      /\ q.dialog = p.dialog /\ q.fields = p.fields /\ q.review = p.review
      /\ q.busy = p.busy /\ q.working = p.working
  BY DoneFacts DEF Sound, Shaped
<1>2. Shaped(q) /\ \A ks : Heard(q, ks) \subseteq Heard(p, ks)
  BY <1>1 DEF Sound, Shaped, Heard
<1>3. Flags(q, c.frees)
  BY <1>1 DEF Sound, Flags
<1>4. Reviews(q, a) /\ Forwards(q, k, j)
  BY <1>1, <1>2, ReviewsStay, ForwardsStay DEF Sound
<1>5. ~LeaveAnyTime => Priced(q, a)
  <2>1. ~LeaveAnyTime => a # None \/ \A d \in q.calls : d.void
    BY <1>1 DEF Sound, Priced, Own
  <2> QED
    BY <1>1, <1>2, <2>1, PricedStays DEF Sound
<1>6. (c.void \/ c.kind # "status") /\ Awake(p, a) => Awake(q, a)
  BY <1>1 DEF Awake
<1> QED
  BY <1>2, <1>3, <1>4, <1>5, <1>6 DEF Sound

LEMMA FreedSound ==
  ASSUME NEW p, NEW a, NEW k, NEW j, NEW f, Sound(p, a, k, j, f), NEW q, q = Freed(p, f)
  PROVE  Sound(q, a, k, j, "none") /\ (Awake(p, a) => Awake(q, a))
<1>1. /\ DOMAIN q = PageFields
      /\ q.busy = (p.busy /\ f # "busy") /\ q.working = (p.working /\ f # "working")
      /\ q.timer = p.timer /\ q.last = p.last /\ q.mode = p.mode /\ q.selected = p.selected
      /\ q.panel = p.panel /\ q.sellBox = p.sellBox /\ q.sellRoutes = p.sellRoutes
      /\ q.dialog = p.dialog /\ q.fields = p.fields /\ q.review = p.review
      /\ q.calls = p.calls
  BY FreedFacts DEF Sound, Shaped
<1>2. Shaped(q) /\ \A ks : Heard(q, ks) \subseteq Heard(p, ks)
  BY <1>1 DEF Sound, Shaped, Heard
<1>3. Flags(q, "none")
  BY <1>1 DEF Sound, Flags
<1>4. Reviews(q, a) /\ Forwards(q, k, j)
  BY <1>1, <1>2, ReviewsStay, ForwardsStay DEF Sound
<1>5. ~LeaveAnyTime => Priced(q, a)
  <2>1. ~LeaveAnyTime => a # None \/ \A d \in q.calls : d.void
    BY <1>1 DEF Sound, Priced, Own
  <2> QED
    BY <1>1, <1>2, <2>1, PricedStays DEF Sound
<1>6. Awake(p, a) => Awake(q, a)
  BY <1>1 DEF Awake
<1> QED
  BY <1>2, <1>3, <1>4, <1>5, <1>6 DEF Sound

\* A call ends with nothing to show.
LEMMA ReleasedSound ==
  ASSUME NEW p, NEW a, NEW k, NEW j, Sound(p, a, k, j, "none"), NEW c \in p.calls,
         c.void \/ c.kind # "status", Awake(p, a)
  PROVE  LET q == Freed(Done(p, c), c.frees) IN Sound(q, a, k, j, "none") /\ Awake(q, a)
<1>1. PICK d : d = Done(p, c)
  OBVIOUS
<1>2. Sound(d, a, k, j, c.frees) /\ Awake(d, a)
  BY <1>1, DoneSound
<1> QED
  BY <1>1, <1>2, FreedSound

\* A status is shown: who it is of, and that the next one is due.
LEMMA ToldSound ==
  ASSUME NEW p, NEW a, NEW k, NEW j, Sound(p, a, k, j, "none"), NEW c \in p.calls,
         c.kind = "status", ~c.void, NEW st, NEW focused,
         st # None =>
           /\ st.who \in Accounts /\ st.n \in Nat /\ st.n <= j[st.who].n
           /\ ~LeaveAnyTime => st.who = k
           /\ DOMAIN st = {"who", "n", "at", "spend", "quoted", "live"},
         a # None => a = k,
         NEW q, q = Freed([Rendered([Done(p, c) EXCEPT !.last = st], focused)
                             EXCEPT !.timer = TRUE], c.frees)
  PROVE  Sound(q, a, k, j, "none") /\ Awake(q, a)
<1>1. PICK d : d = Done(p, c)
  OBVIOUS
<1>2. Sound(d, a, k, j, c.frees) /\ DOMAIN d = PageFields /\ d.calls = p.calls \ {c}
  BY <1>1, DoneSound, DoneFacts DEF Sound, Shaped
<1>3. PICK e : e = [d EXCEPT !.last = st]
  OBVIOUS
<1>4. /\ DOMAIN e = PageFields /\ e.calls = d.calls /\ e.last = st
      /\ e.timer = d.timer /\ e.mode = d.mode /\ e.selected = d.selected
      /\ e.panel = d.panel /\ e.sellBox = d.sellBox /\ e.sellRoutes = d.sellRoutes
      /\ e.dialog = d.dialog /\ e.fields = d.fields /\ e.review = d.review
      /\ e.busy = d.busy /\ e.working = d.working
  BY <1>2, <1>3 DEF PageFields
<1>5. /\ Shaped(e) /\ Releasing(e) = Releasing(d)
      /\ Heard(e, {"sell", "preview"}) = Heard(d, {"sell", "preview"})
      /\ Heard(e, {"quote"}) = Heard(d, {"quote"})
      /\ Heard(e, {"sellquote"}) = Heard(d, {"sellquote"})
  BY <1>2, <1>4 DEF Sound, Shaped, Releasing, Heard
<1>6. Flags(e, c.frees) /\ Reviews(e, a)
  BY <1>2, <1>4, <1>5, FlagsStay, ReviewsStay DEF Sound
<1>7. Heard(e, {"status"}) = {}
  BY <1>2, <1>4 DEF Sound, Forwards, Heard
<1>8. Forwards(e, k, j)
  BY <1>4, <1>7 DEF Forwards
<1>9. ~LeaveAnyTime => Priced(e, a) /\ a # None
  <2>1. ~LeaveAnyTime => a # None /\ BuyPriced(d, a) /\ SellPriced(d, a)
    BY <1>2 DEF Sound, Priced, Own
  <2>2. Selected(e) = Selected(d)
    BY <1>4 DEF Selected
  <2>3. BuyPriced(d, a) => BuyPriced(e, a)
    BY <1>4, <1>5, <2>2 DEF BuyPriced, PanelFits, OfAsset
  <2>4. SellPriced(d, a) => SellPriced(e, a)
    BY <1>4, <1>5 DEF SellPriced
  <2>5. ~LeaveAnyTime /\ a # None => Own(e, a)
    BY <1>4 DEF Own
  <2> QED
    BY <2>1, <2>3, <2>4, <2>5 DEF Priced
<1>10. Sound(e, a, k, j, c.frees)
  BY <1>5, <1>6, <1>8, <1>9 DEF Sound
<1>11. PICK r : r = Rendered(e, focused)
  OBVIOUS
<1>12. Sound(r, a, k, j, c.frees)
  BY <1>10, <1>11, SoundRendered
<1>13. PICK t : t = [r EXCEPT !.timer = TRUE]
  OBVIOUS
<1>14. /\ DOMAIN t = PageFields /\ t.calls = r.calls /\ t.last = r.last
      /\ t.timer = TRUE /\ t.mode = r.mode /\ t.selected = r.selected
      /\ t.panel = r.panel /\ t.sellBox = r.sellBox /\ t.sellRoutes = r.sellRoutes
      /\ t.dialog = r.dialog /\ t.fields = r.fields /\ t.review = r.review
      /\ t.busy = r.busy /\ t.working = r.working
  BY <1>12, <1>13 DEF Sound, Shaped, PageFields
<1>15. Shaped(t) /\ Releasing(t) = Releasing(r) /\ \A ks : Heard(t, ks) = Heard(r, ks)
  BY <1>12, <1>14 DEF Sound, Shaped, Releasing, Heard
<1>16. Sound(t, a, k, j, c.frees) /\ Awake(t, a)
  <2>1. Flags(t, c.frees) /\ Reviews(t, a) /\ Forwards(t, k, j)
    BY <1>12, <1>14, <1>15, FlagsStay, ReviewsStay, ForwardsStay DEF Sound
  <2>2. ~LeaveAnyTime => Priced(t, a)
    BY <1>9, <1>12, <1>14, <1>15, PricedStays DEF Sound
  <2>3. Awake(t, a)
    BY <1>14 DEF Awake
  <2> QED
    BY <1>15, <2>1, <2>2, <2>3 DEF Sound
<1>17. q = Freed(t, c.frees)
  BY <1>1, <1>3, <1>11, <1>13
<1> QED
  BY <1>16, <1>17, FreedSound

\* Signing out: what is left of the calls is heard by nobody.
LEMMA ForgottenSound ==
  ASSUME NEW p, NEW a, NEW k, NEW j, Sound(p, a, k, j, "none"),
         LeaveAnyTime \/ \A c \in p.calls : c.kind \notin OfNoSession,
         NEW q, q = Stopped(Forgotten(p))
  PROVE  Sound(q, None, k, j, "none") /\ Awake(q, None)
<1>1. PICK v : v = Voided(p, OfSession)
  OBVIOUS
<1>2. /\ Shaped(v) /\ \A x \in PageFields : x # "calls" => v[x] = p[x]
      /\ \A ks : Heard(v, ks) = {c \in Heard(p, ks) : c.kind \notin OfSession}
  <2>1. Shaped(p)
    BY DEF Sound
  <2> QED
    BY <1>1, <2>1, VoidedFacts
<1>3. v.busy = p.busy /\ v.working = p.working
  BY <1>2 DEF PageFields
<1>4. Flags(v, "none")
  BY <1>1, <1>3, VoidedFlags DEF Sound
<1>5. PICK s : s = Stopped(v)
  OBVIOUS
<1>6. Shaped(s) /\ Heard(s, {"status"}) = {} /\ Flags(s, "none") /\ s.busy = v.busy
      /\ s.working = v.working
  BY <1>2, <1>4, <1>5, StoppedFacts
<1>7. \A ks : Heard(s, ks) = {c \in Heard(v, ks) : c.kind # "status"}
  BY <1>2, <1>5, StoppedHeard
<1>8. PICK w : w = Forgotten(p)
  OBVIOUS
<1>9. w = [Blank EXCEPT !.busy = p.busy, !.working = p.working,
                        !.calls = {c \in s.calls : c.phase # "wait"}]
  BY <1>1, <1>5, <1>8 DEF Forgotten
<1>10. /\ DOMAIN w = PageFields /\ w.busy = p.busy /\ w.working = p.working
       /\ w.calls = {c \in s.calls : c.phase # "wait"}
       /\ w.last = None /\ w.panel = None /\ w.sellRoutes = None /\ w.review = None
  BY <1>9 DEF Blank, PageFields
<1>11. Shaped(w) /\ \A ks : Heard(w, ks) \subseteq Heard(s, ks)
  BY <1>6, <1>10 DEF Shaped, Heard
<1>12. Flags(w, "none")
  <2>1. \A c \in s.calls : c.phase = "wait" => c.frees = "none"
    BY <1>6 DEF Shaped, CallSound
  <2>2. Releasing(w) = Releasing(s)
    BY <1>10, <2>1 DEF Releasing
  <2> QED
    BY <1>3, <1>6, <1>10, <2>2, FlagsStay
<1>13. /\ Shaped(q) /\ Heard(q, {"status"}) = {} /\ Flags(q, "none")
       /\ q.last = None /\ q.panel = None /\ q.sellRoutes = None /\ q.review = None
       /\ q.timer = FALSE
  BY <1>8, <1>10, <1>11, <1>12, StoppedFacts
<1>14. \A ks : Heard(q, ks) \subseteq {c \in Heard(p, ks) : c.kind \notin OfSession \cup {"status"}}
  <2> SUFFICES ASSUME NEW ks, NEW c \in Heard(q, ks)
               PROVE  c \in Heard(p, ks) /\ c.kind \notin OfSession \cup {"status"}
    OBVIOUS
  <2>1. Heard(q, ks) = {d \in Heard(w, ks) : d.kind # "status"}
    BY <1>8, <1>11, StoppedHeard
  <2>2. c \in Heard(s, ks)
    BY <1>11, <2>1
  <2>3. c \in Heard(v, ks) /\ c.kind # "status"
    BY <1>7, <2>2
  <2>4. c \in Heard(p, ks) /\ c.kind \notin OfSession
    BY <1>2, <2>3
  <2> QED
    BY <2>3, <2>4
<1>15. Heard(q, {"sell", "preview"}) = {} /\ Heard(q, {"preview"}) = {}
       /\ Heard(q, {"quote"}) = {} /\ Heard(q, {"sellquote"}) = {}
  BY <1>14, KindFacts DEF Heard, Quotes
<1>16. ~LeaveAnyTime => \A c \in q.calls : c.void
  <2> SUFFICES ASSUME ~LeaveAnyTime, NEW c \in q.calls, ~c.void PROVE FALSE
    OBVIOUS
  <2>1. c \in Heard(q, Kinds)
    BY <1>13 DEF Heard, Shaped, CallSound
  <2>2. c \in Heard(p, Kinds) /\ c.kind \notin OfSession \cup {"status"}
    BY <1>14, <2>1
  <2> QED
    BY <2>2, KindFacts DEF Heard, Kinds
<1>17. Reviews(q, None) /\ Forwards(q, k, j) /\ Awake(q, None)
  BY <1>13, <1>15 DEF Reviews, Forwards, Awake
<1>18. ~LeaveAnyTime => Priced(q, None)
  BY <1>13, <1>15, <1>16 DEF Priced, BuyPriced, PanelFits, SellPriced, Own
<1> QED
  BY <1>13, <1>17, <1>18 DEF Sound

\* A new call: its flag is set with it.
LEMMA AddSound ==
  ASSUME NEW p, NEW a, NEW j, Sound(p, a, a, j, "none"), Awake(p, a), a # None, a \in Accounts,
         NEW kind \in Kinds \ {"status", "quote"}, NEW phase, phase # "wait", NEW frees, NEW what,
         kind = "sellquote" => frees = "none" /\ what.amount = p.sellBox,
         kind \in {"sell", "preview"} => frees = "working",
         kind = "preview" => p.dialog \in {None, "withdraw"},
         NEW q, DOMAIN q = PageFields,
         q.calls = p.calls \cup {Call(kind, phase, frees, a, what)},
         \A x \in PageFields \ {"calls", "busy", "working"} : q[x] = p[x],
         \/ frees = "busy" /\ q.busy = TRUE /\ q.working = p.working
         \/ frees = "working" /\ q.working = TRUE /\ ~p.working /\ q.busy = p.busy
         \/ frees = "none" /\ q.busy = p.busy /\ q.working = p.working
  PROVE  Sound(q, a, a, j, "none") /\ Awake(q, a)
<1>1. PICK new : new = Call(kind, phase, frees, a, what)
  OBVIOUS
<1>2. /\ CallSound(new) /\ ~new.void /\ new.kind = kind /\ new.frees = frees
      /\ new.who = a /\ new.what = what
  BY <1>1, KindFacts DEF Call, CallSound, CallFields, Quotes
<1>3. /\ q.timer = p.timer /\ q.last = p.last /\ q.mode = p.mode /\ q.selected = p.selected
      /\ q.panel = p.panel /\ q.sellBox = p.sellBox /\ q.sellRoutes = p.sellRoutes
      /\ q.dialog = p.dialog /\ q.fields = p.fields /\ q.review = p.review
      /\ q.calls = p.calls \cup {new}
  BY <1>1 DEF PageFields
<1>4. Shaped(q) /\ \A ks : Heard(q, ks) \subseteq Heard(p, ks) \cup {new}
  BY <1>2, <1>3 DEF Sound, Shaped, Heard
<1>5. Flags(q, "none")
  BY <1>2, <1>3 DEF Sound, Flags
<1>6. Reviews(q, a)
  BY <1>2, <1>3, <1>4 DEF Sound, Reviews, Heard
<1>7. Forwards(q, a, j)
  <2>1. Heard(q, {"status"}) \subseteq Heard(p, {"status"})
    BY <1>2, <1>3 DEF Heard
  <2> QED
    BY <1>3, <2>1, ForwardsStay DEF Sound
<1>8. ~LeaveAnyTime => Priced(q, a)
  <2>1. Selected(q) = Selected(p)
    BY <1>3 DEF Selected
  <2>2. Heard(q, {"quote"}) \subseteq Heard(p, {"quote"})
    BY <1>2, <1>3 DEF Heard
  <2>3. BuyPriced(p, a) => BuyPriced(q, a)
    BY <1>3, <2>1, <2>2 DEF BuyPriced, PanelFits, OfAsset
  <2>4. Heard(q, {"sellquote"}) \subseteq Heard(p, {"sellquote"})
                                 \cup (IF kind = "sellquote" THEN {new} ELSE {})
    BY <1>2, <1>3 DEF Heard
  <2>5. SellPriced(p, a) => SellPriced(q, a)
    BY <1>2, <1>3, <2>4 DEF SellPriced
  <2>6. Own(p, a) => Own(q, a)
    BY <1>3 DEF Own
  <2> QED
    BY <2>3, <2>5, <2>6 DEF Sound, Priced
<1>9. Awake(q, a)
  BY <1>3 DEF Awake
<1> QED
  BY <1>4, <1>5, <1>6, <1>7, <1>8, <1>9 DEF Sound

\* A call that goes on: its answer is awaited elsewhere, and it frees what it freed.
LEMMA TurnedSound ==
  ASSUME NEW p, NEW a, NEW k, NEW j, Sound(p, a, k, j, "none"), Awake(p, a), NEW c \in p.calls,
         c.kind # "status", NEW d, CallSound(d), d.kind = c.kind, d.void = c.void,
         d.frees = c.frees, d.phase # "wait",
         \/ d.who = c.who /\ c.phase # "wait"
         \/ c.kind = "quote" /\ (a # None => d.who = a),
         d.what = c.what \/ c.kind \notin Quotes,
         NEW q, q = Plus(Done(p, c), d)
  PROVE  Sound(q, a, k, j, "none") /\ Awake(q, a)
<1>1. PICK r : r = Done(p, c)
  OBVIOUS
<1>2. /\ DOMAIN r = PageFields /\ r.calls = p.calls \ {c}
      /\ \A x \in PageFields : x # "calls" => r[x] = p[x]
  BY <1>1, DoneFacts DEF Sound, Shaped
<1>3. q = [r EXCEPT !.calls = @ \cup {d}]
  BY <1>1 DEF Plus
<1>4. /\ DOMAIN q = PageFields /\ q.calls = (p.calls \ {c}) \cup {d}
      /\ \A x \in PageFields : x # "calls" => q[x] = p[x]
  BY <1>2, <1>3 DEF PageFields
<1>5. /\ q.timer = p.timer /\ q.last = p.last /\ q.mode = p.mode /\ q.selected = p.selected
      /\ q.panel = p.panel /\ q.sellBox = p.sellBox /\ q.sellRoutes = p.sellRoutes
      /\ q.dialog = p.dialog /\ q.fields = p.fields /\ q.review = p.review
      /\ q.busy = p.busy /\ q.working = p.working
  BY <1>4 DEF PageFields
<1>6. Shaped(q) /\ Heard(q, {"status"}) \subseteq Heard(p, {"status"})
  BY <1>4 DEF Sound, Shaped, Heard
<1>7. Flags(q, "none")
  BY <1>4, <1>5 DEF Sound, Flags
<1>8. \A e \in q.calls : e = d \/ e \in p.calls
  BY <1>4
<1>9. Reviews(q, a)
  <2>1. Reviews(p, a) /\ (c.phase = "wait" => c.kind = "quote")
    BY DEF Sound, Shaped, CallSound
  <2> QED
    BY <1>5, <1>8, <2>1 DEF Reviews, Heard
<1>10. Forwards(q, k, j)
  BY <1>5, <1>6, ForwardsStay DEF Sound
<1>11. ~LeaveAnyTime => Priced(q, a)
  <2>1. Selected(q) = Selected(p)
    BY <1>5 DEF Selected
  <2>2. BuyPriced(p, a) => BuyPriced(q, a)
    <3>1. BuyPriced(p, a) => \A e \in Heard(q, {"quote"}) :
             /\ OfAsset(p, a) /\ e.what.asset = Selected(p) /\ e.what.amount = p.panel.box
             /\ e.phase # "wait" => e.who = a
      BY <1>8 DEF BuyPriced, Heard, Quotes, OfAsset
    <3> QED
      BY <1>5, <2>1, <3>1 DEF BuyPriced, PanelFits, OfAsset
  <2>3. SellPriced(p, a) => SellPriced(q, a)
    <3>1. c.phase = "wait" => c.kind = "quote"
      BY DEF Sound, Shaped, CallSound
    <3> QED
      BY <1>5, <1>8, <3>1 DEF SellPriced, Heard, Quotes
  <2>4. Own(p, a) => Own(q, a)
    BY <1>5, <1>8 DEF Own
  <2> QED
    BY <2>2, <2>3, <2>4 DEF Sound, Priced
<1>12. Awake(q, a)
  BY <1>4, <1>5 DEF Awake
<1> QED
  BY <1>6, <1>7, <1>9, <1>10, <1>11, <1>12 DEF Sound

\* What a status says of the job is not older than what is on screen.
LEMMA ReadSound ==
  ASSUME NEW p, NEW a, NEW k, NEW j, Sound(p, a, k, j, "none"), NEW c \in p.calls,
         c.kind = "status", ~c.void, NEW d, CallSound(d), d.kind = c.kind, d.void = c.void,
         d.frees = c.frees, d.who = c.who, d.phase = "told", d.what.n = j[c.who].n,
         d.what.n \in Nat, NEW q, q = Plus(Done(p, c), d)
  PROVE  Sound(q, a, k, j, "none") /\ Awake(q, a)
<1>1. PICK r : r = Done(p, c)
  OBVIOUS
<1>2. /\ DOMAIN r = PageFields /\ r.calls = p.calls \ {c}
      /\ \A x \in PageFields : x # "calls" => r[x] = p[x]
  BY <1>1, DoneFacts DEF Sound, Shaped
<1>3. q = [r EXCEPT !.calls = @ \cup {d}]
  BY <1>1 DEF Plus
<1>4. /\ DOMAIN q = PageFields /\ q.calls = (p.calls \ {c}) \cup {d}
      /\ \A x \in PageFields : x # "calls" => q[x] = p[x]
  BY <1>2, <1>3 DEF PageFields
<1>5. /\ q.timer = p.timer /\ q.last = p.last /\ q.mode = p.mode /\ q.selected = p.selected
      /\ q.panel = p.panel /\ q.sellBox = p.sellBox /\ q.sellRoutes = p.sellRoutes
      /\ q.dialog = p.dialog /\ q.fields = p.fields /\ q.review = p.review
      /\ q.busy = p.busy /\ q.working = p.working
  BY <1>4 DEF PageFields
<1>6. /\ Shaped(q) /\ Heard(q, {"status"}) = (Heard(p, {"status"}) \ {c}) \cup {d}
      /\ Heard(q, {"quote"}) \subseteq Heard(p, {"quote"})
      /\ Heard(q, {"sellquote"}) \subseteq Heard(p, {"sellquote"})
      /\ Heard(q, {"sell", "preview"}) \subseteq Heard(p, {"sell", "preview"})
  BY <1>4 DEF Sound, Shaped, Heard
<1>7. Flags(q, "none")
  BY <1>4, <1>5 DEF Sound, Flags
<1>8. Reviews(q, a)
  BY <1>5, <1>6, ReviewsStay DEF Sound
<1>9. Forwards(q, k, j)
  <2>1. Forwards(p, k, j) /\ c \in Heard(p, {"status"})
    BY DEF Sound, Heard
  <2>2. Heard(q, {"status"}) = {d} /\ c.who = k
    BY <1>6, <2>1 DEF Forwards
  <2>3. d.what.n <= j[d.who].n
    OBVIOUS
  <2>4. p.last # None /\ p.last.who = d.who => p.last.n <= d.what.n
    BY <2>1 DEF Forwards
  <2> QED
    BY <1>5, <2>1, <2>2, <2>3, <2>4 DEF Forwards
<1>10. ~LeaveAnyTime => Priced(q, a)
  <2>1. ~LeaveAnyTime => a # None
    BY DEF Sound, Priced, Own
  <2> QED
    BY <1>5, <1>6, <2>1, PricedStays DEF Sound
<1>11. Awake(q, a)
  BY <1>4 DEF Awake
<1> QED
  BY <1>6, <1>7, <1>8, <1>9, <1>10, <1>11 DEF Sound

\* The dialog is opened, filled in, previewed or closed.
LEMMA DialogSound ==
  ASSUME NEW p, NEW a, NEW k, NEW j, NEW f, Sound(p, a, k, j, f), NEW q,
         DOMAIN q = PageFields,
         \A x \in PageFields \ {"dialog", "fields", "review"} : q[x] = p[x],
         Reviews(q, a)
  PROVE  Sound(q, a, k, j, f) /\ (Awake(p, a) => Awake(q, a))
<1>1. /\ q.timer = p.timer /\ q.last = p.last /\ q.mode = p.mode /\ q.selected = p.selected
      /\ q.panel = p.panel /\ q.sellBox = p.sellBox /\ q.sellRoutes = p.sellRoutes
      /\ q.busy = p.busy /\ q.working = p.working /\ q.calls = p.calls
  BY DEF PageFields
<1>2. Shaped(q) /\ Releasing(q) = Releasing(p) /\ \A ks : Heard(q, ks) = Heard(p, ks)
  BY <1>1 DEF Sound, Shaped, Releasing, Heard
<1>3. Flags(q, f) /\ Forwards(q, k, j)
  BY <1>1, <1>2, FlagsStay, ForwardsStay DEF Sound
<1>4. ~LeaveAnyTime => Priced(q, a)
  <2>1. ~LeaveAnyTime => a # None \/ \A c \in q.calls : c.void
    BY <1>1 DEF Sound, Priced, Own
  <2> QED
    BY <1>1, <1>2, <2>1, PricedStays DEF Sound
<1>5. Awake(p, a) => Awake(q, a)
  BY <1>1 DEF Awake
<1> QED
  BY <1>2, <1>3, <1>4, <1>5 DEF Sound

\* Another amount to sell.
Boxed(p, x) == [Voided(p, {"sellquote"}) EXCEPT !.sellBox = x, !.sellRoutes = None]

\* No quote for the amount before will be heard.
LEMMA SellBoxSound ==
  ASSUME NEW p, NEW a, NEW k, NEW j, NEW f, Sound(p, a, k, j, f), NEW x, NEW q,
         q = Boxed(p, x)
  PROVE  /\ Sound(q, a, k, j, f) /\ (Awake(p, a) => Awake(q, a))
         /\ q.sellBox = x /\ q.dialog = p.dialog /\ q.working = p.working
<1>1. PICK v : v = Voided(p, {"sellquote"})
  OBVIOUS
<1>2. /\ Reprices(p, v) /\ v.panel = p.panel /\ v.calls \subseteq p.calls
      /\ \A ks : Heard(v, ks) = {c \in Heard(p, ks) : c.kind \notin {"sellquote"}}
  BY <1>1, QuotesVoided DEF Sound, Quotes
<1>3. q = [v EXCEPT !.sellBox = x, !.sellRoutes = None]
  BY <1>1 DEF Boxed
<1>4. /\ DOMAIN q = PageFields /\ q.sellBox = x /\ q.sellRoutes = None
      /\ \A y \in PageFields \ {"sellBox", "sellRoutes"} : q[y] = v[y]
  BY <1>2, <1>3 DEF Reprices, Shaped, PageFields
<1>5. /\ q.timer = v.timer /\ q.last = v.last /\ q.mode = v.mode /\ q.selected = v.selected
      /\ q.panel = v.panel /\ q.dialog = v.dialog /\ q.fields = v.fields
      /\ q.review = v.review /\ q.busy = v.busy /\ q.working = v.working /\ q.calls = v.calls
  BY <1>4 DEF PageFields
<1>6. Shaped(q) /\ Releasing(q) = Releasing(v) /\ \A ks : Heard(q, ks) = Heard(v, ks)
  BY <1>2, <1>4, <1>5 DEF Reprices, Shaped, Releasing, Heard
<1>7. /\ Flags(v, f) /\ Reviews(v, a) /\ Forwards(v, k, j) /\ (Awake(p, a) => Awake(v, a))
  BY <1>2, RepricesKeeps DEF Sound
<1>8. Flags(q, f) /\ Reviews(q, a) /\ Forwards(q, k, j) /\ (Awake(p, a) => Awake(q, a))
  <2>1. Flags(q, f)
    BY <1>5, <1>6, <1>7, FlagsStay
  <2>2. Reviews(q, a)
    BY <1>5, <1>6, <1>7, ReviewsStay
  <2>3. Forwards(q, k, j)
    BY <1>5, <1>6, <1>7, ForwardsStay
  <2>4. Awake(p, a) => Awake(q, a)
    BY <1>5, <1>7 DEF Awake
  <2> QED
    BY <2>1, <2>2, <2>3, <2>4
<1>9. /\ q.panel = p.panel /\ q.timer = p.timer /\ q.last = p.last
      /\ q.dialog = p.dialog /\ q.working = p.working /\ Selected(q) = Selected(p)
  BY <1>2, <1>5, RepricesFields DEF Selected
<1>10. ~LeaveAnyTime => Priced(q, a)
  <2>1. Heard(q, {"sellquote"}) = {} /\ Heard(q, {"quote"}) \subseteq Heard(p, {"quote"})
    BY <1>2, <1>6 DEF Heard
  <2>2. BuyPriced(p, a) => BuyPriced(q, a)
    BY <1>9, <2>1 DEF BuyPriced, PanelFits, OfAsset
  <2>3. SellPriced(q, a)
    BY <1>4, <2>1 DEF SellPriced
  <2>4. Own(p, a) => Own(q, a)
    BY <1>2, <1>5, <1>9 DEF Own
  <2> QED
    BY <2>2, <2>3, <2>4 DEF Sound, Priced
<1> QED
  BY <1>4, <1>6, <1>8, <1>9, <1>10 DEF Sound

\* The three ways a call of the person starts.
LEMMA StartedSound ==
  ASSUME NEW p, NEW a, NEW j, Sound(p, a, a, j, "none"), Awake(p, a), a # None, a \in Accounts,
         a = cred, NEW kind \in Kinds \ {"status", "quote"}, NEW phase, phase # "wait", NEW what
  PROVE  /\ p = page /\ kind \notin {"sellquote", "sell", "preview"} =>
              LET q == Busy(kind, phase, what) IN Sound(q, a, a, j, "none") /\ Awake(q, a)
         /\ ~p.working /\ kind # "sellquote"
            /\ (kind = "preview" => p.dialog \in {None, "withdraw"}) =>
              LET q == Working(p, kind, phase, what) IN Sound(q, a, a, j, "none") /\ Awake(q, a)
         /\ kind \notin {"sell", "preview"} /\ (kind = "sellquote" => what.amount = p.sellBox) =>
              LET q == Free(p, kind, phase, what) IN Sound(q, a, a, j, "none") /\ Awake(q, a)
<1>1. Shaped(p)
  BY DEF Sound
<1>2. ASSUME p = page, kind \notin {"sellquote", "sell", "preview"}
      PROVE  LET q == Busy(kind, phase, what) IN Sound(q, a, a, j, "none") /\ Awake(q, a)
  <2>1. PICK b : b = [p EXCEPT !.busy = TRUE]
    OBVIOUS
  <2>2. PICK q : q = Busy(kind, phase, what)
    OBVIOUS
  <2>3. q = [b EXCEPT !.calls = @ \cup {Call(kind, phase, "busy", a, what)}]
    BY <1>2, <2>1, <2>2 DEF Busy, Plus
  <2>4. DOMAIN b = PageFields /\ b.busy = TRUE /\ \A x \in PageFields \ {"busy"} : b[x] = p[x]
    BY <1>1, <2>1 DEF Shaped, PageFields
  <2>5. /\ DOMAIN q = PageFields /\ q.calls = b.calls \cup {Call(kind, phase, "busy", a, what)}
        /\ \A x \in PageFields \ {"calls"} : q[x] = b[x]
    BY <2>3, <2>4 DEF PageFields
  <2>6. /\ q.calls = p.calls \cup {Call(kind, phase, "busy", a, what)}
        /\ q.busy = TRUE /\ q.working = p.working
        /\ \A x \in PageFields \ {"calls", "busy", "working"} : q[x] = p[x]
    BY <2>4, <2>5 DEF PageFields
  <2>7. Sound(q, a, a, j, "none") /\ Awake(q, a)
    <3>1. kind # "sellquote" /\ kind # "sell" /\ kind # "preview"
      BY <1>2
    <3> QED
      BY <2>5, <2>6, <3>1, AddSound
  <2> QED
    BY <2>2, <2>7
<1>3. ASSUME ~p.working, kind # "sellquote", kind = "preview" => p.dialog \in {None, "withdraw"}
      PROVE  LET q == Working(p, kind, phase, what) IN Sound(q, a, a, j, "none") /\ Awake(q, a)
  <2>1. PICK b : b = [p EXCEPT !.working = TRUE]
    OBVIOUS
  <2>2. PICK q : q = Working(p, kind, phase, what)
    OBVIOUS
  <2>3. q = [b EXCEPT !.calls = @ \cup {Call(kind, phase, "working", a, what)}]
    BY <2>1, <2>2 DEF Working, Plus
  <2>4. DOMAIN b = PageFields /\ b.working = TRUE /\ \A x \in PageFields \ {"working"} : b[x] = p[x]
    BY <1>1, <2>1 DEF Shaped, PageFields
  <2>5. /\ DOMAIN q = PageFields /\ q.calls = b.calls \cup {Call(kind, phase, "working", a, what)}
        /\ \A x \in PageFields \ {"calls"} : q[x] = b[x]
    BY <2>3, <2>4 DEF PageFields
  <2>6. /\ q.calls = p.calls \cup {Call(kind, phase, "working", a, what)}
        /\ q.working = TRUE /\ q.busy = p.busy
        /\ \A x \in PageFields \ {"calls", "busy", "working"} : q[x] = p[x]
    BY <2>4, <2>5 DEF PageFields
  <2>7. Sound(q, a, a, j, "none") /\ Awake(q, a)
    <3>1. kind \in Kinds \ {"status", "quote"} /\ kind # "sellquote"
      BY <1>3
    <3>2. kind = "preview" => p.dialog \in {None, "withdraw"}
      BY <1>3
    <3>3. PICK frees : frees = "working"
      OBVIOUS
    <3>4. q.calls = p.calls \cup {Call(kind, phase, frees, a, what)} /\ DOMAIN q = PageFields
      BY <2>5, <2>6, <3>3
    <3>5. \A x \in PageFields \ {"calls", "busy", "working"} : q[x] = p[x]
      BY <2>6
    <3>6. frees = "working" /\ q.working = TRUE /\ ~p.working /\ q.busy = p.busy
      BY <1>3, <2>6, <3>3
    <3>7. kind = "sellquote" => frees = "none" /\ what.amount = p.sellBox
      BY <3>1
    <3>8. kind \in {"sell", "preview"} => frees = "working"
      BY <3>6
    <3>9. \/ frees = "busy" /\ q.busy = TRUE /\ q.working = p.working
          \/ frees = "working" /\ q.working = TRUE /\ ~p.working /\ q.busy = p.busy
          \/ frees = "none" /\ q.busy = p.busy /\ q.working = p.working
      BY <3>6
    <3> QED
      BY <3>1, <3>2, <3>4, <3>5, <3>7, <3>8, <3>9, AddSound, ZenonT(60)
  <2> QED
    BY <2>2, <2>7
<1>4. ASSUME kind \notin {"sell", "preview"}, kind = "sellquote" => what.amount = p.sellBox
      PROVE  LET q == Free(p, kind, phase, what) IN Sound(q, a, a, j, "none") /\ Awake(q, a)
  <2>1. PICK q : q = Free(p, kind, phase, what)
    OBVIOUS
  <2>2. q = [p EXCEPT !.calls = @ \cup {Call(kind, phase, "none", a, what)}]
    BY <2>1 DEF Free, Plus
  <2>3. /\ DOMAIN q = PageFields /\ q.calls = p.calls \cup {Call(kind, phase, "none", a, what)}
        /\ q.working = p.working /\ q.busy = p.busy
        /\ \A x \in PageFields \ {"calls", "busy", "working"} : q[x] = p[x]
    BY <1>1, <2>2 DEF Shaped, PageFields
  <2>4. Sound(q, a, a, j, "none") /\ Awake(q, a)
    BY <1>4, <2>3, AddSound
  <2> QED
    BY <2>1, <2>4
<1> QED
  BY <1>2, <1>3, <1>4

\* The box is typed in: what was priced for the old amount is hidden, and nobody hears
\* the quotes asked for it.
LEMMA TypedSound ==
  ASSUME NEW p, NEW a, NEW k, NEW j, NEW f, Sound(p, a, k, j, f), p.panel # None, NoPanel,
         NEW x, NEW q, q = Requoted([p EXCEPT !.panel.box = x])
  PROVE  Sound(q, a, k, j, f) /\ (Awake(p, a) => Awake(q, a))
<1>1. PICK panel : panel = [p.panel EXCEPT !.box = x]
  OBVIOUS
<1>2. PICK m : m = [p EXCEPT !.panel = panel]
  OBVIOUS
<1>3. Shaped(p) /\ q = Requoted(m)
  BY <1>1, <1>2 DEF Sound
<1>4. /\ DOMAIN m = PageFields /\ m.panel = panel
      /\ \A y \in PageFields \ {"panel"} : m[y] = p[y]
  BY <1>2, <1>3 DEF Shaped, PageFields
<1>5. m.calls = p.calls /\ m.sellRoutes = p.sellRoutes
  BY <1>4 DEF PageFields
<1>6. Shaped(m) /\ Releasing(m) = Releasing(p) /\ \A ks : Heard(m, ks) = Heard(p, ks)
  BY <1>3, <1>4, <1>5 DEF Shaped, Releasing, Heard
<1>7. Reprices(p, m) /\ SellSame(p, m)
  BY <1>4, <1>5, <1>6 DEF Reprices, SellSame
<1>8. Reprices(m, q) /\ SellSame(m, q)
  BY <1>3, <1>6, RequotedFacts
<1>9. Reprices(p, q) /\ SellSame(p, q)
  BY <1>7, <1>8, RepricesThen DEF SellSame
<1>10. ~LeaveAnyTime => BuyPriced(q, a)
  <2>1. ~LeaveAnyTime => OfAsset(p, a)
    BY DEF Sound, Priced, BuyPriced, PanelFits
  <2>2. ~LeaveAnyTime => panel # None /\ panel.asset = p.panel.asset
                         /\ DOMAIN panel = {"asset", "spend", "box", "routes"}
    BY <1>1, <2>1 DEF OfAsset, NoPanel
  <2>3. Selected(m) = Selected(p)
    BY <1>7, RepricesFields
  <2>4. ~LeaveAnyTime => PanelFits(m, a)
    BY <1>4, <2>1, <2>2, <2>3 DEF PanelFits, OfAsset
  <2>5. PanelFits(m, a) /\ m.panel # None => BuyPriced(q, a)
    BY <1>3, <1>6, RequotedFacts
  <2> QED
    BY <1>4, <2>2, <2>4, <2>5
<1>11. ~LeaveAnyTime => SellPriced(q, a)
  BY <1>9, SellStays, RepricesFields DEF Sound, Priced
<1> QED
  BY <1>9, <1>10, <1>11, SoundReprices

-----------------------------------------------------------------------------
(* Answers, and the moves of the server. *)

\* A price is shown for the box that asked for it.
LEMMA QuoteGranted ==
  ASSUME NEW a, NEW k, NEW j, Sound(page, a, k, j, "none"), Awake(page, a), NEW c \in page.calls,
         c.kind = "quote", Wanted(c, "ask"), NEW q, q = Granted(c)
  PROVE  Sound(q, a, k, j, "none") /\ Awake(q, a)
<1>1. PICK r : r = Done(page, c)
  OBVIOUS
<1>2. Sound(r, a, k, j, "none") /\ Awake(r, a)
  <2>1. c.frees = "none"
    BY DEF Sound, Shaped, CallSound
  <2> QED
    BY <1>1, <2>1, DoneSound
<1>3. /\ DOMAIN r = PageFields /\ r.panel = page.panel /\ r.calls = page.calls \ {c}
      /\ Selected(r) = Selected(page)
  BY <1>1, DoneFacts DEF Sound, Shaped, Selected
<1>4. CASE q = r
  BY <1>2, <1>4
<1>5. CASE q = [r EXCEPT !.panel.routes = Price(c.who, c.what.asset, c.what.amount, "quote")]
  <2>1. PICK price : price = Price(c.who, c.what.asset, c.what.amount, "quote")
    OBVIOUS
  <2>2. PICK panel : panel = [r.panel EXCEPT !.routes = price]
    OBVIOUS
  <2>3. /\ DOMAIN q = PageFields /\ q.panel = panel
        /\ \A y \in PageFields \ {"panel"} : q[y] = r[y]
    BY <1>3, <1>5, <2>1, <2>2 DEF PageFields
  <2>4. q.calls = r.calls /\ q.sellRoutes = r.sellRoutes
    BY <2>3 DEF PageFields
  <2>5. Shaped(q) /\ Releasing(q) = Releasing(r) /\ \A ks : Heard(q, ks) = Heard(r, ks)
    BY <1>2, <2>3, <2>4 DEF Sound, Shaped, Releasing, Heard
  <2>6. Reprices(r, q) /\ SellSame(r, q)
    BY <2>3, <2>4, <2>5 DEF Reprices, SellSame
  <2>7. Selected(q) = Selected(page)
    BY <1>3, <2>6, RepricesFields
  <2>8. ~LeaveAnyTime => BuyPriced(q, a)
    <3> SUFFICES ASSUME ~LeaveAnyTime PROVE BuyPriced(q, a)
      OBVIOUS
    <3>1. BuyPriced(page, a) /\ c \in Heard(page, {"quote"}) /\ c.phase # "wait"
      BY DEF Sound, Priced, Heard, Wanted
    <3>2. /\ OfAsset(page, a) /\ c.what.asset = Selected(page)
          /\ c.what.amount = page.panel.box /\ c.who = a
      BY <3>1 DEF BuyPriced
    <3>3. /\ panel.asset = Selected(page) /\ panel.box = page.panel.box
          /\ panel.routes = price /\ DOMAIN panel = {"asset", "spend", "box", "routes"}
      BY <1>3, <2>2, <3>2 DEF OfAsset
    <3>4. OfAsset(q, a)
      BY <2>3, <2>7, <3>2, <3>3 DEF OfAsset
    <3>5. price.who = a /\ price.asset = Selected(page) /\ price.amount = page.panel.box
      BY <2>1, <3>2 DEF Price
    <3>6. Heard(q, {"quote"}) \subseteq Heard(page, {"quote"})
      BY <1>3, <2>4 DEF Heard
    <3>7. \A d \in Heard(page, {"quote"}) :
             /\ d.what.asset = Selected(page) /\ d.what.amount = page.panel.box
             /\ d.phase # "wait" => d.who = a
      BY <3>1 DEF BuyPriced
    <3> QED
      BY <2>3, <2>7, <3>3, <3>4, <3>5, <3>6, <3>7 DEF BuyPriced, PanelFits
  <2>9. ~LeaveAnyTime => SellPriced(q, a)
    BY <1>2, <2>6, SellStays, RepricesFields DEF Sound, Priced
  <2> QED
    BY <1>2, <2>6, <2>8, <2>9, SoundReprices
<1> QED
  BY <1>1, <1>4, <1>5 DEF Granted

LEMMA SellQuoteGranted ==
  ASSUME NEW a, NEW k, NEW j, Sound(page, a, k, j, "none"), Awake(page, a), NEW c \in page.calls,
         c.kind = "sellquote", Wanted(c, "ask"), NEW q, q = Granted(c)
  PROVE  Sound(q, a, k, j, "none") /\ Awake(q, a)
<1>1. PICK r : r = Done(page, c)
  OBVIOUS
<1>2. Sound(r, a, k, j, "none") /\ Awake(r, a)
  <2>1. c.frees = "none"
    BY DEF Sound, Shaped, CallSound
  <2> QED
    BY <1>1, <2>1, DoneSound
<1>3. PICK routes : routes = [who |-> c.who, amount |-> c.what.amount]
  OBVIOUS
<1>4. q = [r EXCEPT !.sellRoutes = routes]
  BY <1>1, <1>3 DEF Granted
<1>5. /\ DOMAIN q = PageFields /\ q.sellRoutes = routes
      /\ \A y \in PageFields \ {"sellRoutes"} : q[y] = r[y]
  BY <1>2, <1>4 DEF Sound, Shaped, PageFields
<1>6. q.calls = r.calls /\ q.panel = r.panel
  BY <1>5 DEF PageFields
<1>7. Shaped(q) /\ Releasing(q) = Releasing(r) /\ \A ks : Heard(q, ks) = Heard(r, ks)
  BY <1>2, <1>5, <1>6 DEF Sound, Shaped, Releasing, Heard
<1>8. Reprices(r, q)
  BY <1>5, <1>6, <1>7 DEF Reprices
<1>9. Selected(q) = Selected(r) /\ q.sellBox = r.sellBox
  BY <1>8, RepricesFields
<1>10. ~LeaveAnyTime => BuyPriced(q, a)
  BY <1>2, <1>6, <1>7, <1>9 DEF Sound, Priced, BuyPriced, PanelFits, OfAsset
<1>11. ~LeaveAnyTime => SellPriced(q, a)
  <2>1. c \in Heard(page, {"sellquote"})
    BY DEF Heard, Wanted
  <2>2. ~LeaveAnyTime => a # None /\ c.who = a /\ c.what.amount = page.sellBox
    BY <2>1 DEF Sound, Priced, SellPriced
  <2>3. r.sellBox = page.sellBox
    BY <1>1, DoneFacts DEF Sound, Shaped
  <2>4. Heard(q, {"sellquote"}) = Heard(r, {"sellquote"})
    BY <1>7
  <2> QED
    BY <1>2, <1>3, <1>5, <1>9, <2>2, <2>3, <2>4 DEF Sound, Priced, SellPriced
<1> QED
  BY <1>2, <1>8, <1>10, <1>11, SoundReprices

\* One call at a time releases "working": no other review is on its way.
LEMMA ReviewGranted ==
  ASSUME NEW a, NEW k, NEW j, Sound(page, a, k, j, "none"), Awake(page, a), NEW c \in page.calls,
         c.kind \in {"sell", "preview"}, Wanted(c, "ask"), NEW q, q = Granted(c)
  PROVE  Sound(q, a, k, j, "working") /\ Awake(q, a) /\ c.frees = "working"
<1>1. PICK r : r = Done(page, c)
  OBVIOUS
<1>2. c.frees = "working" /\ ~c.void /\ c \in Heard(page, {"sell", "preview"})
  BY DEF Sound, Shaped, CallSound, Wanted, Heard
<1>3. Sound(r, a, k, j, "working") /\ Awake(r, a)
  BY <1>1, <1>2, DoneSound
<1>4. /\ DOMAIN r = PageFields /\ r.calls = page.calls \ {c} /\ r.dialog = page.dialog
      /\ r.fields = page.fields
  BY <1>1, DoneFacts DEF Sound, Shaped
<1>5. c.who = a /\ a # None /\ (c.kind = "preview" => page.dialog \in {None, "withdraw"})
  BY <1>2 DEF Sound, Reviews, Heard
<1>6. Heard(r, {"sell", "preview"}) = {}
  BY <1>2, <1>4 DEF Sound, Shaped, CallSound, Flags, Heard
<1>7. CASE q = r
  BY <1>2, <1>3, <1>7
<1>8. ASSUME NEW review, review.who = a,
             \/ /\ c.kind = "sell" /\ review.kind = "sell"
                /\ q = [r EXCEPT !.dialog = "sell", !.fields = 0, !.review = review]
             \/ /\ c.kind = "preview" /\ review.kind = "withdraw"
                /\ q = [r EXCEPT !.fields = review.text, !.review = review]
      PROVE  Sound(q, a, k, j, "working") /\ Awake(q, a)
  <2>1. /\ DOMAIN q = PageFields
        /\ \A y \in PageFields \ {"dialog", "fields", "review"} : q[y] = r[y]
    BY <1>4, <1>8 DEF PageFields
  <2>2. /\ q.review = review /\ q.calls = r.calls
        /\ review.kind = "withdraw" => q.fields = review.text
        /\ q.dialog # None => q.dialog = review.kind
    BY <1>4, <1>5, <1>8 DEF PageFields
  <2>3. Heard(q, {"sell", "preview"}) = {} /\ Heard(q, {"preview"}) = {}
    BY <1>6, <2>2 DEF Heard
  <2>4. Reviews(q, a)
    BY <1>5, <1>8, <2>2, <2>3 DEF Reviews
  <2> QED
    BY <1>3, <2>1, <2>4, DialogSound
<1>9. CASE c.kind = "sell"
  <2>1. PICK review : review = [kind |-> "sell", who |-> c.who, text |-> c.what.amount]
    OBVIOUS
  <2>2. q = [r EXCEPT !.dialog = "sell", !.fields = 0, !.review = review]
    BY <1>1, <1>9, <2>1 DEF Granted
  <2>3. review.kind = "sell" /\ review.who = a
    BY <1>5, <2>1
  <2> QED
    BY <1>2, <1>8, <1>9, <2>2, <2>3
<1>10. CASE c.kind = "preview"
  <2>1. PICK text : text = IF c.what.max THEN MaxAmount ELSE c.what.text
    OBVIOUS
  <2>2. PICK review : review = [kind |-> "withdraw", who |-> c.who, text |-> text]
    OBVIOUS
  <2>3. q = r \/ q = [r EXCEPT !.fields = text, !.review = review]
    BY <1>1, <1>10, <2>1, <2>2 DEF Granted
  <2>4. review.kind = "withdraw" /\ review.who = a /\ review.text = text
    BY <1>5, <2>2
  <2> QED
    BY <1>2, <1>7, <1>8, <1>10, <2>3, <2>4
<1> QED
  BY <1>9, <1>10

\* A job only moves on.
LEMMA ForwardsLater ==
  ASSUME NEW p, NEW k \in Accounts, NEW j, NEW i, Forwards(p, k, j),
         \A b \in Accounts : j[b].n \in Nat /\ i[b].n \in Nat /\ j[b].n <= i[b].n
  PROVE  Forwards(p, k, i)
<1>1. ASSUME NEW n \in Nat, NEW b \in Accounts, n <= j[b].n PROVE n <= i[b].n
  <2>1. j[b].n \in Nat /\ i[b].n \in Nat /\ j[b].n <= i[b].n
    OBVIOUS
  <2> QED
    BY <1>1, <2>1
<1> QED
  BY <1>1 DEF Forwards

LEMMA SoundLater ==
  ASSUME NEW p, NEW a, NEW k \in Accounts, NEW j, NEW i, NEW f, Sound(p, a, k, j, f),
         \A b \in Accounts : j[b].n \in Nat /\ i[b].n \in Nat /\ j[b].n <= i[b].n
  PROVE  Sound(p, a, k, i, f)
  BY ForwardsLater DEF Sound

LEMMA MovedFacts ==
  ASSUME NEW a \in Accounts, NEW at, ServerSound(account, cred, job), Moved(a, at)
  PROVE  /\ ServerSound(account, cred, job')
         /\ \A b \in Accounts : job[b].n \in Nat /\ job'[b].n \in Nat /\ job[b].n <= job'[b].n
<1>1. DOMAIN job = Accounts /\ \A b \in Accounts : DOMAIN job[b] = {"n", "at"} /\ job[b].n \in Nat
  BY DEF ServerSound
<1>2. PICK n : n = job[a].n + 1
  OBVIOUS
<1>3. job' = [job EXCEPT ![a] = [n |-> n, at |-> at]]
  BY <1>2 DEF Moved
<1>4. n \in Nat /\ job[a].n <= n
  BY <1>1, <1>2
<1>5. DOMAIN job' = Accounts
  BY <1>1, <1>3
<1>6. \A b \in Accounts : job'[b] = IF b = a THEN [n |-> n, at |-> at] ELSE job[b]
  BY <1>1, <1>3
<1>7. \A b \in Accounts : DOMAIN job'[b] = {"n", "at"} /\ job'[b].n \in Nat
  BY <1>1, <1>4, <1>6
<1>8. \A b \in Accounts : job[b].n <= job'[b].n
  <2> TAKE b \in Accounts
  <2>1. CASE b = a
    BY <1>4, <1>6, <2>1
  <2>2. CASE b # a
    <3>1. job'[b].n = job[b].n /\ job[b].n \in Nat
      BY <1>1, <1>6, <2>2
    <3> QED
      BY <3>1
  <2> QED
    BY <2>1, <2>2
<1> QED
  BY <1>1, <1>5, <1>7, <1>8 DEF ServerSound

-----------------------------------------------------------------------------
(* The steps. *)

LEMMA InputFacts ==
  ASSUME PageInv, NEW p, Input(p)
  PROVE  /\ account # None /\ account = cred /\ cred \in Accounts /\ page' = p
         /\ Sound(page, account, account, job, "none") /\ Awake(page, account)
         /\ Sound(p, account, account, job, "none") /\ Awake(p, account) => PageInv'
  BY DEF PageInv, ServerSound, Input, Act

LEMMA SignInKeeps ==
  ASSUME PageInv, None \notin Accounts, NEW b \in Accounts, SignIn(b)
  PROVE  PageInv'
<1>1. /\ account = None /\ account' = b /\ cred' = b /\ job' = job
      /\ page' = Refreshing(page, b, "none")
  BY DEF SignIn, Act
<1>2. b # None /\ ServerSound(account', cred', job')
  BY <1>1 DEF PageInv, ServerSound
<1>3. Sound(page, b, cred, job, "none")
  BY <1>1, SoundForAnyone DEF PageInv
<1>4. Sound(page', b, b, job, "none") /\ Awake(page', b)
  BY <1>1, <1>2, <1>3, RefreshingFacts
<1> QED
  BY <1>1, <1>2, <1>4 DEF PageInv

LEMMA SignOutKeeps == ASSUME PageInv, SignOut PROVE PageInv'
<1>1. /\ account' = None /\ cred' = cred /\ job' = job /\ page' = Stopped(Forgotten(page))
      /\ LeaveAnyTime \/ \A c \in page.calls : c.kind \notin OfNoSession
  BY DEF SignOut, Act
<1>2. Sound(page', None, cred, job, "none") /\ Awake(page', None)
  BY <1>1, ForgottenSound DEF PageInv
<1> QED
  BY <1>1, <1>2 DEF PageInv, ServerSound

LEMMA UserRefreshKeeps == ASSUME PageInv, UserRefresh PROVE PageInv'
<1>1. Input(Refreshing(page, cred, "none"))
  BY DEF UserRefresh, OnPage
<1>2. PICK p : p = Refreshing(page, cred, "none")
  OBVIOUS
<1>3. Sound(p, account, account, job, "none") /\ Awake(p, account)
  BY <1>1, <1>2, InputFacts, RefreshingFacts
<1> QED
  BY <1>1, <1>2, <1>3, InputFacts

LEMMA CardKeeps ==
  ASSUME PageInv, NEW s, NEW x, NoPanel, ChooseMode \/ OpenAsset(s) \/ Type(x) \/ SellType(x)
  PROVE  PageInv'
<1>1. CASE ChooseMode
  <2>1. PICK q : q = Boxed(page, page.sellBox)
    OBVIOUS
  <2>2. PICK mode : mode = IF page.mode = "buy" THEN "sell" ELSE "buy"
    OBVIOUS
  <2>3. q = [Voided(page, {"sellquote"}) EXCEPT !.sellRoutes = None]
    <3>1. PICK v : v = Voided(page, {"sellquote"})
      OBVIOUS
    <3>2. DOMAIN v = PageFields /\ v.sellBox = page.sellBox
      BY <3>1, VoidedFacts DEF PageInv, Sound, Shaped, PageFields
    <3> QED
      BY <2>1, <3>1, <3>2 DEF PageFields, Boxed
  <2>4. Input(SelectAsset(q, mode, None))
    BY <1>1, <2>2, <2>3 DEF ChooseMode, OnPage
  <2>5. Sound(q, account, account, job, "none") /\ Awake(q, account)
    <3>1. Sound(page, account, account, job, "none") /\ Awake(page, account)
      BY <2>4, InputFacts
    <3> QED
      BY <2>1, <3>1, SellBoxSound
  <2>6. PICK r : r = SelectAsset(q, mode, None)
    OBVIOUS
  <2>7. Sound(r, account, account, job, "none") /\ Awake(r, account)
    BY <2>5, <2>6, SoundSelect
  <2> QED
    BY <2>4, <2>6, <2>7, InputFacts
<1>2. CASE OpenAsset(s)
  <2>1. PICK r : r = SelectAsset(page, page.mode, s)
    OBVIOUS
  <2>2. Input(r)
    BY <1>2, <2>1 DEF OpenAsset, OnPage
  <2>3. Sound(r, account, account, job, "none") /\ Awake(r, account)
    BY <2>1, <2>2, InputFacts, SoundSelect
  <2> QED
    BY <2>2, <2>3, InputFacts
<1>3. CASE Type(x)
  <2>1. PICK r : r = Requoted([page EXCEPT !.panel.box = x])
    OBVIOUS
  <2>2. Input(r) /\ page.panel # None
    BY <1>3, <2>1 DEF Type, OnPage
  <2>3. Sound(r, account, account, job, "none") /\ Awake(r, account)
    BY <2>1, <2>2, InputFacts, TypedSound
  <2> QED
    BY <2>2, <2>3, InputFacts
<1>4. CASE SellType(x)
  <2>1. PICK r : r = Boxed(page, x)
    OBVIOUS
  <2>2. Input(r)
    BY <1>4, <2>1 DEF SellType, OnPage, Boxed
  <2>3. Sound(r, account, account, job, "none") /\ Awake(r, account)
    <3>1. Sound(page, account, account, job, "none") /\ Awake(page, account)
      BY <2>2, InputFacts
    <3> QED
      BY <2>1, <3>1, SellBoxSound
  <2> QED
    BY <2>2, <2>3, InputFacts
<1> QED
  BY <1>1, <1>2, <1>3, <1>4

\* The flags and the dialog are looked at when the button is pressed.
LEMMA CallKeeps ==
  ASSUME PageInv, NEW x, NEW max,
         \/ StartSwap \/ RetryOrReset \/ ReviewRecovery \/ Land \/ SellReview \/ Confirm
         \/ Tap \/ RetryOrCancel \/ SellQuote(x) \/ Preview(max)
  PROVE  PageInv'
<1>0. Kinds = OfSession \cup OfNoSession \cup {"status"}
  BY DEF Kinds
<1>1. CASE StartSwap
  <2>1. PICK what : what = [asset |-> page.panel.asset, amount |-> page.panel.box,
                            price |-> page.panel.routes]
    OBVIOUS
  <2>2. PICK q : q = Busy("start", "submit", what)
    OBVIOUS
  <2>3. Input(q)
    BY <1>1, <2>1, <2>2 DEF StartSwap, OnPage
  <2>4. Sound(q, account, account, job, "none") /\ Awake(q, account)
    BY <2>2, <2>3, InputFacts, StartedSound, KindFacts
  <2> QED
    BY <2>3, <2>4, InputFacts
<1>2. CASE RetryOrReset
  <2>1. PICK q : q = Free(page, "act", "submit", None)
    OBVIOUS
  <2>2. Input(q)
    BY <1>2, <2>1 DEF RetryOrReset, OnPage
  <2>3. Sound(q, account, account, job, "none") /\ Awake(q, account)
    BY <2>1, <2>2, InputFacts, StartedSound, KindFacts
  <2> QED
    BY <2>2, <2>3, InputFacts
<1>3. CASE ReviewRecovery
  <2>1. PICK q : q = Free(page, "requote", "ask", None)
    OBVIOUS
  <2>2. Input(q)
    BY <1>3, <2>1 DEF ReviewRecovery, OnPage
  <2>3. Sound(q, account, account, job, "none") /\ Awake(q, account)
    BY <2>1, <2>2, InputFacts, StartedSound, KindFacts
  <2> QED
    BY <2>2, <2>3, InputFacts
<1>4. CASE Land
  <2>1. PICK q : q = Busy("land", "ask", None)
    OBVIOUS
  <2>2. Input(q)
    BY <1>4, <2>1 DEF Land, OnPage
  <2>3. Sound(q, account, account, job, "none") /\ Awake(q, account)
    BY <2>1, <2>2, InputFacts, StartedSound, KindFacts
  <2> QED
    BY <2>2, <2>3, InputFacts
<1>5. ASSUME NEW kind \in {"sell", "approve", "tap", "action"}, NEW phase, phase # "wait", NEW what,
             ~page.working, Input(Working(page, kind, phase, what))
      PROVE  PageInv'
  <2>1. PICK q : q = Working(page, kind, phase, what)
    OBVIOUS
  <2>2. Sound(q, account, account, job, "none") /\ Awake(q, account)
    BY <1>5, <2>1, InputFacts, StartedSound, KindFacts
  <2> QED
    BY <1>5, <2>1, <2>2, InputFacts
<1>6. CASE SellReview
  BY <1>5, <1>6 DEF SellReview, OnPage
<1>7. CASE Confirm
  BY <1>5, <1>7 DEF Confirm
<1>8. CASE Tap
  BY <1>5, <1>8 DEF Tap, OnPage
<1>9. CASE RetryOrCancel
  BY <1>5, <1>9 DEF RetryOrCancel, OnPage
<1>10. CASE SellQuote(x)
  <2>1. PICK b : b = Boxed(page, x)
    OBVIOUS
  <2>2. PICK what : what = [amount |-> x]
    OBVIOUS
  <2>3. PICK q : q = Free(b, "sellquote", "ask", what)
    OBVIOUS
  <2>4. Input(q)
    BY <1>10, <2>1, <2>2, <2>3 DEF SellQuote, OnPage, Boxed
  <2>5. Sound(b, account, account, job, "none") /\ Awake(b, account) /\ what.amount = b.sellBox
    <3>1. Sound(page, account, account, job, "none") /\ Awake(page, account)
      BY <2>4, InputFacts
    <3>2. Sound(b, account, account, job, "none") /\ Awake(b, account) /\ b.sellBox = x
      BY <2>1, <3>1, SellBoxSound
    <3> QED
      BY <2>2, <3>2
  <2>6. Sound(q, account, account, job, "none") /\ Awake(q, account)
    <3>1. account # None /\ account = cred /\ cred \in Accounts
      BY <2>4, InputFacts
    <3>2. "sellquote" \in Kinds \ {"status", "quote"} /\ "sellquote" \notin {"sell", "preview"}
      BY KindFacts DEF Quotes
    <3> QED
      BY <2>3, <2>5, <3>1, <3>2, StartedSound
  <2> QED
    BY <2>4, <2>6, InputFacts
<1>11. CASE Preview(max)
  <2>1. PICK b : b = [page EXCEPT !.review = None]
    OBVIOUS
  <2>2. PICK what : what = [text |-> page.fields, max |-> max]
    OBVIOUS
  <2>3. PICK q : q = Working(b, "preview", "ask", what)
    OBVIOUS
  <2>4. Input(q) /\ ~page.working /\ page.dialog = "withdraw"
    BY <1>11, <2>1, <2>2, <2>3 DEF Preview
  <2>5. /\ DOMAIN b = PageFields /\ b.review = None /\ b.dialog = page.dialog
        /\ b.working = page.working /\ b.calls = page.calls
        /\ \A y \in PageFields \ {"dialog", "fields", "review"} : b[y] = page[y]
    BY <2>1 DEF PageInv, Sound, Shaped, PageFields
  <2>6. Reviews(b, account)
    BY <2>5 DEF PageInv, Sound, Reviews, Heard
  <2>7. Sound(b, account, account, job, "none") /\ Awake(b, account)
    BY <2>4, <2>5, <2>6, InputFacts, DialogSound
  <2>8. Sound(q, account, account, job, "none") /\ Awake(q, account)
    BY <2>3, <2>4, <2>5, <2>7, InputFacts, StartedSound, KindFacts
  <2> QED
    BY <2>4, <2>8, InputFacts
<1> QED
  BY <1>1, <1>2, <1>3, <1>4, <1>6, <1>7, <1>8, <1>9, <1>10, <1>11

LEMMA DialogKeeps ==
  ASSUME PageInv, NEW x, OpenWithdraw \/ CloseDialog \/ Fill(x) PROVE PageInv'
<1>1. ASSUME NEW q, Input(q), DOMAIN q = PageFields,
             \A y \in PageFields \ {"dialog", "fields", "review"} : q[y] = page[y],
             Reviews(q, account)
      PROVE  PageInv'
  <2>1. Sound(q, account, account, job, "none") /\ Awake(q, account)
    BY <1>1, InputFacts, DialogSound
  <2> QED
    BY <1>1, <2>1, InputFacts
<1>2. DOMAIN page = PageFields /\ Reviews(page, account)
  BY DEF PageInv, Sound, Shaped
<1>3. CASE OpenWithdraw
  <2>1. PICK q : q = [page EXCEPT !.dialog = "withdraw", !.fields = 0, !.review = None]
    OBVIOUS
  <2>2. Input(q)
    BY <1>3, <2>1 DEF OpenWithdraw, OnPage
  <2>3. /\ DOMAIN q = PageFields /\ q.review = None /\ q.calls = page.calls /\ q.dialog = "withdraw"
        /\ \A y \in PageFields \ {"dialog", "fields", "review"} : q[y] = page[y]
    BY <1>2, <2>1 DEF PageFields
  <2>4. Reviews(q, account)
    BY <1>2, <2>3 DEF Reviews, Heard
  <2> QED
    BY <1>1, <2>2, <2>3, <2>4
<1>4. CASE CloseDialog
  <2>1. PICK q : q = [page EXCEPT !.dialog = None]
    OBVIOUS
  <2>2. Input(q)
    BY <1>4, <2>1 DEF CloseDialog
  <2>3. /\ DOMAIN q = PageFields /\ q.review = page.review /\ q.fields = page.fields
        /\ q.calls = page.calls /\ q.dialog = None
        /\ \A y \in PageFields \ {"dialog", "fields", "review"} : q[y] = page[y]
    BY <1>2, <2>1 DEF PageFields
  <2>4. Reviews(q, account)
    BY <1>2, <2>3 DEF Reviews, Heard
  <2> QED
    BY <1>1, <2>2, <2>3, <2>4
<1>5. CASE Fill(x)
  <2>1. PICK q : q = [page EXCEPT !.fields = x, !.review = None]
    OBVIOUS
  <2>2. Input(q)
    BY <1>5, <2>1 DEF Fill
  <2>3. /\ DOMAIN q = PageFields /\ q.review = None /\ q.calls = page.calls
        /\ q.dialog = page.dialog
        /\ \A y \in PageFields \ {"dialog", "fields", "review"} : q[y] = page[y]
    BY <1>2, <2>1 DEF PageFields
  <2>4. Reviews(q, account)
    BY <1>2, <2>3 DEF Reviews, Heard
  <2> QED
    BY <1>1, <2>2, <2>3, <2>4
<1> QED
  BY <1>3, <1>4, <1>5

LEMMA BecomesFacts ==
  ASSUME PageInv, NEW p, Becomes(p), Sound(p, account, cred, job, "none"), Awake(p, account)
  PROVE  PageInv'
  BY DEF PageInv, Becomes

\* While nobody is signed in there is nothing to go on with, if signing out waits for
\* the calls that check no session.
LEMMA SomeoneHere ==
  ASSUME PageInv, page.timer \/ \E c \in page.calls : ~c.void
  PROVE  account # None \/ LeaveAnyTime
  BY DEF PageInv, Sound, Priced, Own

LEMMA PollKeeps == ASSUME PageInv, Poll PROVE PageInv'
<1>1. PICK p : p = Refreshing(page, cred, "none")
  OBVIOUS
<1>2. Becomes(p) /\ cred \in Accounts /\ (account # None => account = cred)
  BY <1>1 DEF Poll, PageInv, ServerSound
<1>3. account # None \/ LeaveAnyTime
  BY SomeoneHere DEF Poll
<1>4. Sound(p, account, cred, job, "none") /\ (account = cred => Awake(p, account))
  BY <1>1, <1>2, <1>3, RefreshingFacts DEF PageInv
<1>5. Awake(p, account)
  BY <1>2, <1>4 DEF Awake
<1> QED
  BY <1>2, <1>4, <1>5, BecomesFacts

\* What an answer to a write, or the refusal of tap(), ends with.
LEMMA RefreshKeeps ==
  ASSUME PageInv, NEW c \in page.calls, ~c.void, NEW r, Sound(r, account, cred, job, c.frees),
         Becomes(Refreshing(r, cred, c.frees))
  PROVE  PageInv'
<1>1. PICK p : p = Refreshing(r, cred, c.frees)
  OBVIOUS
<1>2. cred \in Accounts /\ (account # None => account = cred)
  BY DEF PageInv, ServerSound
<1>3. account # None \/ LeaveAnyTime
  BY SomeoneHere
<1>4. Sound(p, account, cred, job, "none") /\ (account = cred => Awake(p, account))
  BY <1>1, <1>2, <1>3, RefreshingFacts
<1>5. Awake(p, account)
  BY <1>2, <1>4 DEF Awake
<1> QED
  BY <1>1, <1>4, <1>5, BecomesFacts

LEMMA ReleasedKeeps ==
  ASSUME PageInv, NEW c \in page.calls, c.void \/ c.kind # "status", Released(c)
  PROVE  PageInv'
<1>1. PICK p : p = Freed(Done(page, c), c.frees)
  OBVIOUS
<1>2. Sound(p, account, cred, job, "none") /\ Awake(p, account)
  BY <1>1, ReleasedSound DEF PageInv
<1> QED
  BY <1>1, <1>2, BecomesFacts DEF Released

LEMMA RefusedKeeps ==
  ASSUME PageInv, NEW c \in page.calls, c.kind # "status", Refused(c)
  PROVE  PageInv'
<1>1. PICK r : r = Done(page, c)
  OBVIOUS
<1>2. Sound(r, account, cred, job, c.frees) /\ Awake(r, account)
  BY <1>1, DoneSound DEF PageInv
<1>3. CASE c.kind = "tap" /\ ~c.void
  BY <1>1, <1>2, <1>3, RefreshKeeps DEF Refused
<1>4. CASE c.kind = "start" /\ ~c.void
  <2>1. PICK p \in {r, Requoted(r)} : Becomes(Freed(p, c.frees))
    BY <1>1, <1>4 DEF Refused
  <2>2. Sound(p, account, cred, job, c.frees) /\ Awake(p, account)
    BY <1>2, <2>1, SoundRequoted
  <2>3. PICK q : q = Freed(p, c.frees)
    OBVIOUS
  <2>4. Sound(q, account, cred, job, "none") /\ Awake(q, account)
    BY <2>2, <2>3, FreedSound
  <2> QED
    BY <2>1, <2>3, <2>4, BecomesFacts
<1>5. CASE Released(c)
  BY <1>5, ReleasedKeeps
<1> QED
  BY <1>3, <1>4, <1>5 DEF Refused

LEMMA TurnsKeeps ==
  ASSUME PageInv, NEW c \in page.calls, c.kind # "status", NEW d, CallSound(d),
         d.kind = c.kind, d.void = c.void, d.frees = c.frees, d.phase # "wait",
         \/ d.who = c.who /\ c.phase # "wait"
         \/ c.kind = "quote" /\ d.who = cred,
         d.what = c.what \/ c.kind \notin Quotes
  PROVE  Sound(Turns(c, d), account, cred, job, "none") /\ Awake(Turns(c, d), account)
<1>1. PICK q : q = Plus(Done(page, c), d)
  OBVIOUS
<1>2. Sound(page, account, cred, job, "none") /\ Awake(page, account)
      /\ (account # None => account = cred)
  BY DEF PageInv, ServerSound
<1>3. Sound(q, account, cred, job, "none") /\ Awake(q, account)
  BY <1>1, <1>2, TurnedSound
<1> QED
  BY <1>1, <1>3 DEF Turns

\* d is the call c in its next phase.
OnwardTo(c, d) ==
  /\ DOMAIN d = CallFields /\ d.phase # "wait"
  /\ \A x \in CallFields \ {"phase", "what", "ok"} : d[x] = c[x]

LEMMA NextPhase ==
  ASSUME NEW c, CallSound(c), c.phase # "wait", NEW d, OnwardTo(c, d)
  PROVE  /\ CallSound(d) /\ d.kind = c.kind /\ d.void = c.void /\ d.frees = c.frees
         /\ d.who = c.who /\ d.phase # "wait"
<1>1. d.kind = c.kind /\ d.void = c.void /\ d.frees = c.frees /\ d.who = c.who
  BY DEF OnwardTo, CallFields
<1> QED
  BY <1>1 DEF CallSound, OnwardTo

LEMMA PriceDueKeeps == ASSUME PageInv, NEW c \in page.calls, PriceDue(c) PROVE PageInv'
<1>1. CallSound(c) /\ cred \in Accounts
  BY DEF PageInv, Sound, Shaped, ServerSound
<1>2. c.kind = "quote" /\ c.frees = "none" /\ ~c.void
  BY <1>1 DEF CallSound, PriceDue, Wanted
<1>3. CASE Becomes(Done(page, c))
  <2>1. PICK q : q = Done(page, c)
    OBVIOUS
  <2>2. Sound(q, account, cred, job, "none") /\ Awake(q, account)
    BY <1>2, <2>1, DoneSound DEF PageInv
  <2> QED
    BY <1>3, <2>1, <2>2, BecomesFacts
<1>4. CASE Becomes(Turns(c, Call("quote", "ask", "none", cred, c.what)))
  <2>1. PICK d : d = Call("quote", "ask", "none", cred, c.what)
    OBVIOUS
  <2>2. /\ CallSound(d) /\ d.kind = "quote" /\ d.void = FALSE /\ d.frees = "none"
        /\ d.phase = "ask" /\ d.who = cred /\ d.what = c.what
    BY <1>1, <2>1, KindFacts DEF Call, CallSound, CallFields, Quotes
  <2>3. c.void = FALSE
    BY <1>1, <1>2 DEF CallSound
  <2>4. Sound(Turns(c, d), account, cred, job, "none") /\ Awake(Turns(c, d), account)
    BY <1>2, <2>2, <2>3, TurnsKeeps
  <2> QED
    BY <1>4, <2>1, <2>4, BecomesFacts
<1> QED
  BY <1>3, <1>4 DEF PriceDue

LEMMA StatusReadKeeps == ASSUME PageInv, NEW c \in page.calls, StatusRead(c) PROVE PageInv'
<1>1. CallSound(c) /\ ServerSound(account, cred, job)
  BY DEF PageInv, Sound, Shaped
<1>2. PICK what : what = [who |-> c.who, n |-> job[c.who].n, at |-> job[c.who].at,
                          spend |-> spend[c.who]]
  OBVIOUS
<1>3. PICK d : d = [c EXCEPT !.phase = "told", !.what = what]
  OBVIOUS
<1>4. c.kind = "status" /\ c.phase = "ask" /\ ~c.void /\ Becomes(Turns(c, d))
  BY <1>2, <1>3 DEF StatusRead, Wanted
<1>5. /\ CallSound(d) /\ d.kind = c.kind /\ d.void = c.void /\ d.frees = c.frees
      /\ d.who = c.who
  <2>1. OnwardTo(c, d) /\ c.phase # "wait"
    BY <1>1, <1>3, <1>4 DEF OnwardTo, CallSound, CallFields
  <2> QED
    BY <1>1, <2>1, NextPhase
<1>6. d.phase = "told" /\ d.what.n = job[c.who].n
  BY <1>1, <1>2, <1>3 DEF CallSound, CallFields
<1>7. job[c.who].n \in Nat
  BY <1>1, <1>4 DEF CallSound, ServerSound
<1>8. PICK q : q = Plus(Done(page, c), d)
  OBVIOUS
<1>9. Sound(q, account, cred, job, "none") /\ Awake(q, account)
  BY <1>4, <1>5, <1>6, <1>7, <1>8, ReadSound DEF PageInv
<1> QED
  BY <1>4, <1>8, <1>9, BecomesFacts DEF Turns

LEMMA RefreshedKeeps ==
  ASSUME PageInv, NEW c \in page.calls, Refreshed(c) \/ RefreshFailed(c) PROVE PageInv'
<1>1. /\ Sound(page, account, cred, job, "none") /\ cred \in Accounts
      /\ account # None => account = cred
  BY DEF PageInv, ServerSound
<1>2. c.kind = "status" /\ ~c.void /\ c \in Heard(page, {"status"})
  BY DEF Refreshed, RefreshFailed, Wanted, Heard
<1>3. Forwards(page, cred, job)
  BY <1>1 DEF Sound
<1>4. c.who = cred
  BY <1>2, <1>3 DEF Forwards
<1>5. ASSUME NEW st, NEW focused, page' = Told(c, st, focused),
             UNCHANGED <<account, cred, job>>,
             st # None =>
               /\ st.who \in Accounts /\ st.n \in Nat /\ st.n <= job[st.who].n
               /\ ~LeaveAnyTime => st.who = cred
               /\ DOMAIN st = {"who", "n", "at", "spend", "quoted", "live"}
      PROVE  PageInv'
  <2>1. PICK q : q = Freed([Rendered([Done(page, c) EXCEPT !.last = st], focused)
                              EXCEPT !.timer = TRUE], c.frees)
    OBVIOUS
  <2>2. Sound(q, account, cred, job, "none") /\ Awake(q, account)
    BY <1>1, <1>2, <1>5, <2>1, ToldSound
  <2>3. page' = q
    BY <1>5, <2>1 DEF Told
  <2> QED
    BY <1>5, <2>2, <2>3 DEF PageInv
<1>6. CASE Refreshed(c)
  <2>1. PICK from \in {c.what.spend, spend[c.who]}, focused \in BOOLEAN :
          Becomes(Told(c, Status(c, from), focused))
    BY <1>6 DEF Refreshed
  <2>2. PICK st : st = Status(c, from)
    OBVIOUS
  <2>3. /\ st.who = c.who /\ st.n = c.what.n
        /\ DOMAIN st = {"who", "n", "at", "spend", "quoted", "live"}
    BY <2>2 DEF Status
  <2>4. c.what.n \in Nat /\ c.what.n <= job[cred].n
    BY <1>2, <1>3, <1>4, <1>6 DEF Forwards, Refreshed, Wanted
  <2> QED
    BY <1>1, <1>4, <1>5, <2>1, <2>2, <2>3, <2>4 DEF Becomes
<1>7. CASE RefreshFailed(c)
  <2>1. PICK st : st = IF page.last = None THEN None ELSE [page.last EXCEPT !.live = FALSE]
    OBVIOUS
  <2>2. \E focused \in BOOLEAN : page' = Told(c, st, focused)
    BY <1>7, <2>1 DEF RefreshFailed
  <2>3. UNCHANGED <<account, cred, job>>
    BY <1>7 DEF RefreshFailed
  <2>4. page.last # None => /\ st.who = page.last.who /\ st.n = page.last.n
                            /\ DOMAIN st = {"who", "n", "at", "spend", "quoted", "live"}
    BY <1>3, <2>1 DEF Forwards
  <2> QED
    <3>1. ~LeaveAnyTime /\ page.last # None => page.last.who = cred
      BY <1>1 DEF Sound, Priced, Own
    <3>2. page.last # None => /\ page.last.who \in Accounts /\ page.last.n \in Nat
                              /\ page.last.n <= job[page.last.who].n
      BY <1>3 DEF Forwards
    <3>3. page.last = None => st = None
      BY <2>1
    <3> QED
      BY <1>5, <2>2, <2>3, <2>4, <3>1, <3>2, <3>3
<1> QED
  BY <1>6, <1>7

LEMMA PromptKeeps == ASSUME PageInv, NEW c \in page.calls, Prompt(c) PROVE PageInv'
<1>1. CallSound(c) /\ c.phase = "sign" /\ ~c.void
  BY DEF PageInv, Sound, Shaped, Prompt, Wanted
<1>2. CASE Released(c) /\ c.kind # "status"
  BY <1>2, ReleasedKeeps
<1>3. c.kind # "status"
  BY <1>1 DEF PageInv, Sound, Forwards, Heard
<1>4. CASE Becomes(Turns(c, Signed(c)))
  <2>1. PICK d : d = Signed(c)
    OBVIOUS
  <2>2. OnwardTo(c, d)
    BY <1>1, <2>1 DEF Signed, OnwardTo, CallSound, CallFields
  <2>3. d.what = c.what \/ c.kind \in OfNoSession
    BY <1>1, <2>1 DEF Signed, CallSound, CallFields
  <2>4. d.what = c.what \/ c.kind \notin Quotes
    BY <2>3 DEF Quotes, OfNoSession
  <2>5. /\ CallSound(d) /\ d.kind = c.kind /\ d.void = c.void /\ d.frees = c.frees
        /\ d.who = c.who /\ d.phase # "wait"
    BY <1>1, <2>2, NextPhase
  <2>6. Sound(Turns(c, d), account, cred, job, "none") /\ Awake(Turns(c, d), account)
    BY <1>1, <1>3, <2>4, <2>5, TurnsKeeps
  <2> QED
    BY <1>4, <2>1, <2>6, BecomesFacts
<1> QED
  BY <1>2, <1>3, <1>4 DEF Prompt

LEMMA GrantKeeps == ASSUME PageInv, NEW c \in page.calls, Grant(c) PROVE PageInv'
<1>1. /\ CallSound(c) /\ c.kind # "status" /\ Wanted(c, "ask")
      /\ Sound(page, account, cred, job, "none") /\ Awake(page, account)
  BY DEF PageInv, Sound, Shaped, Grant
<1>2. PICK q : q = Granted(c)
  OBVIOUS
<1>3. ASSUME Sound(q, account, cred, job, c.frees), Awake(q, account), Becomes(Freed(q, c.frees))
      PROVE  PageInv'
  <2>1. PICK r : r = Freed(q, c.frees)
    OBVIOUS
  <2>2. Sound(r, account, cred, job, "none") /\ Awake(r, account)
    BY <1>3, <2>1, FreedSound
  <2> QED
    BY <1>3, <2>1, <2>2, BecomesFacts
<1>4. CASE c.kind \in {"quote", "sellquote"}
  <2>1. Sound(q, account, cred, job, "none") /\ Awake(q, account)
    BY <1>1, <1>2, <1>4, QuoteGranted, SellQuoteGranted
  <2>2. c.frees = "none"
    BY <1>1, <1>4 DEF CallSound
  <2> QED
    BY <1>2, <1>3, <1>4, <2>1, <2>2 DEF Grant
<1>5. CASE c.kind \in {"sell", "preview"}
  <2>1. Sound(q, account, cred, job, "working") /\ Awake(q, account) /\ c.frees = "working"
    BY <1>1, <1>2, <1>5, ReviewGranted
  <2> QED
    BY <1>2, <1>3, <1>5, <2>1 DEF Grant
<1>6. CASE c.kind \notin {"quote", "sellquote", "sell", "preview"}
  <2>1. PICK d : d = [c EXCEPT !.phase = "sign"]
    OBVIOUS
  <2>2. OnwardTo(c, d) /\ d.what = c.what
    BY <1>1, <2>1 DEF OnwardTo, CallSound, CallFields
  <2>3. c.phase # "wait"
    BY <1>1 DEF Wanted
  <2>4. /\ CallSound(d) /\ d.kind = c.kind /\ d.void = c.void /\ d.frees = c.frees
        /\ d.who = c.who /\ d.phase # "wait"
    BY <1>1, <2>2, <2>3, NextPhase
  <2>5. Sound(Turns(c, d), account, cred, job, "none") /\ Awake(Turns(c, d), account)
    BY <1>1, <2>2, <2>3, <2>4, TurnsKeeps
  <2>6. Becomes(Turns(c, d))
    BY <1>6, <2>1 DEF Grant, Granted, Turns
  <2> QED
    BY <2>5, <2>6, BecomesFacts
<1> QED
  BY <1>4, <1>5, <1>6

LEMMA RefuseKeeps == ASSUME PageInv, NEW c \in page.calls, Refuse(c) PROVE PageInv'
  BY ReleasedKeeps, RefusedKeeps DEF Refuse

LEMMA WriteKeeps == ASSUME PageInv, NEW c \in page.calls, Write(c) \/ WriteLost(c) PROVE PageInv'
<1>1. /\ CallSound(c) /\ c.kind # "status" /\ c.phase \in {"submit", "told"}
      /\ ServerSound(account, cred, job)
  BY DEF PageInv, Sound, Shaped, Write, WriteLost
<1>2. PICK d : \/ Write(c) /\ d = [c EXCEPT !.phase = "told", !.ok = Accepts(c)]
               \/ WriteLost(c) /\ d = [c EXCEPT !.ok = FALSE]
  OBVIOUS
<1>3. page' = Turns(c, d)
  BY <1>2 DEF Write, WriteLost
<1>4. OnwardTo(c, d) /\ d.what = c.what
  BY <1>1, <1>2 DEF OnwardTo, CallSound, CallFields
<1>5. /\ CallSound(d) /\ d.kind = c.kind /\ d.void = c.void /\ d.frees = c.frees
      /\ d.who = c.who /\ d.phase # "wait"
  BY <1>1, <1>4, NextPhase
<1>6. Sound(page', account, cred, job, "none") /\ Awake(page', account)
  BY <1>1, <1>3, <1>4, <1>5, TurnsKeeps
<1>7. CASE UNCHANGED <<account, cred, job>>
  BY <1>1, <1>6, <1>7 DEF PageInv
<1>8. CASE Write(c) /\ \E at \in LeavesJob(c) : Moved(c.who, at)
  <2>1. PICK at \in LeavesJob(c) : Moved(c.who, at)
    BY <1>8
  <2>2. c.who \in Accounts /\ cred \in Accounts
    BY <1>1 DEF CallSound, ServerSound
  <2>3. /\ ServerSound(account, cred, job')
        /\ \A b \in Accounts : job[b].n \in Nat /\ job'[b].n \in Nat /\ job[b].n <= job'[b].n
    BY <1>1, <2>1, <2>2, MovedFacts
  <2>4. Sound(page', account, cred, job', "none")
    BY <1>6, <2>2, <2>3, SoundLater
  <2>5. account' = account /\ cred' = cred
    BY <1>8 DEF Write
  <2> QED
    BY <1>6, <2>3, <2>4, <2>5 DEF PageInv
<1> QED
  BY <1>7, <1>8 DEF Write, WriteLost

LEMMA WrittenKeeps == ASSUME PageInv, NEW c \in page.calls, Written(c) PROVE PageInv'
<1>1. c.kind # "status" /\ ~c.void
  BY DEF Written, Wanted
<1>2. PICK r : r = Done(page, c)
  OBVIOUS
<1>3. Sound(r, account, cred, job, c.frees)
  BY <1>2, DoneSound DEF PageInv
<1>4. CASE Refused(c)
  BY <1>1, <1>4, RefusedKeeps
<1>5. CASE Becomes(Ends(c))
  <2>1. PICK s : s = IF c.kind = "approve" THEN [r EXCEPT !.dialog = None, !.review = None] ELSE r
    OBVIOUS
  <2>2. Becomes(Refreshing(s, cred, c.frees))
    BY <1>2, <1>5, <2>1 DEF Ends
  <2>3. Sound(s, account, cred, job, c.frees)
    <3>1. CASE s = r
      BY <1>3, <3>1
    <3>2. CASE s = [r EXCEPT !.dialog = None, !.review = None]
      <4>1. /\ DOMAIN s = PageFields /\ s.review = None /\ s.dialog = None /\ s.calls = r.calls
            /\ \A y \in PageFields \ {"dialog", "fields", "review"} : s[y] = r[y]
        BY <1>3, <3>2 DEF Sound, Shaped, PageFields
      <4>2. Reviews(s, account)
        BY <1>3, <4>1 DEF Sound, Reviews, Heard
      <4> QED
        BY <1>3, <4>1, <4>2, DialogSound
    <3> QED
      BY <2>1, <3>1, <3>2
  <2> QED
    BY <1>1, <2>2, <2>3, RefreshKeeps
<1> QED
  BY <1>4, <1>5 DEF Written

LEMMA ServerKeeps ==
  ASSUME PageInv, NEW b \in Accounts, NEW s, JobMoves(b) \/ Deposit(s) PROVE PageInv'
<1>1. ServerSound(account, cred, job) /\ cred \in Accounts
  BY DEF PageInv, ServerSound
<1>2. CASE Deposit(s)
  BY <1>2 DEF Deposit, PageInv
<1>3. CASE JobMoves(b)
  <2>1. PICK at : Moved(b, at)
    BY <1>3 DEF JobMoves
  <2>2. /\ ServerSound(account, cred, job')
        /\ \A x \in Accounts : job[x].n \in Nat /\ job'[x].n \in Nat /\ job[x].n <= job'[x].n
    BY <1>1, <2>1, MovedFacts
  <2>3. Sound(page, account, cred, job', "none") /\ Awake(page, account)
    BY <1>1, <2>2, SoundLater DEF PageInv
  <2>4. UNCHANGED <<account, cred, page>>
    BY <1>3 DEF JobMoves
  <2> QED
    BY <2>2, <2>3, <2>4 DEF PageInv
<1> QED
  BY <1>2, <1>3

\* The page as it is opened.
LEMMA PageStarts == ASSUME Accounts # {}, None \notin Accounts, PageInit PROVE PageInv
<1>1. account \in Accounts /\ cred = account /\ account # None
  BY DEF PageInit
<1>2. ServerSound(account, cred, job)
  BY <1>1 DEF PageInit, ServerSound
<1>3. PICK mode \in {"buy", "sell"}, s \in {None, "eth"}, dialog \in {None, "withdraw"} :
        page = Opened(account, mode, s, dialog)
  BY DEF PageInit
<1>4. PICK st : st = [who |-> account, n |-> 0, at |-> job[account].at, spend |-> spend[account],
                      quoted |-> [x \in Assets |-> IF job[account].at = "moving" THEN 0
                                                   ELSE spend[account][x]],
                      live |-> TRUE]
  OBVIOUS
<1>5. PICK b : b = [Blank EXCEPT !.last = st, !.timer = TRUE, !.mode = mode, !.selected = s,
                                 !.dialog = dialog]
  OBVIOUS
<1>6. page = Rendered(b, FALSE)
  BY <1>3, <1>4, <1>5 DEF Opened
<1>7. /\ DOMAIN b = PageFields /\ b.calls = {} /\ b.last = st /\ b.timer = TRUE
      /\ b.busy = FALSE /\ b.working = FALSE /\ b.panel = None /\ b.sellRoutes = None
      /\ b.review = None
  BY <1>5 DEF Blank, PageFields
<1>8. /\ st.who = account /\ st.n = 0
      /\ DOMAIN st = {"who", "n", "at", "spend", "quoted", "live"}
  BY <1>4
<1>9. \A ks : Heard(b, ks) = {}
  BY <1>7 DEF Heard
<1>10. Shaped(b) /\ Flags(b, "none") /\ Reviews(b, account) /\ Awake(b, account)
  BY <1>7, <1>9 DEF Shaped, Flags, Reviews, Awake
<1>11. Forwards(b, cred, job)
  <2>1. 0 \in Nat /\ job[account].n = 0
    BY <1>1 DEF PageInit
  <2> QED
    BY <1>1, <1>7, <1>8, <1>9, <2>1 DEF Forwards
<1>12. Priced(b, account)
  BY <1>1, <1>7, <1>8, <1>9 DEF Priced, BuyPriced, PanelFits, SellPriced, Own
<1>13. Sound(b, account, cred, job, "none")
  BY <1>10, <1>11, <1>12 DEF Sound
<1>14. Sound(page, account, cred, job, "none") /\ Awake(page, account)
  BY <1>6, <1>10, <1>13, SoundRendered
<1> QED
  BY <1>2, <1>14 DEF PageInv

\* The wallets and the panels are told from None.
Apart == Accounts # {} /\ None \notin Accounts /\ NoPanel

LEMMA NextKeepsPage == ASSUME PageInv, Apart, [PageNext]_pageVars PROVE PageInv'
<1>0. None \notin Accounts /\ NoPanel
  BY DEF Apart
<1>1. CASE Person
  <2>1. CASE \E a \in Accounts : SignIn(a)
    BY <1>0, <2>1, SignInKeeps
  <2>2. CASE SignOut \/ UserRefresh
    BY <2>2, SignOutKeeps, UserRefreshKeeps
  <2>3. CASE ChooseMode \/ (\E s \in Assets \cup {None} : OpenAsset(s))
             \/ \E x \in 0..MaxAmount : Type(x) \/ SellType(x)
    BY <1>0, <2>3, CardKeeps
  <2>4. CASE \/ StartSwap \/ RetryOrReset \/ ReviewRecovery \/ Land \/ SellReview \/ Confirm
             \/ Tap \/ RetryOrCancel \/ (\E x \in 0..MaxAmount : SellQuote(x))
             \/ \E max \in BOOLEAN : Preview(max)
    BY <2>4, CallKeeps
  <2>5. CASE OpenWithdraw \/ CloseDialog \/ \E x \in 0..MaxAmount : Fill(x)
    BY <2>5, DialogKeeps
  <2> QED
    BY <1>1, <2>1, <2>2, <2>3, <2>4, <2>5 DEF Person
<1>2. ASSUME NEW c \in page.calls, Advance(c) PROVE PageInv'
  BY <1>2, PriceDueKeeps, PromptKeeps, StatusReadKeeps, RefreshedKeeps, GrantKeeps, RefuseKeeps,
     WriteKeeps, WrittenKeeps DEF Advance
<1>3. CASE UNCHANGED pageVars
  BY <1>3 DEF pageVars, PageInv
<1>4. ASSUME NEW c \in page.calls, RefreshFailed(c) \/ WriteLost(c) PROVE PageInv'
  BY <1>4, RefreshedKeeps, WriteKeeps
<1>5. CASE Poll
  BY <1>5, PollKeeps
<1>6. ASSUME NEW a \in Accounts, JobMoves(a) PROVE PageInv'
  BY <1>6, ServerKeeps
<1>7. ASSUME NEW s, Deposit(s) PROVE PageInv'
  <2>1. cred \in Accounts
    BY DEF PageInv, ServerSound
  <2> QED
    BY <1>7, <2>1, ServerKeeps
<1> QED
  BY <1>1, <1>2, <1>3, <1>4, <1>5, <1>6, <1>7 DEF PageNext

\* The inductive invariant: what is on screen and which of the calls in flight fund.js
\* and trade.js will still heed fit together after every handler.
THEOREM PageHolds == ASSUME Apart PROVE PageSpec => []PageInv
<1>1. PageInit => PageInv
  BY PageStarts DEF Apart
<1>2. PageInv /\ [PageNext]_pageVars => PageInv'
  BY NextKeepsPage
<1> QED
  BY <1>1, <1>2, PTL DEF PageSpec

\* Every route button of the two cards is priced for the wallet signed in, the asset
\* selected and the amount in the box, whatever quotes (QUOTE_REQUEST, quoteGeneration)
\* overtake each other, if a sign-out waits for the calls that check no session.
THEOREM PricesHold == ASSUME Apart, ~LeaveAnyTime PROVE PageSpec => []PricesTheBox
<1>1. PageInv => PricesTheBox
  BY DEF PageInv, Sound, Priced, BuyPriced, PanelFits, OfAsset, SellPriced, PricesTheBox
<1> QED
  BY <1>1, PageHolds, PTL

\* The review that the passkey will approve (trade.js) is the signed-in wallet's and
\* says what the dialog says, whatever previews are on their way.
THEOREM ReviewHolds == ASSUME Apart PROVE PageSpec => []ReviewIsShown
<1>1. PageInv => ReviewIsShown
  BY DEF PageInv, Sound, Reviews, ReviewIsShown
<1> QED
  BY <1>1, PageHolds, PTL

\* refresh() of fund.js never ends the poll: a timer is armed or a status is awaited that
\* will be heeded; and BUSY and working are set only under a call that releases them.
THEOREM StuckNever == ASSUME Apart PROVE PageSpec => []NeverStuck
<1>1. PageInv => NeverStuck
  BY DEF PageInv, Sound, Flags, Awake, NeverStuck
<1> QED
  BY <1>1, PageHolds, PTL

\* The page shows nothing of a wallet that was signed in before, if a sign-out waits
\* for the calls that check no session.
THEOREM OwnHolds == ASSUME Apart, ~LeaveAnyTime PROVE PageSpec => []NothingOfAnother
<1>1. PageInv => NothingOfAnother
  BY DEF PageInv, Sound, Priced, Own, NothingOfAnother
<1> QED
  BY <1>1, PageHolds, PTL

-----------------------------------------------------------------------------
(* The job on screen only moves on. *)

\* What leaves the status on screen alone.
LEMMA LastStays ==
  ASSUME NEW p, Shaped(p)
  PROVE  /\ \A c : Done(p, c).last = p.last /\ Plus(p, c).last = p.last
         /\ \A f : Freed(p, f).last = p.last
         /\ \A x : Boxed(p, x).last = p.last
         /\ Requoted(p).last = p.last
         /\ \A who, f : Refreshing(p, who, f).last = p.last
<1>1. \A c : Done(p, c).last = p.last /\ Plus(p, c).last = p.last
  BY DEF Done, Plus, Shaped, PageFields
<1>2. \A f : Freed(p, f).last = p.last
  BY DEF Freed, Shaped, PageFields
<1>3. \A x : Boxed(p, x).last = p.last
  <2>1. PICK v : v = Voided(p, {"sellquote"})
    OBVIOUS
  <2>2. Reprices(p, v)
    BY <2>1, QuotesVoided DEF Quotes
  <2>3. DOMAIN v = PageFields /\ v.last = p.last
    BY <2>2, RepricesFields DEF Shaped
  <2> QED
    BY <2>1, <2>3 DEF Boxed, PageFields
<1>4. Requoted(p).last = p.last
  <2>1. PICK q : q = Requoted(p)
    OBVIOUS
  <2>2. Reprices(p, q)
    BY <2>1, RequotedFacts
  <2> QED
    BY <2>1, <2>2, RepricesFields
<1>5. ASSUME NEW who, NEW f PROVE Refreshing(p, who, f).last = p.last
  <2>1. PICK st : st = Stopped(p)
    OBVIOUS
  <2>2. DOMAIN st = PageFields /\ st.last = p.last
    BY <2>1, StoppedFacts DEF Shaped
  <2> QED
    BY <2>1, <2>2 DEF Refreshing, Freed, Plus, PageFields
<1> QED
  BY <1>1, <1>2, <1>3, <1>4, <1>5

LEMMA RenderedLast ==
  ASSUME NEW p, Shaped(p), NEW focused PROVE Rendered(p, focused).last = p.last
<1>1. PICK q : q = Rendered(p, focused)
  OBVIOUS
<1>2. Reprices(p, q)
  BY <1>1, RenderedFacts
<1> QED
  BY <1>1, <1>2, RepricesFields

LEMMA SelectLast ==
  ASSUME NEW p, Shaped(p), NEW mode, NEW s PROVE SelectAsset(p, mode, s).last = p.last
<1>1. PICK m : m = [p EXCEPT !.mode = mode, !.selected = s]
  OBVIOUS
<1>2. Shaped(m) /\ m.last = p.last
  BY <1>1 DEF Shaped, PageFields
<1>3. PICK v : v = Repanelled(m, None)
  OBVIOUS
<1>4. Shaped(v) /\ v.last = p.last
  BY <1>2, <1>3, RepanelledFacts, RepricesFields
<1>5. PICK w : w = [v EXCEPT !.calls = {c \in @ : c.phase # "wait"}]
  OBVIOUS
<1>6. Shaped(w) /\ w.last = p.last
  BY <1>4, <1>5, WaitsDropped, RepricesFields
<1>7. PICK r : r = IF Selected(m) = Selected(p) THEN m ELSE w
  OBVIOUS
<1>8. SelectAsset(p, mode, s) = IF r.last = None THEN r ELSE Rendered(r, FALSE)
  BY <1>1, <1>3, <1>5, <1>7 DEF SelectAsset
<1>9. Shaped(r) /\ r.last = p.last
  BY <1>2, <1>6, <1>7
<1> QED
  BY <1>8, <1>9, RenderedLast

LEMMA PersonLast == ASSUME PageInv, Person PROVE page'.last = page.last \/ page'.last = None
<1>1. Shaped(page)
  BY DEF PageInv, Sound
<1>2. ASSUME NEW a \in Accounts, SignIn(a) PROVE page'.last = page.last
  BY <1>1, <1>2, LastStays DEF SignIn, Act
<1>3. CASE SignOut
  <2>1. PICK f : f = Forgotten(page)
    OBVIOUS
  <2>2. page' = Stopped(f)
    BY <1>3, <2>1 DEF SignOut, Act
  <2>3. DOMAIN f = PageFields /\ f.last = None
    BY <2>1 DEF Forgotten, Blank, PageFields
  <2>4. f.last = None => Stopped(f).last = None
    BY <2>3 DEF Stopped, Voided, PageFields
  <2> QED
    BY <2>2, <2>3, <2>4
<1>4. CASE UserRefresh
  BY <1>1, <1>4, LastStays DEF UserRefresh, OnPage, Input, Act
<1>5. CASE ChooseMode
  <2>1. PICK v : v = Voided(page, {"sellquote"})
    OBVIOUS
  <2>2. PICK q : q = [v EXCEPT !.sellRoutes = None]
    OBVIOUS
  <2>3. Shaped(v) /\ v.last = page.last
    BY <1>1, <2>1, QuotesVoided, RepricesFields DEF Quotes
  <2>4. Shaped(q) /\ q.last = page.last
    BY <2>2, <2>3 DEF Shaped, PageFields
  <2>5. page' = SelectAsset(q, IF page.mode = "buy" THEN "sell" ELSE "buy", None)
    BY <1>5, <2>1, <2>2 DEF ChooseMode, OnPage, Input, Act
  <2> QED
    BY <2>4, <2>5, SelectLast
<1>6. ASSUME NEW s, OpenAsset(s) PROVE page'.last = page.last
  BY <1>1, <1>6, SelectLast DEF OpenAsset, OnPage, Input, Act
<1>7. ASSUME NEW x, Type(x) PROVE page'.last = page.last
  <2>1. PICK m : m = [page EXCEPT !.panel.box = x]
    OBVIOUS
  <2>2. Shaped(m) /\ m.last = page.last
    BY <1>1, <2>1 DEF Shaped, PageFields
  <2>3. page' = Requoted(m)
    BY <1>7, <2>1 DEF Type, OnPage, Input, Act
  <2> QED
    BY <2>2, <2>3, LastStays
<1>8. ASSUME NEW x, SellType(x) PROVE page'.last = page.last
  BY <1>1, <1>8, LastStays DEF SellType, OnPage, Input, Act, Boxed
<1>9. ASSUME NEW x, SellQuote(x) PROVE page'.last = page.last
  <2>1. PICK b : b = Boxed(page, x)
    OBVIOUS
  <2>2. b.last = page.last /\ DOMAIN b = PageFields
    <3>1. Shaped(Voided(page, {"sellquote"}))
      BY <1>1, VoidedFacts
    <3> QED
      BY <1>1, <2>1, <3>1, LastStays DEF Boxed, Shaped
  <2>3. page' = Free(b, "sellquote", "ask", [amount |-> x])
    BY <1>9, <2>1 DEF SellQuote, OnPage, Input, Act, Boxed
  <2> QED
    BY <2>2, <2>3 DEF Free, Plus, PageFields
<1>10. ASSUME NEW kind, NEW phase, NEW what
       PROVE  /\ Busy(kind, phase, what).last = page.last
              /\ Working(page, kind, phase, what).last = page.last
              /\ Free(page, kind, phase, what).last = page.last
  BY <1>1 DEF Busy, Working, Free, Plus, Shaped, PageFields
<1>11. CASE StartSwap \/ RetryOrReset \/ ReviewRecovery \/ Land
  BY <1>10, <1>11 DEF StartSwap, RetryOrReset, ReviewRecovery, Land, OnPage, Input, Act
<1>12. CASE SellReview \/ Confirm \/ Tap \/ RetryOrCancel
  BY <1>10, <1>12 DEF SellReview, Confirm, Tap, RetryOrCancel, OnPage, Input, Act
<1>13. ASSUME NEW max, Preview(max) PROVE page'.last = page.last
  BY <1>1, <1>13 DEF Preview, Input, Act, Working, Plus, Shaped, PageFields
<1>14. CASE OpenWithdraw \/ CloseDialog \/ \E x \in 0..MaxAmount : Fill(x)
  BY <1>1, <1>14 DEF OpenWithdraw, CloseDialog, Fill, OnPage, Input, Act, Shaped, PageFields
<1> QED
  BY <1>2, <1>3, <1>4, <1>5, <1>6, <1>7, <1>8, <1>9, <1>11, <1>12, <1>13, <1>14 DEF Person

LEMMA GrantedLast == ASSUME PageInv, NEW c \in page.calls, Grant(c) PROVE page'.last = page.last
<1>1. Shaped(page)
  BY DEF PageInv, Sound
<1>2. PICK r : r = Done(page, c)
  OBVIOUS
<1>3. DOMAIN r = PageFields /\ r.last = page.last
  BY <1>1, <1>2, DoneFacts DEF Shaped
<1>4. PICK q : q = Granted(c)
  OBVIOUS
<1>5. DOMAIN q = PageFields /\ q.last = page.last
  BY <1>2, <1>3, <1>4 DEF Granted, Plus, PageFields
<1>6. page' = q \/ page' = Freed(q, c.frees)
  BY <1>4 DEF Grant, Becomes
<1> QED
  BY <1>5, <1>6 DEF Freed, PageFields

LEMMA CallLast ==
  ASSUME PageInv, NEW c \in page.calls,
         \/ PriceDue(c) \/ Prompt(c) \/ StatusRead(c) \/ Refuse(c) \/ Write(c) \/ Written(c)
         \/ WriteLost(c)
  PROVE  page'.last = page.last
<1>1. PICK r : r = Done(page, c)
  OBVIOUS
<1>2. Shaped(r) /\ r.last = page.last
  <2>1. Sound(r, account, cred, job, c.frees)
    BY <1>1, DoneSound DEF PageInv
  <2> QED
    BY <1>1, <2>1, LastStays DEF PageInv, Sound
<1>3. ASSUME NEW d PROVE Turns(c, d).last = page.last
  BY <1>1, <1>2, LastStays DEF Turns
<1>4. CASE PriceDue(c) \/ StatusRead(c) \/ Write(c) \/ WriteLost(c)
  BY <1>1, <1>2, <1>3, <1>4 DEF PriceDue, StatusRead, Write, WriteLost, Becomes
<1>5. CASE Released(c)
  BY <1>1, <1>2, <1>5, LastStays DEF Released, Becomes
<1>6. CASE Refused(c)
  <2>1. CASE Becomes(Refreshing(r, cred, c.frees))
    BY <1>2, <2>1, LastStays DEF Becomes
  <2>2. ASSUME NEW p \in {r, Requoted(r)}, Becomes(Freed(p, c.frees)) PROVE page'.last = page.last
    <3>1. Shaped(p) /\ p.last = page.last
      BY <1>2, <2>2, RequotedFacts, RepricesFields
    <3> QED
      BY <2>2, <3>1, LastStays DEF Becomes
  <2> QED
    BY <1>1, <1>5, <1>6, <2>1, <2>2 DEF Refused
<1>7. CASE Prompt(c)
  BY <1>3, <1>5, <1>7 DEF Prompt, Becomes
<1>8. CASE Refuse(c)
  BY <1>5, <1>6, <1>8 DEF Refuse
<1>9. CASE Becomes(Ends(c))
  <2>1. PICK s : s = IF c.kind = "approve" THEN [r EXCEPT !.dialog = None, !.review = None] ELSE r
    OBVIOUS
  <2>2. Shaped(s) /\ s.last = page.last
    BY <1>2, <2>1 DEF Shaped, PageFields
  <2>3. page' = Refreshing(s, cred, c.frees)
    BY <1>1, <1>9, <2>1 DEF Ends, Becomes
  <2> QED
    BY <2>2, <2>3, LastStays
<1>10. CASE Written(c)
  BY <1>6, <1>9, <1>10 DEF Written
<1> QED
  BY <1>4, <1>7, <1>8, <1>10

\* A status that is heeded was asked for after the one on screen.
LEMMA ToldLast ==
  ASSUME PageInv, NEW c \in page.calls, Refreshed(c) \/ RefreshFailed(c), page.last # None,
         page'.last # None, page.last.who = page'.last.who
  PROVE  page'.last.n >= page.last.n
<1>1. Sound(page, account, cred, job, "none") /\ Forwards(page, cred, job)
  BY DEF PageInv, Sound
<1>2. c.kind = "status" /\ ~c.void /\ c \in Heard(page, {"status"})
  BY DEF Refreshed, RefreshFailed, Wanted, Heard
<1>3. ASSUME NEW st, NEW focused, page' = Told(c, st, focused) PROVE page'.last = st
  <2>1. PICK d : d = [Done(page, c) EXCEPT !.last = st]
    OBVIOUS
  <2>2. Shaped(d) /\ d.last = st
    BY <1>1, <2>1 DEF Sound, Shaped, Done, PageFields
  <2>3. PICK r : r = Rendered(d, focused)
    OBVIOUS
  <2>4. Shaped(r) /\ r.last = st
    BY <2>2, <2>3, RenderedFacts, RepricesFields
  <2>5. PICK t : t = [r EXCEPT !.timer = TRUE]
    OBVIOUS
  <2>6. Shaped(t) /\ t.last = st
    BY <2>4, <2>5 DEF Shaped, PageFields
  <2>7. page' = Freed(t, c.frees)
    BY <1>3, <2>1, <2>3, <2>5 DEF Told
  <2> QED
    BY <2>6, <2>7, LastStays
<1>4. CASE Refreshed(c)
  <2>1. PICK from \in {c.what.spend, spend[c.who]}, focused \in BOOLEAN :
          page' = Told(c, Status(c, from), focused)
    BY <1>4 DEF Refreshed, Becomes
  <2>2. page'.last = Status(c, from)
    BY <1>3, <2>1
  <2>3. page'.last.who = c.who /\ page'.last.n = c.what.n
    BY <2>2 DEF Status
  <2>4. page.last.n <= c.what.n /\ c.what.n \in Nat /\ page.last.n \in Nat
    BY <1>1, <1>2, <1>4, <2>3 DEF Forwards, Refreshed, Wanted
  <2> QED
    BY <2>3, <2>4
<1>5. CASE RefreshFailed(c)
  <2>1. PICK focused \in BOOLEAN : page' = Told(c, [page.last EXCEPT !.live = FALSE], focused)
    BY <1>5 DEF RefreshFailed
  <2>2. page'.last = [page.last EXCEPT !.live = FALSE]
    BY <1>3, <2>1
  <2>3. page'.last.n = page.last.n /\ page.last.n \in Nat
    BY <1>1, <2>2 DEF Forwards
  <2> QED
    BY <2>3
<1> QED
  BY <1>4, <1>5

\* However the answers to refresh() overtake each other (GEN), the job on screen is never
\* replaced by an earlier state of it.
THEOREM ForwardHolds == ASSUME Apart PROVE PageSpec => OnlyForward
<1> DEFINE Later == page.last # None /\ page'.last # None /\ page.last.who = page'.last.who
                      => page'.last.n >= page.last.n
<1>1. ASSUME PageInv, [PageNext]_pageVars PROVE Later
  <2>1. page.last # None => page.last.n \in Nat
    BY <1>1 DEF PageInv, Sound, Forwards
  <2>2. ASSUME page'.last = page.last \/ page'.last = None PROVE Later
    BY <2>1, <2>2
  <2>3. CASE Person
    BY <1>1, <2>2, <2>3, PersonLast
  <2>4. ASSUME NEW c \in page.calls, Refreshed(c) \/ RefreshFailed(c) PROVE Later
    BY <1>1, <2>4, ToldLast
  <2>5. ASSUME NEW c \in page.calls, Grant(c) PROVE Later
    BY <1>1, <2>2, <2>5, GrantedLast
  <2>6. ASSUME NEW c \in page.calls,
               \/ PriceDue(c) \/ Prompt(c) \/ StatusRead(c) \/ Refuse(c) \/ Write(c) \/ Written(c)
               \/ WriteLost(c)
        PROVE  Later
    BY <1>1, <2>2, <2>6, CallLast
  <2>7. CASE Poll
    <3>1. page'.last = page.last
      BY <1>1, <2>7, LastStays DEF Poll, Becomes, PageInv, Sound
    <3> QED
      BY <2>2, <3>1
  <2>8. CASE (\E a \in Accounts : JobMoves(a)) \/ (\E s \in Assets : Deposit(s))
             \/ UNCHANGED pageVars
    <3>1. page' = page
      BY <2>8 DEF JobMoves, Deposit, pageVars
    <3> QED
      BY <2>2, <3>1
  <2> QED
    BY <1>1, <2>3, <2>4, <2>5, <2>6, <2>7, <2>8 DEF PageNext, Advance
<1>2. PageInv /\ [PageNext]_pageVars => [Later]_pageVars
  BY <1>1
<1>3. PageSpec => [][Later]_pageVars
  BY <1>2, PageHolds, PTL DEF PageSpec
<1> QED
  BY <1>3 DEF OnlyForward

-----------------------------------------------------------------------------
(***************************************************************************)
(* The sends.                                                               *)
(***************************************************************************)
\* Transactions whose handler runs, that a block holds, of any fork or of the chain, that
\* people were told of, in any way or that they failed; all.
Handled == {w.tx : w \in work}
Included == {b.tx : b \in blocks}
OnChain == {b.tx : b \in Mined}
Spoken == {a.tx : a \in told}
Failed == {a.tx : a \in {c \in told : c.said = "failed"}}
Txs == known \cup Handled \cup pool \cup Included \cup Spoken

\* What can still move something, or has, or would if its block were taken back; short
\* of what people were told has failed.
Live == known \cup Handled \cup pool \cup Landed \cup (OnChain \ Failed)

Lost(f) == \E a \in told : a.tx.form = f /\ Open(a)

Typed ==
  /\ ui \in [Forms -> [at : {"filled", "signing", "submitting", "cleared"}, try : Nat]]
  /\ \A w \in work : /\ w.at \in {"checking", "queued", "waits"}
                     /\ w = [tx |-> w.tx, at |-> w.at]
  /\ \A b \in blocks : b = [tx |-> b.tx, ok |-> b.ok, canonical |-> b.canonical]
  /\ recalled \subseteq Included

\* Every transaction is of a try of a form, and one try has one transaction.
OneOfTry ==
  /\ \A t \in Txs : t.form \in Forms /\ t.try \in Nat /\ t.try <= ui[t.form].try
  /\ \A t, u \in Txs : t.form = u.form /\ t.try = u.try => t = u

\* A transaction is prepared, then handled by one handler, and sent at most once.
SentOnce ==
  /\ known \cap (Handled \cup pool \cup Included \cup Spoken) = {}
  /\ \A v, w \in work : v.tx = w.tx => v = w
  /\ \A w \in work : w.at \in {"checking", "queued"} => w.tx \notin pool \cup Included
  /\ \A b \in blocks : b.canonical => b.tx \notin pool
  /\ \A b, c \in blocks : b.canonical /\ c.canonical /\ b.tx = c.tx => b = c

Truth ==
  /\ \A a \in told : /\ a.said = "sent" => a.tx \in Landed \cup recalled
                     /\ a.said = "failed" => a.tx \notin Live \ recalled
  /\ held \subseteq {t.form : t \in Landed \cup recalled}

\* Of a form only the latest try can be alive, and what the page shows is how far it came.
LatestOf(f) ==
  /\ \A t \in Live : t.form = f => t.try = ui[f].try /\ ui[f].at # "filled"
  /\ ui[f].at = "signing" => \A t \in Live :
       t.form = f => t \notin Handled \cup pool \cup OnChain
  /\ ui[f].at = "submitting" => \E w \in work : Current(f, w.tx)
  /\ \A w \in work : w.tx.form = f => ui[f].at = "submitting"

LatestOnly == \A f \in Forms : ~Lost(f) => LatestOf(f)

SendsInv == Typed /\ OneOfTry /\ SentOnce /\ Truth /\ LatestOnly

Shown == {"filled", "signing", "submitting", "cleared"}

-----------------------------------------------------------------------------
(* The sets of transactions, and the page. *)

LEMMA InitHolds == Init => SendsInv
<1> SUFFICES ASSUME Init PROVE SendsInv
  OBVIOUS
<1>1. Typed
  BY DEF Init, Typed
<1>2. Handled = {} /\ Included = {} /\ Spoken = {} /\ Landed = {} /\ known = {} /\ pool = {}
      /\ work = {} /\ blocks = {} /\ told = {} /\ held = {} /\ OnChain = {}
  BY DEF Init, Handled, Included, Spoken, Landed, Mined, OnChain
<1>3. Txs = {} /\ Live = {}
  BY <1>2 DEF Txs, Live
<1>4. OneOfTry
  BY <1>3 DEF OneOfTry
<1>5. SentOnce /\ Truth
  BY <1>2 DEF SentOnce, Truth
<1>6. LatestOnly
  BY <1>2, <1>3 DEF LatestOnly, LatestOf, Init
<1> QED
  BY <1>1, <1>4, <1>5, <1>6 DEF SendsInv

LEMMA InLanded ==
  ASSUME NEW t
  PROVE  t \in Landed <=> \E b \in blocks : b.tx = t /\ b.canonical /\ b.ok
  BY DEF Landed, Mined

LEMMA LandedIncluded == Landed \subseteq OnChain /\ OnChain \subseteq Included
  BY DEF Landed, OnChain, Mined, Included

LEMMA LiveAreTxs == Live \subseteq Txs
  BY LandedIncluded DEF Live, Txs

\* What Say does to the page: one form shows something else.
LEMMA SayFacts ==
  ASSUME Typed, NEW f \in Forms, NEW at \in Shown, Say(f, at)
  PROVE  /\ ui' \in [Forms -> [at : Shown, try : Nat]]
         /\ ui'[f].at = at
         /\ \A g \in Forms : ui'[g].try = ui[g].try /\ (g # f => ui'[g].at = ui[g].at)
<1>1. ui \in [Forms -> [at : Shown, try : Nat]]
  BY DEF Typed, Shown
<1>2. PICK u : u = [ui[f] EXCEPT !.at = at]
  OBVIOUS
<1>3. u \in [at : Shown, try : Nat] /\ u.at = at /\ u.try = ui[f].try
  BY <1>1, <1>2
<1>4. ui' = [ui EXCEPT ![f] = u]
  BY <1>1, <1>2 DEF Say
<1> QED
  BY <1>1, <1>3, <1>4

\* No new transactions and no new tries.
LEMMA OneOfTryStays ==
  ASSUME OneOfTry, Txs' \subseteq Txs, \A f \in Forms : ui'[f].try = ui[f].try
  PROVE  OneOfTry'
  BY DEF OneOfTry

\* What was said stays true as long as nothing comes back to life.
LEMMA TruthStays ==
  ASSUME Truth, Live' \subseteq Live, Landed \subseteq Landed', UNCHANGED <<told, held, recalled>>
  PROVE  Truth'
  BY DEF Truth

-----------------------------------------------------------------------------
(* The page. *)

LEMMA PreparesKeeps ==
  ASSUME SendsInv, NEW f \in Forms, Prepares(f) PROVE SendsInv'
<1> USE DEF SendsInv
<1>1. ui \in [Forms -> [at : Shown, try : Nat]]
  BY DEF Typed, Shown
<1>2. PICK n : known' = known \cup {[form |-> f, try |-> ui[f].try + 1, nonce |-> n]}
  BY DEF Prepares
<1>3. PICK i \in Nat : i = ui[f].try + 1 /\ i > ui[f].try
  BY <1>1
<1>4. PICK new : new = [form |-> f, try |-> i, nonce |-> n]
  OBVIOUS
<1>5. known' = known \cup {new} /\ new.form = f /\ new.try = i
  BY <1>2, <1>3, <1>4
<1>6. ui' = [ui EXCEPT ![f] = [at |-> "signing", try |-> i]]
  BY <1>1, <1>3 DEF Prepares
<1>7. ui' \in [Forms -> [at : Shown, try : Nat]] /\ ui'[f].try = i /\ ui'[f].at = "signing"
      /\ \A g \in Forms : g # f => ui'[g] = ui[g]
  BY <1>1, <1>6 DEF Shown
<1>8. UNCHANGED <<told, work, held, pool, blocks, recalled>> /\ ui[f].at = "filled"
  BY DEF Prepares, koinos
<1>9. Handled' = Handled /\ Included' = Included /\ Spoken' = Spoken /\ Landed' = Landed
      /\ OnChain' = OnChain /\ Failed' = Failed
  BY <1>8 DEF Handled, Included, Spoken, Landed, Mined, OnChain, Failed
<1>10. Txs' = Txs \cup {new} /\ Live' = Live \cup {new}
  BY <1>5, <1>8, <1>9 DEF Txs, Live
<1>11. \A t \in Txs : t.form = f => t.try < i
  BY <1>1, <1>3 DEF OneOfTry
<1>12. new \notin Txs
  BY <1>3, <1>5, <1>11
<1>13. OneOfTry'
  <2>1. ASSUME NEW t \in Txs' PROVE t.form \in Forms /\ t.try \in Nat /\ t.try <= ui'[t.form].try
    <3>1. CASE t = new
      BY <1>3, <1>5, <1>7, <3>1
    <3>2. CASE t \in Txs /\ t.form = f
      BY <1>3, <1>7, <1>11, <3>2 DEF OneOfTry
    <3>3. CASE t \in Txs /\ t.form # f
      BY <1>7, <3>3 DEF OneOfTry
    <3> QED
      BY <1>10, <3>1, <3>2, <3>3
  <2>2. ASSUME NEW t \in Txs', NEW u \in Txs', t.form = u.form, t.try = u.try PROVE t = u
    BY <1>3, <1>5, <1>10, <1>11, <2>2 DEF OneOfTry
  <2> QED
    BY <2>1, <2>2 DEF OneOfTry
<1>14. SentOnce'
  <2>1. known' \cap (Handled' \cup pool' \cup Included' \cup Spoken') = {}
    BY <1>5, <1>8, <1>9, <1>12 DEF SentOnce, Txs
  <2> QED
    BY <1>8, <1>9, <2>1 DEF SentOnce
<1>15. Truth'
  <2>1. \A a \in told : a.tx # new
    BY <1>12 DEF Txs, Spoken
  <2> QED
    BY <1>8, <1>9, <1>10, <2>1 DEF Truth
<1>16. ASSUME NEW g \in Forms, ~Lost(g)' PROVE LatestOf(g)'
  <2>1. LatestOf(g)
    BY <1>8, <1>16 DEF LatestOnly, Lost, Open
  <2>2. CASE g # f
    BY <1>5, <1>7, <1>8, <1>9, <1>10, <2>1, <2>2 DEF LatestOf, Current
  <2>3. CASE g = f
    <3>1. \A t \in Live : t.form # f
      BY <1>8, <2>1, <2>3 DEF LatestOf
    <3>2. \A t \in Live' : t.form = f => t = new
      BY <1>10, <3>1
    <3>3. new \notin Handled' \cup pool' \cup OnChain'
      BY <1>8, <1>9, <1>12, LandedIncluded DEF Txs
    <3>4. \A w \in work' : w.tx.form # f
      BY <1>8, <3>1 DEF Live, Handled
    <3> QED
      BY <1>5, <1>7, <2>3, <3>2, <3>3, <3>4 DEF LatestOf
  <2> QED
    BY <2>2, <2>3
<1>17. Typed'
  BY <1>7, <1>8, <1>9 DEF Typed, Shown
<1>18. LatestOnly'
  BY <1>16 DEF LatestOnly
<1> QED
  BY <1>13, <1>14, <1>15, <1>17, <1>18

\* Something is forgotten, or a node loses it: nothing else changes.
LEMMA ForgettingKeeps ==
  ASSUME SendsInv, known' \subseteq known, pool' \subseteq pool,
         UNCHANGED <<ui, told, work, held, blocks, recalled>>
  PROVE  SendsInv'
<1> USE DEF SendsInv
<1>1. Handled' = Handled /\ Included' = Included /\ Spoken' = Spoken /\ Landed' = Landed
      /\ OnChain' = OnChain /\ Failed' = Failed
  BY DEF Handled, Included, Spoken, Landed, Mined, OnChain, Failed
<1>2. Txs' \subseteq Txs /\ Live' \subseteq Live
  BY <1>1 DEF Txs, Live
<1>3. Typed' /\ OneOfTry' /\ Truth'
  BY <1>1, <1>2, OneOfTryStays, TruthStays DEF Typed
<1>4. SentOnce'
  BY <1>1 DEF SentOnce
<1>5. LatestOnly'
  BY <1>1, <1>2 DEF LatestOnly, LatestOf, Lost, Open, Current
<1> QED
  BY <1>3, <1>4, <1>5

\* The prompt is closed: a try that was only prepared is given up.
LEMMA DeclinesKeeps ==
  ASSUME SendsInv, NEW f \in Forms, Declines(f) PROVE SendsInv'
<1> USE DEF SendsInv
<1>1. ui' \in [Forms -> [at : Shown, try : Nat]] /\ ui'[f].at = "filled" /\ ui[f].at = "signing"
      /\ \A g \in Forms : ui'[g].try = ui[g].try /\ (g # f => ui'[g].at = ui[g].at)
  BY SayFacts DEF Declines, Shown
<1>2. known' = {t \in known : ~Current(f, t)} /\ UNCHANGED <<told, work, held, pool, blocks, recalled>>
  BY DEF Declines, koinos
<1>3. Handled' = Handled /\ Included' = Included /\ Spoken' = Spoken /\ Landed' = Landed
      /\ OnChain' = OnChain /\ Failed' = Failed
  BY <1>2 DEF Handled, Included, Spoken, Landed, Mined, OnChain, Failed
<1>4. Txs' \subseteq Txs /\ Live' \subseteq Live /\ known' \subseteq known
  BY <1>2, <1>3 DEF Txs, Live
<1>5. Typed' /\ OneOfTry' /\ Truth'
  BY <1>1, <1>2, <1>3, <1>4, OneOfTryStays, TruthStays DEF Typed, Shown
<1>6. SentOnce'
  BY <1>2, <1>3, <1>4 DEF SentOnce
<1>7. ASSUME NEW g \in Forms, ~Lost(g)' PROVE LatestOf(g)'
  <2>1. LatestOf(g)
    BY <1>2, <1>7 DEF LatestOnly, Lost, Open
  <2>2. CASE g # f
    BY <1>1, <1>2, <1>3, <1>4, <2>1, <2>2 DEF LatestOf, Current
  <2>3. CASE g = f
    <3>1. ASSUME NEW t \in Live', t.form = f PROVE FALSE
      <4>1. t \in Live /\ t.try = ui[f].try /\ t \notin Handled \cup pool \cup OnChain
        BY <1>1, <1>4, <2>1, <2>3, <3>1 DEF LatestOf
      <4>2. t \notin known'
        BY <1>2, <3>1, <4>1 DEF Current
      <4> QED
        BY <1>2, <1>3, <3>1, <4>1, <4>2, LandedIncluded DEF Live
    <3>2. \A w \in work' : w.tx.form # f
      BY <1>3, <3>1 DEF Live, Handled
    <3> QED
      BY <1>1, <2>3, <3>1, <3>2 DEF LatestOf
  <2> QED
    BY <2>2, <2>3
<1>8. LatestOnly'
  BY <1>7 DEF LatestOnly
<1> QED
  BY <1>5, <1>6, <1>8

\* The signed transaction is forgotten and gets its handler.
LEMMA SubmitKeeps ==
  ASSUME SendsInv, NEW f \in Forms, Submit(f) PROVE SendsInv'
<1> USE DEF SendsInv
<1>1. ui' \in [Forms -> [at : Shown, try : Nat]] /\ ui'[f].at = "submitting"
      /\ ui[f].at = "signing"
      /\ \A g \in Forms : ui'[g].try = ui[g].try /\ (g # f => ui'[g].at = ui[g].at)
  BY SayFacts DEF Submit, Shown
<1>2. PICK t \in known : /\ Current(f, t) /\ known' = known \ {t}
                         /\ work' = work \cup {[tx |-> t, at |-> "checking"]}
  BY DEF Submit
<1>3. PICK w : w = [tx |-> t, at |-> "checking"]
  OBVIOUS
<1>4. work' = work \cup {w} /\ w.tx = t /\ w.at = "checking"
  BY <1>2, <1>3
<1>5. UNCHANGED <<told, held, pool, blocks, recalled>>
  BY DEF Submit, koinos
<1>6. /\ Handled' = Handled \cup {t} /\ Included' = Included /\ Spoken' = Spoken
      /\ Landed' = Landed /\ OnChain' = OnChain /\ Failed' = Failed
  BY <1>4, <1>5 DEF Handled, Included, Spoken, Landed, Mined, OnChain, Failed
<1>7. Txs' \subseteq Txs /\ Live' \subseteq Live
  BY <1>2, <1>5, <1>6 DEF Txs, Live
<1>8. Typed' /\ OneOfTry' /\ Truth'
  BY <1>1, <1>3, <1>4, <1>5, <1>6, <1>7, OneOfTryStays, TruthStays DEF Typed, Shown
<1>9. t \notin Handled \cup pool \cup Included \cup Spoken
  BY <1>2 DEF SentOnce
<1>10. SentOnce'
  <2>1. known' \cap (Handled' \cup pool' \cup Included' \cup Spoken') = {}
    BY <1>2, <1>5, <1>6 DEF SentOnce
  <2>2. \A u, v \in work' : u.tx = v.tx => u = v
    BY <1>4, <1>9 DEF SentOnce, Handled
  <2>3. \A v \in work' : v.at \in {"checking", "queued"} => v.tx \notin pool' \cup Included'
    BY <1>4, <1>5, <1>6, <1>9 DEF SentOnce
  <2> QED
    BY <1>5, <2>1, <2>2, <2>3 DEF SentOnce
<1>11. ASSUME NEW g \in Forms, ~Lost(g)' PROVE LatestOf(g)'
  <2>1. LatestOf(g)
    BY <1>5, <1>11 DEF LatestOnly, Lost, Open
  <2>2. CASE g # f
    <3>1. t.form # g
      BY <1>2, <2>2 DEF Current
    <3>2. \A v \in work' : v.tx.form = g => v \in work
      BY <1>4, <3>1
    <3>3. ui[g].at = "submitting" => \E v \in work' : Current(g, v.tx)'
      BY <1>1, <1>4, <2>1 DEF LatestOf, Current
    <3>4. \A v \in Live' : v.form = g => v.try = ui'[g].try /\ ui'[g].at # "filled"
      BY <1>1, <1>7, <2>1, <2>2 DEF LatestOf
    <3>5. ui[g].at = "signing" =>
            \A v \in Live' : v.form = g => v \notin Handled' \cup pool' \cup OnChain'
      BY <1>5, <1>6, <1>7, <2>1, <3>1 DEF LatestOf
    <3> QED
      BY <1>1, <2>1, <2>2, <3>2, <3>3, <3>4, <3>5 DEF LatestOf
  <2>3. CASE g = f
    <3>1. Current(f, t)' /\ t = w.tx
      BY <1>1, <1>2, <1>4 DEF Current
    <3>2. \A v \in Live' : v.form = f => v.try = ui'[f].try
      BY <1>1, <1>7, <2>1, <2>3 DEF LatestOf
    <3> QED
      BY <1>1, <1>4, <2>3, <3>1, <3>2 DEF LatestOf
  <2> QED
    BY <2>2, <2>3
<1>12. LatestOnly'
  BY <1>11 DEF LatestOnly
<1> QED
  BY <1>8, <1>10, <1>12

\* The page is told nothing: for this form, PaidOnce promises no more.
LEMMA LosesAnswerKeeps ==
  ASSUME SendsInv, NEW f \in Forms, LosesAnswer(f) PROVE SendsInv'
<1> USE DEF SendsInv
<1>1. ui' \in [Forms -> [at : Shown, try : Nat]]
      /\ \A g \in Forms : ui'[g].try = ui[g].try /\ (g # f => ui'[g].at = ui[g].at)
  BY SayFacts DEF LosesAnswer, Shown
<1>2. PICK w \in work : Current(f, w.tx) /\ told' = told \cup {[tx |-> w.tx, said |-> "lost"]}
  BY DEF LosesAnswer
<1>3. PICK a : a = [tx |-> w.tx, said |-> "lost"]
  OBVIOUS
<1>4. told' = told \cup {a} /\ a.tx = w.tx /\ a.said = "lost" /\ w.tx.form = f
  BY <1>2, <1>3 DEF Current
<1>5. UNCHANGED <<known, work, held, pool, blocks, recalled>>
  BY DEF LosesAnswer, server, koinos
<1>6. Handled' = Handled /\ Included' = Included /\ Landed' = Landed
      /\ OnChain' = OnChain /\ Failed' = Failed /\ Spoken' = Spoken \cup {w.tx} /\ w.tx \in Handled
  BY <1>4, <1>5 DEF Handled, Included, Spoken, Landed, Mined, OnChain, Failed
<1>7. Txs' \subseteq Txs /\ Live' = Live
  BY <1>5, <1>6 DEF Txs, Live
<1>8. Typed' /\ OneOfTry'
  BY <1>1, <1>5, <1>6, <1>7, OneOfTryStays DEF Typed, Shown
<1>9. SentOnce'
  BY <1>5, <1>6 DEF SentOnce
<1>10. Truth'
  BY <1>4, <1>5, <1>6, <1>7 DEF Truth
<1>11. ASSUME NEW g \in Forms, ~Lost(g)' PROVE LatestOf(g)'
  <2>1. g # f /\ LatestOf(g)
    BY <1>4, <1>5, <1>11 DEF LatestOnly, Lost, Open
  <2> QED
    BY <1>1, <1>5, <1>6, <1>7, <2>1 DEF LatestOf, Current
<1>12. LatestOnly'
  BY <1>11 DEF LatestOnly
<1> QED
  BY <1>8, <1>9, <1>10, <1>12

LEMMA SignsInKeeps ==
  ASSUME SendsInv, NEW f \in Forms, SignsIn(f) PROVE SendsInv'
<1> USE DEF SendsInv
<1>1. UNCHANGED <<ui, told, known, work, pool, blocks, recalled>> /\ held' = held \cup {f}
      /\ f \in {t.form : t \in Landed}
  BY DEF SignsIn, koinos
<1>2. Handled' = Handled /\ Included' = Included /\ Spoken' = Spoken /\ Landed' = Landed
      /\ OnChain' = OnChain /\ Failed' = Failed
  BY <1>1 DEF Handled, Included, Spoken, Landed, Mined, OnChain, Failed
<1>3. Txs' = Txs /\ Live' = Live
  BY <1>1, <1>2 DEF Txs, Live
<1>4. Typed' /\ OneOfTry' /\ SentOnce' /\ Truth'
  BY <1>1, <1>2, <1>3 DEF Typed, OneOfTry, SentOnce, Truth
<1>5. LatestOnly'
  BY <1>1, <1>2, <1>3 DEF LatestOnly, LatestOf, Lost, Open, Current
<1> QED
  BY <1>4, <1>5

-----------------------------------------------------------------------------
(* The handler of /submit. *)

\* A handler answers: "sent" of a transaction that landed, "failed" of one that is neither
\* waiting nor landed, "foretold" of one that a node may just have taken.  Of a form whose
\* failures are final it is the latest try, and the only one alive.
LEMMA AnswerKeeps ==
  ASSUME SendsInv, NEW w \in work, NEW said \in {"sent", "failed", "foretold", "pending"},
         Answer(w, said),
         said = "sent" => w.tx \in Landed,
         said = "failed" => w.tx \notin pool \cup Landed,
         UNCHANGED <<known, blocks, recalled>>,
         \/ pool' = pool
         \/ said = "foretold" /\ w.at = "queued" /\ pool' = pool \cup {w.tx}
  PROVE  SendsInv'
<1> USE DEF SendsInv
<1>1. PICK f : f = w.tx.form
  OBVIOUS
<1>2. w.tx \in Handled /\ w.tx \in Txs /\ w.tx \in Live /\ f \in Forms
  BY <1>1 DEF Handled, Txs, Live, OneOfTry
<1>3. work' = work \ {w} /\ held' \in {held, held \cup {f}} /\ (held' # held => said = "sent")
  BY <1>1 DEF Answer
<1>4. Included' = Included /\ Landed' = Landed /\ OnChain' = OnChain
  BY DEF Included, Landed, OnChain, Mined
<1>5. Handled' = Handled \ {w.tx}
  BY <1>3 DEF Handled, SentOnce
<1>6. \/ /\ ui[f].at = "submitting" /\ Current(f, w.tx) /\ Say(f, Shows(said))
         /\ told' = told \cup {[tx |-> w.tx, said |-> said]}
      \/ /\ ~(ui[f].at = "submitting" /\ Current(f, w.tx))
         /\ UNCHANGED <<ui, told>>
  BY <1>1 DEF Answer
<1>7. Shows(said) \in Shown /\ (Shows(said) = "filled" <=> said \in {"failed", "foretold"})
      /\ Shows(said) \in {"filled", "cleared"}
  BY DEF Shows, Shown
<1>8. ui' \in [Forms -> [at : Shown, try : Nat]]
      /\ \A g \in Forms : ui'[g].try = ui[g].try /\ (g # f => ui'[g].at = ui[g].at)
  BY <1>2, <1>6, <1>7, SayFacts DEF Typed, Shown
<1>9. PICK a : a = [tx |-> w.tx, said |-> said]
  OBVIOUS
<1>10. a.tx = w.tx /\ a.said = said /\ told \subseteq told' /\ told' \subseteq told \cup {a}
  BY <1>6, <1>9
<1>11. Spoken' \subseteq Spoken \cup {w.tx}
  BY <1>10 DEF Spoken
<1>12. Txs' \subseteq Txs /\ Live' \subseteq Live
  <2>1. Failed \subseteq Failed'
    BY <1>10 DEF Failed
  <2> QED
    BY <1>2, <1>4, <1>5, <1>11, <2>1 DEF Txs, Live
<1>13. Typed' /\ OneOfTry'
  BY <1>3, <1>4, <1>8, <1>12, OneOfTryStays DEF Typed, Shown
<1>14. SentOnce'
  <2>1. known' \cap (Handled' \cup pool' \cup Included' \cup Spoken') = {}
    BY <1>2, <1>4, <1>5, <1>11 DEF SentOnce
  <2>2. \A v \in work' : v.at \in {"checking", "queued"} => v.tx \notin pool' \cup Included'
    BY <1>3, <1>4 DEF SentOnce
  <2>3. \A b \in blocks' : b.canonical => b.tx \notin pool'
    BY DEF SentOnce, Included
  <2> QED
    BY <1>3, <2>1, <2>2, <2>3 DEF SentOnce
<1>15. said = "failed" /\ a \in told' => w.tx \notin Live'
  <2>1. said = "failed" /\ a \in told' => w.tx \in Failed'
    BY <1>10 DEF Failed
  <2> QED
    BY <1>2, <1>4, <1>5, <2>1 DEF Live, SentOnce
<1>16. Truth'
  <2>1. held' \subseteq {t.form : t \in Landed' \cup recalled}
    BY <1>1, <1>3, <1>4 DEF Truth
  <2> QED
    BY <1>4, <1>10, <1>12, <1>15, <2>1 DEF Truth
<1>17. ASSUME NEW g \in Forms, ~Lost(g)' PROVE LatestOf(g)'
  <2>1. LatestOf(g)
    BY <1>10, <1>17 DEF LatestOnly, Lost, Open
  <2>2. CASE g # f
    <3>1. \A v \in work : v.tx.form = g => v \in work'
      BY <1>1, <1>3, <2>2
    <3>2. ui[g].at = "submitting" => \E v \in work' : Current(g, v.tx)'
      BY <1>8, <2>1, <3>1 DEF LatestOf, Current
    <3>3. \A v \in work' : v.tx.form = g => ui'[g].at = "submitting"
      BY <1>3, <1>8, <2>1, <2>2 DEF LatestOf
    <3> QED
      BY <1>4, <1>5, <1>8, <1>12, <2>1, <2>2, <3>2, <3>3 DEF LatestOf
  <2>3. CASE g = f
    <3>1. \A t \in Live : t.form = f => t = w.tx
      BY <1>1, <1>2, <2>1, <2>3, LiveAreTxs DEF LatestOf, OneOfTry
    <3>2. ui[f].at = "submitting" /\ Current(f, w.tx)
      BY <1>1, <1>2, <2>1, <2>3 DEF LatestOf, Current
    <3>3. ui'[f].at = Shows(said)
      BY <1>2, <1>6, <1>7, <3>2, SayFacts
    <3>4. \A v \in work' : v.tx.form # f
      <4>1. ASSUME NEW v \in work', v.tx.form = f PROVE FALSE
        <5>1. v \in work /\ v # w /\ v.tx \in Live
          BY <1>3 DEF Live, Handled
        <5> QED
          BY <3>1, <4>1, <5>1 DEF SentOnce
      <4> QED
        BY <4>1
    <3>6. a \in told' /\ said # "foretold"
      BY <1>1, <1>6, <1>9, <1>10, <1>17, <2>3, <3>2 DEF Lost, Open
    <3>5. \A t \in Live' : t.form = f => t.try = ui'[f].try /\ ui'[f].at # "filled"
      BY <1>7, <1>8, <1>12, <1>15, <2>1, <2>3, <3>1, <3>3, <3>6 DEF LatestOf
    <3> QED
      BY <1>7, <2>3, <3>3, <3>4, <3>5 DEF LatestOf
  <2> QED
    BY <2>2, <2>3
<1>18. LatestOnly'
  BY <1>17 DEF LatestOnly
<1> QED
  BY <1>13, <1>14, <1>16, <1>18

\* A handler goes on: it joins the queue, or has sent its transaction, which no node and
\* no block had before.
LEMMA GoesKeeps ==
  ASSUME SendsInv, NEW w \in work, w.at \in {"checking", "queued"},
         NEW at \in {"queued", "waits"}, Goes(w, at),
         pool' = pool \/ (at = "waits" /\ pool' = pool \cup {w.tx}),
         UNCHANGED <<known, blocks, recalled>>
  PROVE  SendsInv'
<1> USE DEF SendsInv
<1>1. PICK v : v = [w EXCEPT !.at = at]
  OBVIOUS
<1>2. work' = (work \ {w}) \cup {v} /\ UNCHANGED <<ui, told, held>>
  BY <1>1 DEF Goes
<1>3. PICK t \in Handled : t = w.tx
  BY DEF Handled
<1>4. v.tx = t /\ v.at = at /\ v = [tx |-> v.tx, at |-> v.at]
  <2>1. w = [tx |-> w.tx, at |-> w.at]
    BY DEF Typed
  <2>2. v = [tx |-> w.tx, at |-> at]
    BY <1>1, <2>1
  <2> QED
    BY <1>3, <2>2
<1>5. Handled' = Handled /\ Included' = Included /\ Spoken' = Spoken /\ Landed' = Landed
      /\ OnChain' = OnChain /\ Failed' = Failed
  BY <1>2, <1>3, <1>4 DEF Handled, Included, Spoken, Landed, Mined, OnChain, Failed
<1>6. Txs' \subseteq Txs /\ Live' \subseteq Live
  BY <1>3, <1>5 DEF Txs, Live
<1>7. Typed' /\ OneOfTry' /\ Truth'
  BY <1>2, <1>4, <1>5, <1>6, OneOfTryStays, TruthStays DEF Typed
<1>8. t \notin pool \cup Included
  BY <1>3 DEF SentOnce
<1>9. \A u, x \in work' : u.tx = x.tx => u = x
  BY <1>2, <1>3, <1>4 DEF SentOnce
<1>10. \A u \in work' : u.at \in {"checking", "queued"} => u.tx \notin pool' \cup Included'
  BY <1>2, <1>3, <1>4, <1>5, <1>8 DEF SentOnce
<1>11. known' \cap (Handled' \cup pool' \cup Included' \cup Spoken') = {}
  BY <1>3, <1>5 DEF SentOnce
<1>12. \A b \in blocks : b.canonical => b.tx \notin pool'
  BY <1>3, <1>8 DEF SentOnce, Included
<1>13. SentOnce'
  BY <1>9, <1>10, <1>11, <1>12 DEF SentOnce
<1>14. ASSUME NEW g \in Forms, ~Lost(g)' PROVE LatestOf(g)'
  <2>1. LatestOf(g)
    BY <1>2, <1>14 DEF LatestOnly, Lost, Open
  <2>2. ui[g].at = "submitting" => \E u \in work' : Current(g, u.tx)'
    BY <1>2, <1>3, <1>4, <2>1 DEF LatestOf, Current
  <2>3. \A u \in work' : u.tx.form = g => ui'[g].at = "submitting"
    BY <1>2, <1>3, <1>4, <2>1 DEF LatestOf
  <2>4. ui[g].at = "signing" =>
          \A u \in Live' : u.form = g => u \notin Handled' \cup pool' \cup OnChain'
    BY <1>3, <1>5, <1>6, <2>1 DEF LatestOf
  <2> QED
    BY <1>2, <1>6, <2>1, <2>2, <2>3, <2>4 DEF LatestOf
<1>15. LatestOnly'
  BY <1>14 DEF LatestOnly
<1> QED
  BY <1>7, <1>13, <1>15

LEMMA ChecksKeeps ==
  ASSUME SendsInv, NEW w \in work, Checks(w) \/ Rejects(w) PROVE SendsInv'
<1>1. CASE Checks(w)
  BY <1>1, GoesKeeps DEF Checks, koinos
<1>2. CASE Rejects(w)
  <2>1. w.at = "checking" /\ Answer(w, "failed") /\ UNCHANGED <<known, pool, blocks, recalled>>
    BY <1>2 DEF Rejects, koinos
  <2>2. w.tx \notin pool \cup Landed
    BY <2>1, LandedIncluded DEF SendsInv, SentOnce
  <2> QED
    BY <2>1, <2>2, AnswerKeeps
<1> QED
  BY <1>1, <1>2

LEMMA SendKeeps ==
  ASSUME SendsInv, NEW w \in work, Send(w) \/ Refuses(w) PROVE SendsInv'
<1>1. w.at = "queued" /\ UNCHANGED <<known, blocks, recalled>>
  BY DEF Send, Refuses, koinos
<1>2. w.tx \notin pool \cup Landed
  BY <1>1, LandedIncluded DEF SendsInv, SentOnce
<1>3. ASSUME Answer(w, "failed"), UNCHANGED pool PROVE SendsInv'
  BY <1>1, <1>2, <1>3, AnswerKeeps
<1>4. ASSUME Goes(w, "waits"), UNCHANGED pool \/ pool' = pool \cup {w.tx} PROVE SendsInv'
  BY <1>1, <1>4, GoesKeeps
<1>5. CASE Refuses(w)
  <2>1. Answer(w, "failed") /\ UNCHANGED pool
    BY <1>5 DEF Refuses, Reply, koinos
  <2> QED
    BY <1>3, <2>1
<1>6. CASE Send(w)
  <2>1. CASE pool' = pool \cup {w.tx} /\ Reply(w, "foretold")
    <3>1. Answer(w, "foretold")
      BY <2>1 DEF Reply
    <3> QED
      BY <1>1, <2>1, <3>1, AnswerKeeps
  <2>2. CASE pool' = pool \cup {w.tx} /\ (Reply(w, "taken") \/ Reply(w, "noise"))
    BY <1>4, <2>2 DEF Reply
  <2>3. CASE UNCHANGED pool /\ (Reply(w, "refused") \/ Reply(w, "noise"))
    BY <1>3, <1>4, <2>3 DEF Reply
  <2> QED
    BY <1>6, <2>1, <2>2, <2>3 DEF Send
<1> QED
  BY <1>5, <1>6

\* A receipt tells what became of the transaction: it has left the pool, and no other
\* block of the chain holds it.
LEMMA PollsKeeps ==
  ASSUME SendsInv, NEW w \in work, Polls(w) \/ TimesOut(w) PROVE SendsInv'
<1>1. UNCHANGED <<known, pool, blocks, recalled>>
  BY DEF Polls, TimesOut, koinos
<1>2. CASE TimesOut(w)
  <2>1. Answer(w, "pending")
    BY <1>2 DEF TimesOut
  <2> QED
    BY <1>1, <2>1, AnswerKeeps
<1>3. CASE Polls(w)
  <2>1. PICK b \in blocks : /\ b.tx = w.tx /\ b.canonical
                            /\ Answer(w, IF b.ok THEN "sent" ELSE "failed")
    BY <1>3 DEF Polls, Receipt
  <2>2. CASE b.ok
    <3>1. w.tx \in Landed
      BY <2>1, <2>2, InLanded
    <3> QED
      BY <1>1, <2>1, <2>2, <3>1, AnswerKeeps
  <2>3. CASE ~b.ok
    <3>1. w.tx \notin pool
      BY <2>1 DEF SendsInv, SentOnce
    <3>2. w.tx \notin Landed
      BY <2>1, <2>3, InLanded DEF SendsInv, SentOnce
    <3> QED
      BY <1>1, <2>1, <2>3, <3>1, <3>2, AnswerKeeps
  <2> QED
    BY <2>2, <2>3
<1> QED
  BY <1>2, <1>3

-----------------------------------------------------------------------------
(* Koinos, and the death of a host. *)

\* A block of the chain takes a transaction of the pool.
LEMMA MineKeeps ==
  ASSUME SendsInv, NEW t \in pool, Mine(t) PROVE SendsInv'
<1> USE DEF SendsInv
<1>1. PICK ok \in BOOLEAN : blocks' = blocks \cup {[tx |-> t, ok |-> ok, canonical |-> TRUE]}
  BY DEF Mine
<1>2. PICK b : b = [tx |-> t, ok |-> ok, canonical |-> TRUE]
  OBVIOUS
<1>3. blocks' = blocks \cup {b} /\ b.tx = t /\ b.canonical = TRUE
  BY <1>1, <1>2
<1>4. pool' = pool \ {t} /\ UNCHANGED <<ui, told, known, work, held, recalled>>
  BY DEF Mine, server
<1>5. Handled' = Handled /\ Spoken' = Spoken /\ Failed' = Failed /\ Included' = Included \cup {t}
  BY <1>3, <1>4 DEF Handled, Spoken, Failed, Included
<1>6. OnChain' = OnChain \cup {t}
  BY <1>3 DEF OnChain, Mined
<1>7. Landed \subseteq Landed' /\ Landed' \subseteq Landed \cup {t}
  <2>1. ASSUME NEW u
        PROVE  u \in Landed' <=> \E c \in blocks' : c.tx = u /\ c.canonical /\ c.ok
    BY DEF Landed, Mined
  <2> QED
    BY <1>3, <2>1, InLanded
<1>8. Txs' \subseteq Txs /\ Live' \subseteq Live
  BY <1>4, <1>5, <1>6, <1>7 DEF Txs, Live
<1>9. Typed' /\ OneOfTry' /\ Truth'
  <2>1. b = [tx |-> b.tx, ok |-> b.ok, canonical |-> b.canonical]
    BY <1>2
  <2>2. \A c \in blocks' : c = [tx |-> c.tx, ok |-> c.ok, canonical |-> c.canonical]
    BY <1>3, <2>1 DEF Typed
  <2>3. OneOfTry' /\ Truth'
    BY <1>4, <1>7, <1>8, OneOfTryStays, TruthStays
  <2> QED
    BY <1>4, <1>5, <2>2, <2>3 DEF Typed
<1>10. SentOnce'
  <2>1. known' \cap (Handled' \cup pool' \cup Included' \cup Spoken') = {}
    BY <1>4, <1>5 DEF SentOnce
  <2>2. \A w \in work' : w.at \in {"checking", "queued"} => w.tx \notin pool' \cup Included'
    BY <1>4, <1>5 DEF SentOnce
  <2>3. \A c \in blocks' : c.canonical => c.tx \notin pool'
    BY <1>3, <1>4 DEF SentOnce
  <2>4. \A c, d \in blocks' : c.canonical /\ d.canonical /\ c.tx = d.tx => c = d
    BY <1>3 DEF SentOnce
  <2> QED
    BY <1>4, <2>1, <2>2, <2>3, <2>4 DEF SentOnce
<1>11. ASSUME NEW g \in Forms, ~Lost(g)' PROVE LatestOf(g)'
  <2>1. LatestOf(g)
    BY <1>4, <1>11 DEF LatestOnly, Lost, Open
  <2>2. ui[g].at = "signing" =>
          \A u \in Live' : u.form = g => u \notin Handled' \cup pool' \cup OnChain'
    <3>1. t \in Live
      BY DEF Live
    <3> QED
      BY <1>4, <1>5, <1>6, <1>8, <2>1, <3>1 DEF LatestOf
  <2> QED
    BY <1>4, <1>8, <2>1, <2>2 DEF LatestOf, Current
<1>12. LatestOnly'
  BY <1>11 DEF LatestOnly
<1> QED
  BY <1>9, <1>10, <1>12

\* The chain takes back the block of a transaction, which may come to life again.  Whoever
\* relied on its verdict is named by recalled from then on; of the other forms it is the
\* latest try.
LEMMA ReorgKeeps ==
  ASSUME SendsInv, NEW b \in blocks, Reorg(b) PROVE SendsInv'
<1> USE DEF SendsInv
<1>1. PICK t \in OnChain : t = b.tx
  BY DEF Reorg, OnChain
<1>2. PICK c : c = [b EXCEPT !.canonical = FALSE]
  OBVIOUS
<1>3. c.canonical = FALSE /\ c.tx = t /\ c.ok = b.ok /\ b.canonical = TRUE
  <2>1. b = [tx |-> b.tx, ok |-> b.ok, canonical |-> b.canonical] /\ b.canonical = TRUE
    BY DEF Reorg, Typed, Mined
  <2> QED
    BY <1>1, <1>2, <2>1
<1>4. blocks' = (blocks \ {b}) \cup {c} /\ pool \subseteq pool' /\ pool' \subseteq pool \cup {t}
      /\ UNCHANGED <<ui, told, known, work, held>>
  BY <1>1, <1>2 DEF Reorg, server
<1>5. recalled' = IF Relied(b) THEN recalled \cup {t} ELSE recalled
  BY <1>1 DEF Reorg
<1>6. Handled' = Handled /\ Spoken' = Spoken /\ Failed' = Failed /\ Included' = Included
  BY <1>1, <1>3, <1>4 DEF Handled, Spoken, Failed, Included
<1>7. OnChain' = OnChain \ {t} /\ t \in Included
  BY <1>1, <1>3, <1>4, LandedIncluded DEF OnChain, Mined, SentOnce
<1>8. Landed' = Landed \ {t} /\ (t \in Landed => b.ok)
  <2>1. ASSUME NEW u
        PROVE  u \in Landed' <=> \E d \in blocks' : d.tx = u /\ d.canonical /\ d.ok
    BY DEF Landed, Mined
  <2>2. \A d \in blocks : d.canonical /\ d.tx = t => d = b
    BY <1>1, <1>3 DEF SentOnce
  <2>3. ASSUME NEW u PROVE u \in Landed' <=> u \in Landed /\ u # t
    BY <1>1, <1>3, <1>4, <2>1, <2>2, InLanded
  <2> QED
    BY <2>2, <2>3, InLanded
<1>9. Txs' \subseteq Txs /\ Live' \subseteq Live \cup {t}
  BY <1>4, <1>6, <1>7, <1>8 DEF Txs, Live
<1>10. Typed' /\ OneOfTry'
  <2>1. recalled' \subseteq Included'
    BY <1>5, <1>6, <1>7 DEF Typed
  <2>2. \A d \in blocks' : d = [tx |-> d.tx, ok |-> d.ok, canonical |-> d.canonical]
    <3>1. c = [tx |-> c.tx, ok |-> c.ok, canonical |-> c.canonical]
      <4>1. b = [tx |-> b.tx, ok |-> b.ok, canonical |-> b.canonical]
        BY DEF Typed
      <4>2. c = [tx |-> b.tx, ok |-> b.ok, canonical |-> FALSE]
        BY <1>2, <4>1
      <4> QED
        BY <4>2
    <3> QED
      BY <1>4, <3>1 DEF Typed
  <2> QED
    BY <1>4, <1>9, <2>1, <2>2, OneOfTryStays DEF Typed
<1>11. Truth'
  <2>1. ASSUME NEW a \in told, a.said = "sent" PROVE a.tx \in Landed' \cup recalled'
    <3>1. CASE a.tx = t
      BY <1>1, <1>5, <2>1, <3>1 DEF Relied
    <3>2. CASE a.tx # t
      BY <1>5, <1>8, <2>1, <3>2 DEF Truth
    <3> QED
      BY <3>1, <3>2
  <2>2. ASSUME NEW a \in told, a.said = "failed" PROVE a.tx \notin Live' \ recalled'
    <3>1. CASE a.tx = t
      BY <1>1, <1>5, <2>2, <3>1 DEF Relied
    <3>2. CASE a.tx # t
      BY <1>5, <1>9, <2>2, <3>2 DEF Truth
    <3> QED
      BY <3>1, <3>2
  <2>3. ASSUME NEW f \in held PROVE \E u \in Landed' \cup recalled' : u.form = f
    <3>1. PICK u \in Landed \cup recalled : u.form = f
      BY DEF Truth
    <3>2. CASE u = t /\ u \in Landed
      <4>1. Relied(b)
        BY <1>1, <1>8, <2>3, <3>1, <3>2 DEF Relied
      <4> QED
        BY <1>5, <3>1, <3>2, <4>1
    <3> QED
      BY <1>5, <1>8, <3>1, <3>2
  <2> QED
    BY <1>4, <2>1, <2>2, <2>3 DEF Truth
<1>12. SentOnce'
  <2>1. known' \cap (Handled' \cup pool' \cup Included' \cup Spoken') = {}
    BY <1>4, <1>6, <1>7 DEF SentOnce
  <2>2. \A w \in work' : w.at \in {"checking", "queued"} => w.tx \notin pool' \cup Included'
    BY <1>4, <1>6, <1>7 DEF SentOnce
  <2>3. \A d \in blocks' : d.canonical => d \in blocks /\ d.tx # t
    BY <1>1, <1>3, <1>4 DEF SentOnce
  <2> QED
    BY <1>4, <2>1, <2>2, <2>3 DEF SentOnce
<1>13. ASSUME NEW g \in Forms, ~Lost(g)' PROVE LatestOf(g)'
  <2>1. ~Lost(g)
    BY <1>4, <1>5, <1>13 DEF Lost, Open
  <2>2. LatestOf(g)
    BY <2>1 DEF LatestOnly
  <2>3. t.form = g => t \in Live
    <3>1. SUFFICES ASSUME t.form = g, t \in Failed PROVE FALSE
      BY <1>1 DEF Live
    <3>2. PICK a \in told : a.tx = t /\ a.said = "failed"
      BY <3>1 DEF Failed
    <3>3. t \in recalled'
      BY <1>1, <1>5, <3>2 DEF Relied
    <3> QED
      BY <1>4, <1>13, <3>1, <3>2, <3>3 DEF Lost, Open
  <2>4. \A u \in Live' : u.form = g => u \in Live
    BY <1>9, <2>3
  <2>5. ui[g].at = "signing" =>
          \A u \in Live' : u.form = g => u \notin Handled' \cup pool' \cup OnChain'
    BY <1>1, <1>4, <1>6, <1>7, <2>2, <2>3, <2>4 DEF LatestOf
  <2> QED
    BY <1>4, <2>2, <2>4, <2>5 DEF LatestOf, Current
<1>14. LatestOnly'
  BY <1>13 DEF LatestOnly
<1> QED
  BY <1>10, <1>11, <1>12, <1>14

\* A host dies: everybody whose send it was handling loses the answer.
LEMMA CrashKeeps ==
  ASSUME SendsInv, NEW h \in Hosts, Crash(h) PROVE SendsInv'
<1> USE DEF SendsInv
<1>1. known' \subseteq known /\ work' = {w \in work : Host(w.tx) # h}
      /\ UNCHANGED <<held, pool, blocks, recalled>>
  BY DEF Crash, koinos
<1>2. /\ ui' \in [Forms -> [at : Shown, try : Nat]]
      /\ \A g \in Forms : ui'[g].try = ui[g].try
      /\ \A g \in Forms : ui'[g] = ui[g] \/ (HostOf[g] = h /\ ui[g].at = "submitting")
  <2>1. ui \in [Forms -> [at : Shown, try : Nat]]
    BY DEF Typed, Shown
  <2>2. ASSUME NEW g \in Forms
        PROVE  /\ ui'[g] \in [at : Shown, try : Nat] /\ ui'[g].try = ui[g].try
               /\ ui'[g] = ui[g] \/ (HostOf[g] = h /\ ui[g].at = "submitting")
    <3>1. ui[g] \in [at : Shown, try : Nat]
      BY <2>1
    <3>2. ui'[g] = IF HostOf[g] = h /\ ui[g].at = "submitting"
                   THEN [ui[g] EXCEPT !.at = "filled"] ELSE ui[g]
      BY DEF Crash
    <3> QED
      BY <3>1, <3>2 DEF Shown
  <2>3. ui' = [g \in Forms |-> ui'[g]]
    BY DEF Crash
  <2> QED
    BY <2>2, <2>3
<1>3. /\ told \subseteq told'
      /\ \A a \in told' : a \in told \/ (a.said = "lost" /\ a.tx \in Handled)
      /\ \A w \in work : /\ Host(w.tx) = h /\ Current(w.tx.form, w.tx)
                         /\ ui[w.tx.form].at = "submitting"
                         => \E a \in told' : a.tx = w.tx /\ a.said = "lost"
  <2>1. PICK hit \in SUBSET work :
          /\ told' = told \cup {[tx |-> w.tx, said |-> "lost"] : w \in hit}
          /\ \A w \in work : /\ Host(w.tx) = h /\ Current(w.tx.form, w.tx)
                             /\ ui[w.tx.form].at = "submitting"
                             => w \in hit
    <3>1. told' = told \cup {[tx |-> w.tx, said |-> "lost"] :
                               w \in {v \in work : /\ Host(v.tx) = h
                                                   /\ Current(v.tx.form, v.tx)
                                                   /\ ui[v.tx.form].at = "submitting"}}
      BY DEF Crash
    <3> QED
      BY <3>1
  <2>2. ASSUME NEW a \in told' PROVE a \in told \/ (a.said = "lost" /\ a.tx \in Handled)
    BY <2>1 DEF Handled
  <2>3. ASSUME NEW w \in hit PROVE \E a \in told' : a.tx = w.tx /\ a.said = "lost"
    <3>1. [tx |-> w.tx, said |-> "lost"] \in told'
      BY <2>1
    <3> QED
      BY <3>1
  <2> QED
    BY <2>1, <2>2, <2>3
<1>4. Handled' \subseteq Handled /\ Included' = Included /\ Landed' = Landed
      /\ OnChain' = OnChain /\ Failed \subseteq Failed'
      /\ Spoken' \subseteq Spoken \cup Handled
  BY <1>1, <1>3 DEF Handled, Included, Spoken, Landed, Mined, OnChain, Failed
<1>5. Txs' \subseteq Txs /\ Live' \subseteq Live
  BY <1>1, <1>4 DEF Txs, Live
<1>6. Typed' /\ OneOfTry'
  BY <1>1, <1>2, <1>4, <1>5, OneOfTryStays DEF Typed, Shown
<1>7. SentOnce'
  BY <1>1, <1>4 DEF SentOnce
<1>8. Truth'
  BY <1>1, <1>3, <1>4, <1>5 DEF Truth
<1>9. ASSUME NEW g \in Forms, ~Lost(g)' PROVE LatestOf(g)'
  <2>1. LatestOf(g)
    BY <1>1, <1>3, <1>9 DEF LatestOnly, Lost, Open
  <2>2. ui[g].at = "submitting" => \E w \in work : Current(g, w.tx) /\ HostOf[g] # h
    <3> SUFFICES ASSUME ui[g].at = "submitting"
                 PROVE  \E w \in work : Current(g, w.tx) /\ HostOf[g] # h
      OBVIOUS
    <3>1. PICK w \in work : Current(g, w.tx)
      BY <2>1 DEF LatestOf
    <3>2. w.tx.form = g /\ Host(w.tx) = HostOf[g]
      BY <3>1 DEF Current, Host
    <3>3. HostOf[g] # h
      BY <1>3, <1>9, <3>1, <3>2 DEF Lost, Open
    <3> QED
      BY <3>1, <3>3
  <2>3. ui'[g] = ui[g]
    BY <1>2, <2>2
  <2>4. ui[g].at = "submitting" => \E w \in work' : Current(g, w.tx)'
    BY <1>1, <2>2, <2>3 DEF Current, Host
  <2>5. ui[g].at = "signing" =>
          \A u \in Live' : u.form = g => u \notin Handled' \cup pool' \cup OnChain'
    BY <1>1, <1>4, <1>5, <2>1 DEF LatestOf
  <2> QED
    BY <1>1, <1>5, <2>1, <2>3, <2>4, <2>5 DEF LatestOf
<1>10. LatestOnly'
  BY <1>9 DEF LatestOnly
<1> QED
  BY <1>6, <1>7, <1>8, <1>10

-----------------------------------------------------------------------------
(* Every step. *)

LEMMA StepKeepsInv == SendsInv /\ [Next]_vars => SendsInv'
<1> SUFFICES ASSUME SendsInv, [Next]_vars PROVE SendsInv'
  OBVIOUS
<1>1. ASSUME NEW f \in Forms,
             PrepareSend(f) \/ PrepareToken(f) \/ PrepareRegister(f)
      PROVE  SendsInv'
  BY <1>1, PreparesKeeps DEF PrepareSend, PrepareToken, PrepareRegister
<1>2. ASSUME NEW f \in Forms,
             Submit(f) \/ Declines(f) \/ LosesAnswer(f) \/ SignsIn(f)
      PROVE  SendsInv'
  BY <1>2, SubmitKeeps, DeclinesKeeps, LosesAnswerKeeps, SignsInKeeps
<1>3. ASSUME NEW t \in known, Expire(t) PROVE SendsInv'
  BY <1>3, ForgettingKeeps DEF Expire, koinos
<1>4. ASSUME NEW t \in pool, Mine(t) \/ Evict(t) PROVE SendsInv'
  BY <1>4, MineKeeps, ForgettingKeeps DEF Evict, server
<1>8. ASSUME NEW b \in blocks, Reorg(b) PROVE SendsInv'
  BY <1>8, ReorgKeeps
<1>5. ASSUME NEW w \in work,
             \/ Checks(w) \/ Rejects(w) \/ Send(w) \/ Refuses(w)
             \/ Polls(w) \/ TimesOut(w)
      PROVE  SendsInv'
  BY <1>5, ChecksKeeps, SendKeeps, PollsKeeps
<1>6. ASSUME NEW h \in Hosts, Crash(h) PROVE SendsInv'
  BY <1>6, CrashKeeps
<1>7. CASE UNCHANGED vars
  BY <1>7, ForgettingKeeps DEF vars, server, koinos
<1> QED
  BY <1>1, <1>2, <1>3, <1>4, <1>5, <1>6, <1>7, <1>8 DEF Next

\* The inductive invariant of the page, the handlers, the nodes and the answers, with blocks
\* that reorganisations may take back at any time.
THEOREM SendsHold == Spec => []SendsInv
  BY InitHolds, StepKeepsInv, PTL DEF Spec

\* Whatever handlers, queues, nodes, forks and restarts do, "sent" is said of a transaction
\* that is in a block of the chain and did not revert, nothing of which "failed" was said
\* moves later, and a credential the store lists is registered, each until the chain takes
\* back the very block the answer or the store relied on: nothing waits for blocks to become
\* irreversible (chain.js:waitMined, vault-token-sends.js, public/js/app.js).
THEOREM AnswersTrue == Spec => []AnswersAreTrue
<1>1. SendsInv => AnswersAreTrue
  BY DEF SendsInv, Truth, Live, AnswersAreTrue
<1> QED
  BY <1>1, SendsHold, PTL

\* A form that somebody sends off again after a failure pays once, however often it is
\* tried, whatever the nodes do and whatever forks win, unless an answer to it was lost or
\* was only a node's forecast, or the block of a failed try was taken back after the answer:
\* in all other cases at most its latest try can be alive (chain.js:sendTolerant, waitMined).
THEOREM PaysOnce == Spec => []PaidOnce
<1>1. SendsInv => PaidOnce
  <2> SUFFICES ASSUME SendsInv, NEW f \in Forms, ~Lost(f)
               PROVE  Cardinality({t \in Landed : t.form = f}) <= 1
    BY DEF PaidOnce, Lost
  <2>1. \A t, u \in {v \in Landed : v.form = f} : t = u
    BY LiveAreTxs DEF SendsInv, LatestOnly, LatestOf, OneOfTry, Live
  <2>2. CASE {t \in Landed : t.form = f} = {}
    BY <2>2, FS_EmptySet
  <2>3. ASSUME NEW t \in {v \in Landed : v.form = f}
        PROVE  Cardinality({v \in Landed : v.form = f}) <= 1
    <3>1. {v \in Landed : v.form = f} = {t}
      BY <2>1
    <3>2. Cardinality({t}) = 1
      BY FS_Singleton
    <3> QED
      BY <3>1, <3>2
  <2> QED
    BY <2>2, <2>3
<1> QED
  BY <1>1, SendsHold, PTL
===============================================================================
