-------------------------------- MODULE Sections --------------------------------
(***************************************************************************)
(* The critical sections of the services as the storage sees them: which   *)
(* ids they lock, whether a unit of work spans them, which aggregates they *)
(* get and which they write, in order.  a is the caller, b the other       *)
(* member.  What they compute is the subject of Ledger.                    *)
(***************************************************************************)
EXTENDS Sequences

EventsWallet == "events_wallet"

(* gets: read first; sets: written, in this order, except that what one of  *)
(* the sets in `spare` names turns out unchanged and is written only when   *)
(* it is met for the first time; needs: the call ends without a write when  *)
(* one of these is not there.                                               *)
Section(locks, uow, gets, needs, sets, spare) ==
    [locks |-> locks, uow |-> uow, gets |-> gets, needs |-> needs,
     sets |-> sets, spare |-> spare]

NoImpact(b) == {<<"stock", b>>, <<"history", b>>}

(* buy and sell; the account of b is written only as a stub. *)
TradeSection(a, b) ==
    Section({a, b}, TRUE, <<<<"user", b>>, <<"user", a>>, <<"stock", b>>>>, {},
            <<<<"user", b>>, <<"user", a>>, <<"stock", b>>, <<"history", b>>>>,
            {{<<"user", b>>}, {<<"user", b>>} \cup NoImpact(b)})

(* short, cover and the forced cover; the last sets no cooldown. *)
ShortSection(a, b) ==
    Section({a, b}, TRUE,
            <<<<"cooldown", a>>, <<"user", b>>, <<"user", a>>, <<"stock", b>>, <<"fund", a>>>>, {},
            <<<<"user", b>>, <<"user", a>>, <<"fund", a>>, <<"stock", b>>, <<"history", b>>,
              <<"cooldown", a>>>>,
            {{<<"user", b>>} \cup same :
                same \in {{}, {<<"fund", a>>}, NoImpact(b), {<<"fund", a>>, <<"cooldown", a>>}}})

(* no penalty on the 1st of a month *)
WithdrawSection(a) ==
    Section({a}, TRUE, <<<<"fund", a>>, <<"user", a>>>>, {},
            <<<<"fund", a>>, <<"user", a>>, <<"penalty", a>>>>, {{}, {<<"penalty", a>>}})

SendSection(a) ==
    Section({a, EventsWallet}, TRUE, <<<<"fund", a>>, <<"fund", EventsWallet>>>>, {},
            <<<<"fund", a>>, <<"fund", EventsWallet>>>>, {{}})

InvestSection(a, b) ==
    Section({a, b}, TRUE, <<<<"fund", b>>, <<"user", a>>>>, {<<"fund", b>>, <<"user", a>>},
            <<<<"user", a>>, <<"fund", b>>>>, {{}})

(* create_or_rename, and one fund of accrue_apy *)
FundSection(f) == Section({f}, FALSE, <<<<"fund", f>>>>, {}, <<<<"fund", f>>>>, {{}})

(* one account of the freeze, the resets, the activity handlers *)
AccountSection(a) == Section({a}, FALSE, <<<<"user", a>>>>, {}, <<<<"user", a>>>>, {{}})

(* one price of the ticks, a boost or a penalty: two commits *)
PriceSection(b) ==
    Section({b}, FALSE, <<<<"stock", b>>>>, {<<"stock", b>>},
            <<<<"stock", b>>, <<"history", b>>>>, {{}})

(* One account of the capture of net worths: the lock is on the account, and *)
(* the stock its position is in is read beside that lock.                   *)
CaptureSection(a, b) ==
    Section({a}, FALSE, <<<<"user", a>>, <<"stock", b>>, <<"fund", a>>>>, {<<"user", a>>},
            <<<<"user", a>>>>, {{}})

(* portfolio_snapshot takes no lock and writes nothing; its second look at   *)
(* the fund, for the cash alone, is left out.                               *)
SnapshotSection(a, b) ==
    Section({}, FALSE, <<<<"user", a>>, <<"stock", b>>, <<"fund", a>>>>, {}, <<>>, {{}})

-----------------------------------------------------------------------------
SectionsOf(a, b) ==
    {TradeSection(a, b), ShortSection(a, b), WithdrawSection(a), SendSection(a),
     InvestSection(a, b), FundSection(b), AccountSection(b), PriceSection(b),
     CaptureSection(a, b), SnapshotSection(a, b)}

(* Nobody trades in his own stock or invests in his own fund, and the       *)
(* events wallet calls nothing.                                             *)
ServiceSections(ids) ==
    UNION {UNION {SectionsOf(a, b) : b \in ids \ {a}} : a \in ids \ {EventsWallet}}
=============================================================================
