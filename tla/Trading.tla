------------------------------- MODULE Trading -------------------------------
(***************************************************************************)
(* A strategy and a user who trade on one account: the commands of         *)
(* azbot/notification/telegram.go, the polling of order/controller.go and  *)
(* the exchange run beside the bot's strategy.                             *)
(***************************************************************************)
EXTENDS Strategies

CONSTANTS
  Amounts,      \* the amounts of /buy and /sell
  Percents,     \* their percentages
  MaxCommands   \* bound: the commands of the user

ASSUME TradingAssumption ==
  /\ Amounts \subseteq Nat \ {0} /\ Percents \subseteq Nat \ {0} /\ MaxCommands \in Nat

VARIABLES
  user,       \* what the handler does next
  command,    \* the command it handles
  holds,      \* the position it read
  saw,        \* history: the account and the price then
  commands,   \* how many commands there were
  running     \* whether the order controller polls

telegram == <<user, command, holds, saw, commands>>
vars == <<outer, exchange, answered, strategies, telegram, running>>

NoCommand == [side |-> "buy", percent |-> FALSE, amount |-> 0, listed |-> TRUE]

Init ==
  /\ StrategiesInit
  /\ user = "idle" /\ commands = 0 /\ saw = <<>> /\ holds = NoPosition /\ command = NoCommand
  /\ running = TRUE

-----------------------------------------------------------------------------
(* The handlers of the commands.                                           *)

Alive == link = "ready" /\ bot # "crashed"

(* BuyHandle and SellHandle, for an amount above zero.                     *)
CommandArrives ==
  /\ Alive /\ user = "idle" /\ commands < MaxCommands
  /\ commands' = commands + 1
  /\ \E side \in Side, listed \in BOOLEAN :
       \/ \E n \in Amounts :
            command' = [side |-> side, percent |-> FALSE, amount |-> n, listed |-> listed]
       \/ \E n \in Percents :
            command' = [side |-> side, percent |-> TRUE, amount |-> n, listed |-> listed]
  /\ user' = IF command'.percent THEN "position" ELSE "order"
  /\ refusal' = None
  /\ UNCHANGED <<outer, exchange, answered, strategy, bot, progress, bought, due, pending, learner,
                 trailing, holds, saw, running>>

(* The handler returns.                                                    *)
Replies == user' = "idle" /\ command' = NoCommand /\ holds' = NoPosition /\ saw' = <<>>

(* A pair that is not in the list has no coins.                            *)
UserReads ==
  /\ Alive /\ user = "position"
  /\ \/ Replies
     \/ /\ user' = "order" /\ saw' = <<View>>
        /\ holds' = IF command.listed THEN Position ELSE NoPosition
        /\ UNCHANGED command
  /\ UNCHANGED <<outer, exchange, answered, strategies, commands, running>>

Amount ==
  IF ~command.percent THEN command.amount
  ELSE (command.amount * (IF command.side = "buy" THEN holds.quote ELSE holds.asset)) \div 100

(* Only a percentage of the asset is an amount of the asset.               *)
Quoted == command.side = "buy" \/ ~command.percent

Wish ==
  IF ~command.listed
  THEN Unaccepted(IF market = "futures" /\ Quoted THEN "panic" ELSE "invalid")
  ELSE IF Quoted THEN CreateOrderMarketQuote("user", command.side, Amount)
       ELSE CreateOrderMarket("user", command.side, Amount)

(* The library of the commands recovers a handler's panic.                 *)
UserOrders ==
  /\ Alive /\ user = "order" /\ Len(book) < MaxOrders
  /\ \E outcome \in Wish :
       /\ Take(outcome)
       /\ Note("user", outcome.answer, Quoted, saw = <<View>>,
               command.percent /\ command.amount <= 100)
  /\ Replies
  /\ UNCHANGED <<outer, strategy, bot, progress, bought, due, pending, learner, trailing,
                 commands, running>>

StartHandle ==
  /\ Alive /\ user = "idle" /\ ~running /\ running' = TRUE
  /\ UNCHANGED <<outer, exchange, answered, strategies, telegram>>

StopHandle ==
  /\ Alive /\ user = "idle" /\ running /\ commands < MaxCommands
  /\ running' = FALSE /\ commands' = commands + 1
  /\ UNCHANGED <<outer, exchange, answered, strategies, user, command, holds, saw>>

UserStep == CommandArrives \/ UserReads \/ UserOrders \/ StartHandle \/ StopHandle

-----------------------------------------------------------------------------

Rest == UNCHANGED <<strategies, telegram, running>>

Poll == Alive /\ running /\ \E i \in DOMAIN answered : Query(i)

ExchangeStep ==
  /\ link = "ready"
  /\ \/ PriceMoves
     \/ \E i \in DOMAIN book :
          \/ Execute(i, StepSize) \/ Execute(i, book[i].quantity)
          \/ Cancel(i) \/ Expire(i)

Next ==
  \/ Connect /\ Rest
  \/ BotStep /\ UNCHANGED <<telegram, running>>
  \/ UserStep
  \/ Poll /\ UNCHANGED outer /\ Rest
  \/ ExchangeStep /\ UNCHANGED outer /\ Rest

Spec == Init /\ [][Next]_vars

-----------------------------------------------------------------------------
(* Properties.                                                             *)

(* An order that was computed from the account is refused only for a       *)
(* reason: something happened since the account was read, part of what was *)
(* read is reserved by another order, a position is held on margin, the    *)
(* fee was taken from what was bought, or nothing was bought.  An order    *)
(* outside the exchange's limits was given in quote coins.                 *)
Explained(refused) ==
  /\ refused.answer = "filtered" => refused.quoted
  /\ refused.answer = "refused" /\ refused.fresh /\ refused.own =>
       \/ \E coin \in Coin : account[coin].lock > 0
       \/ market = "futures" /\ account["asset"].free # 0

RefusalsExplained == [][Explained(refusal') \/ UNCHANGED refusal]_vars

Accepts(condition) == {i \in DOMAIN book : book[i].by = condition}

(* A scheduled order is created once, but for the times that it was        *)
(* created and the scheduler was told of a failure.                        *)
ScheduledOnce ==
  \A k \in ToSet(Conditions) :
    Cardinality(Accepts(k)) <= 1 + Cardinality(Accepts(k) \ DOMAIN answered)

Known == {i \in DOMAIN answered : book[i].by = "bot"}

(* The trailing stop is active exactly when the strategy's last order that *)
(* it knows of is a purchase, through failures, panics and lost answers.   *)
StopMatchesOrders ==
  strategy = "trailing" =>
    (active <=> Known # {} /\ book[Max(Known)].side = "buy")

(* While it is, it is never further below the price than it was set.       *)
StopFollows == StopMatchesOrders /\ TrailingStop!NeverFurther

=============================================================================
