------------------------------- MODULE SmsNet -------------------------------
(***************************************************************************)
(* The way of a text message from SmsCtrl::SendSms of one pit to HandleSmsIn *)
(* of another.  In between are the buffer of SmsCtrl, which sends the lowest *)
(* slot first whatever came first and deletes messages when it is full, two *)
(* modems and the telephone network: a message may be lost, come late or    *)
(* overtake another.                                                        *)
(***************************************************************************)
EXTENDS Integers, Sequences, SequencesExt

CONSTANTS
  MaxFlight,   (* messages under way, SMS_BUF_SIZE in SmsCtrl: a bound      *)
  Delay        (* a message that takes longer is late                      *)

ASSUME SmsNetAssumption == MaxFlight \in Nat \ {0} /\ Delay \in Nat

VARIABLE net   (* the messages under way, in the order they were sent      *)

Command == {"INTERLOCK", "AUTO"}

(* A message says how long to lock; age stops at late.                      *)
Late == Delay + 1
Message(T) == [command : Command, time : T, age : 0 .. Late]

Room == Len(net) < MaxFlight

(* SendSms puts a message into the buffer, or deletes it.                   *)
SendSms(c, t) ==
  net' = IF Room THEN Append(net, [command |-> c, time |-> t, age |-> 0]) ELSE net

Gone(i) == net' = RemoveAt(net, i)

Older == [i \in DOMAIN net |-> [net[i] EXCEPT !.age = IF @ = Late THEN Late ELSE @ + 1]]

=============================================================================
