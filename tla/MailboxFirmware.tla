--------------------------- MODULE MailboxFirmware ---------------------------
(***************************************************************************)
(* What the mailbox firmware answers to a command                          *)
(* (src/top/firmware/mailbox/main.c).  The handlers only validate their    *)
(* parameters: the address in DATA0 and the byte count in DATA1; DATA2 and *)
(* DATA3 are reserved.  Words are unsigned; the handlers compute the       *)
(* element count in a uint32_t, so it is taken modulo U32.                 *)
(***************************************************************************)
EXTENDS Integers

CONSTANT U32        \* the modulus of uint32_t: 2^32 in the build

ASSUME U32Assumption == U32 \in Nat \ {0}

DataRegs == 0 .. 3

(* Command codes and response codes of mailbox.h. *)
HELLO          == 1
HI             == 2
VECTOR_LOAD    == 16
VECTOR_STORE   == 17
VECTOR_COMPUTE == 18
SOFTMAX        == 32
EXP            == 33
QUANT          == 34

SUCCESS           == 0
ERR_INVALID_CMD   == 1
ERR_INVALID_PARAM == 2
FAILED            == -1      \* 0xFFFFFFFF, the host's own error code

(* uint32_t num_elements = data1 / bytes *)
NumElements(data1, bytes) == (data1 \div bytes) % U32

(* The checks that softmax, exp and quant make of their parameters. *)
CheckVector(data, bytes) ==
    IF \/ data[0] = 0 \/ data[1] = 0
       \/ NumElements(data[1], bytes) = 0
       \/ data[1] % bytes # 0
    THEN ERR_INVALID_PARAM
    ELSE SUCCESS

(* The dispatch of handle_mailbox_command. *)
Handle(cmd, data) ==
    CASE cmd \in {HELLO, HI}                                -> SUCCESS
      [] cmd \in {VECTOR_LOAD, VECTOR_STORE, VECTOR_COMPUTE} -> SUCCESS
      [] cmd = SOFTMAX                                      -> CheckVector(data, 4)
      [] cmd \in {EXP, QUANT}                               -> CheckVector(data, 2)
      [] OTHER                                              -> ERR_INVALID_CMD
=============================================================================
