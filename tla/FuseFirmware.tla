---------------------------- MODULE FuseFirmware ----------------------------
(***************************************************************************)
(* The second mailbox firmware, firmware/fuse/main.c: it runs the          *)
(* instruction tests before its polling loop and has handlers of its own.  *)
(***************************************************************************)
EXTENDS MailboxFirmware

handle_vector_command(data) == SUCCESS

handle_softmax_command(data) ==
    LET num_elements == (data[1] \div 4) % U32
    IN  IF data[0] = 0 \/ data[1] = 0 \/ num_elements = 0 \/ data[1] % 4 # 0
        THEN ERR_INVALID_PARAM ELSE SUCCESS

handle_exp_command(data) ==
    LET num_elements == (data[1] \div 2) % U32
    IN  IF data[0] = 0 \/ data[1] = 0 \/ num_elements = 0 \/ data[1] % 2 # 0
        THEN ERR_INVALID_PARAM ELSE SUCCESS

(* Mutant: eight bytes per element. *)
MutantQuant(data) ==
    LET num_elements == (data[1] \div 8) % U32
    IN  IF data[0] = 0 \/ data[1] = 0 \/ num_elements = 0 \/ data[1] % 8 # 0
        THEN ERR_INVALID_PARAM ELSE SUCCESS

handle_quant_command(data) ==
    LET num_elements == (data[1] \div 2) % U32
    IN  IF data[0] = 0 \/ data[1] = 0 \/ num_elements = 0 \/ data[1] % 2 # 0
        THEN ERR_INVALID_PARAM ELSE SUCCESS

FuseHandle(cmd, data) ==
    CASE cmd \in {HELLO, HI}                                 -> SUCCESS
      [] cmd \in {VECTOR_LOAD, VECTOR_STORE, VECTOR_COMPUTE} -> handle_vector_command(data)
      [] cmd = SOFTMAX                                       -> handle_softmax_command(data)
      [] cmd = EXP                                           -> handle_exp_command(data)
      [] cmd = QUANT                                         -> handle_quant_command(data)
      [] OTHER                                               -> ERR_INVALID_CMD
=============================================================================
