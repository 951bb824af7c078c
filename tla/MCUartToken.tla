---------------------------- MODULE MCUartToken ----------------------------
(* The UART1 token with two ordinary writers (main_task, which also sends  *)
(* frames without the token, and uart1_rx_task) and cd_serve_task.         *)
EXTENDS UartToken

CONSTANTS main_task, rx_task, cd_serve, dma

MCTasks == {main_task, rx_task, cd_serve}
MCUnlocked == {main_task}
=============================================================================
