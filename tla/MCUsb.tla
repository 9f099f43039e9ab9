------------------------------- MODULE MCUsb --------------------------------
(* The instance of UsbMsc that Usb.cfg checks.                             *)
EXTENDS UsbMsc

Arranque == <<"teclado", "nada">>
=============================================================================
