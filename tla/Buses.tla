------------------------------- MODULE Buses --------------------------------
(***************************************************************************)
(* What IicBus and SpiBus put on the wire for a register's read or write,  *)
(* and what the chip drivers give them.  An I2C transfer is a sequence of  *)
(* messages of one ioctl: the device's address, a direction, the bytes.    *)
(* An SPI transfer is one exchange in which a byte comes back for each     *)
(* byte that goes out.                                                     *)
(***************************************************************************)
EXTENDS Integers, Sequences, SequencesExt

High(reg) == (reg \div 256) % 256
Low(reg) == reg % 256

(* The interfaces keep the write address, 8 bits; the kernel wants 7. *)
Send(addr, bytes) == [addr |-> addr \div 2, read |-> FALSE, bytes |-> bytes]
Receive(addr, len) == [addr |-> addr \div 2, read |-> TRUE, len |-> len]

Zeros(len) == [i \in 1 .. len |-> 0]

-----------------------------------------------------------------------------
(* IicBus *)

IicReadCmd(addr, len) == <<Receive(addr, len)>>

IicRead(addr, reg, len) == <<Send(addr, <<reg>>), Receive(addr, len)>>

IicReadAddress16(addr, reg, len) ==
  <<Send(addr, <<High(reg), Low(reg)>>), Receive(addr, len)>>

IicWriteCmd(addr, buf) == <<Send(addr, buf)>>

IicWrite(addr, reg, buf) == <<Send(addr, <<reg>> \o buf)>>

IicWriteAddress16(addr, reg, buf) ==
  <<Send(addr, <<High(reg), Low(reg)>> \o buf)>>

-----------------------------------------------------------------------------
(* SpiBus: what goes out, and which of the bytes that come back are kept.  *)

Exchange(out, skip) == [out |-> out, skip |-> skip]

SpiReadCmd(len) == Exchange(Zeros(len), 0)

(* What came while the register was sent is kept (a mutant). *)
SpiReadEarly(reg, len) == Exchange(<<reg>> \o Zeros(len), 0)

SpiRead(reg, len) == Exchange(<<reg>> \o Zeros(len), 1)

SpiReadAddress16(reg, len) ==
  Exchange(<<High(reg), Low(reg)>> \o Zeros(len), 2)

SpiWriteCmd(buf) == Exchange(buf, Len(buf))

SpiWrite(reg, buf) == Exchange(<<reg>> \o buf, 1 + Len(buf))

(* buf is never copied into what is sent. *)
SpiWriteAddress16(reg, buf) ==
  Exchange(<<High(reg), Low(reg)>> \o Zeros(Len(buf)), 2 + Len(buf))

(* A write, then if asked for a read, with the device selected throughout. *)
SpiWriteRead(in, outLen) ==
  IF in = <<>> THEN <<>>
  ELSE IF outLen > 0 THEN <<Exchange(in, Len(in)), Exchange(Zeros(outLen), 0)>>
  ELSE <<Exchange(in, Len(in))>>

SpiTransmit(tx) == Exchange(tx, 0)

-----------------------------------------------------------------------------
(* The drivers: bit 7 of the register says that an SPI transfer reads.     *)

Mpu9250Read(reg, len) == SpiRead(IF reg < 128 THEN reg + 128 ELSE reg, len)

Mpu9250Write(reg, buf) == SpiWrite(reg % 128, buf)

(* mpu6050_interface_iic_read, mpu6050_interface_iic_write and the MPU9250's
   pass their arguments on. *)
Mpu6050Read(addr, reg, len) == IicRead(addr, reg, len)
Mpu6050Write(addr, reg, buf) == IicWrite(addr, reg, buf)

(* write_mem: the bank and the address go to BANK_SEL, register 0x6D, and the
   bytes to MEM, 0x6F, unless they would leave the bank. *)
WriteMem(addr, at, buf) ==
  IF Low(at) + Len(buf) > 256 THEN <<>>
  ELSE IicWrite(addr, 109, <<High(at), Low(at)>>) \o IicWrite(addr, 111, buf)
=============================================================================
