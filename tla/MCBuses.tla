------------------------------ MODULE MCBuses -------------------------------
(***************************************************************************)
(* What Buses and Access are held against: a device with registers that    *)
(* takes what is on the wire as the manuals of such chips have it.         *)
(***************************************************************************)
EXTENDS Access, FiniteSetsExt

CONSTANTS
  WireInputs,     \* bound: what is written and read over a bus
  AccessInputs    \* bound: how the functions of Access are called

Word == 0 .. 511       \* bound: the registers of the device
Empty == [r \in Word |-> 0]
Noise == 255           \* what an SPI device sends while it is spoken to

(* d.regs, d.at: the register that comes next.  Each byte has one of its own.
   A chip of the drivers has a fifo behind register 116, counted in registers
   114 and 115, and behind 111 the DMP's memory, whose bank and address were
   put into 109 and 110; and bit 7 of register 107 resets it. *)
Put(d, byte) ==
  CASE d.chip /\ d.at = 111 ->
         [d EXCEPT !.dmp = Append(@, <<256 * d.regs[109] + d.regs[110] + Len(@),
                                       byte>>)]
    [] d.chip /\ d.at = 116 -> [d EXCEPT !.fifo = Append(@, byte)]
    [] d.chip /\ d.at = 107 /\ byte >= 128 ->
         [d EXCEPT !.regs = [Empty EXCEPT ![107] = 128], !.fifo = <<>>]
    [] OTHER -> [d EXCEPT !.regs[d.at] = byte, !.at = @ + 1]

PutAll(d, bytes) ==
  LET after[k \in 0 .. Len(bytes)] ==
        IF k = 0 THEN d ELSE Put(after[k - 1], bytes[k])
  IN after[Len(bytes)]

Give(d) ==
  CASE d.chip /\ d.at = 116 /\ d.fifo # <<>> ->
         [d EXCEPT !.said = Append(@, Head(d.fifo)), !.fifo = Tail(@)]
    [] d.chip /\ d.at \in {114, 115} ->
         [d EXCEPT !.said = Append(@, IF d.at = 114 THEN High(Len(d.fifo))
                                      ELSE Low(Len(d.fifo))),
                   !.at = @ + 1]
    [] OTHER -> [d EXCEPT !.said = Append(@, d.regs[d.at]), !.at = @ + 1]

GiveAll(d, len) ==
  LET after[k \in 0 .. len] == IF k = 0 THEN d ELSE Give(after[k - 1])
  IN after[len]

(* An I2C device of this address that takes the first width bytes of a write
   for a register and answers a read from where it is. *)
Message(d, m) ==
  IF m.addr # d.addr THEN d
  ELSE IF m.read
    THEN GiveAll(d, m.len)
  ELSE LET reg == IF d.width = 1 THEN m.bytes[1]
                  ELSE 256 * m.bytes[1] + m.bytes[2]
       IN PutAll([d EXCEPT !.at = reg],
                 SubSeq(m.bytes, d.width + 1, Len(m.bytes)))

(* An SPI device with 7 bits of register, and a bit that says read. *)
SpiTalk(d, x) ==
  LET first == x.out[1]
      there == [d EXCEPT !.at = first % 128, !.said = <<Noise>>]
      after == IF first >= 128 THEN GiveAll(there, Len(x.out) - 1)
               ELSE [PutAll(there, Tail(x.out)) EXCEPT
                       !.said = [k \in DOMAIN x.out |-> Noise]]
  IN [after EXCEPT !.said = d.said \o SubSeq(@, x.skip + 1, Len(@))]

(* A device after what is on its wire, messages or exchanges. *)
Meets(d, x) == IF "out" \in DOMAIN x THEN SpiTalk(d, x) ELSE Message(d, x)

Talk(d, wire) ==
  LET after[k \in 0 .. Len(wire)] ==
        IF k = 0 THEN d ELSE Meets(after[k - 1], wire[k])
  IN after[Len(wire)]

(* An SPI memory with 16 bits of register, only read. *)
SpiSays16(d, x) ==
  LET back == <<Noise, Noise>>
                \o GiveAll([d EXCEPT !.at = 256 * x.out[1] + x.out[2]],
                           Len(x.out) - 2).said
  IN SubSeq(back, x.skip + 1, Len(back))

Device(width) ==
  [addr |-> 104, width |-> width, chip |-> FALSE, at |-> 0, regs |-> Empty,
   dmp |-> <<>>, fifo |-> <<>>, said |-> <<>>]

Holds(reg, buf) ==
  [r \in Word |-> IF r \in reg .. reg + Len(buf) - 1 THEN buf[r - reg + 1]
                  ELSE 0]

(* The address with the bit that I2C puts behind it, a register, a place in the
   DMP's memory, and bytes that have room in the device. *)
Sendable(in) ==
  /\ in.addr \in 0 .. 255 /\ in.reg \in Word /\ in.at \in Nat /\ in.at < 65536
  /\ in.buf \in Seq(0 .. 255) \ {<<>>} /\ in.reg + Len(in.buf) <= 512

SomeBytes ==
  [addr : {208, 210}, reg : {1, 27, 104, 258}, at : {0, 250, 256, 510},
   buf : UNION {[1 .. n -> {3, 200}] : n \in 1 .. 5} \union {[k \in 1 .. 12 |-> k]}]

(* What is written arrives at the registers it is for, and nowhere else, and
   is what a read of them finds; at no device of another address.  A command
   carries its bytes as they are.  The DMP's memory gets the bytes of one bank
   or none. *)
CarriedRight(in) ==
  LET len == Len(in.buf)
      mine == in.addr \div 2 = 104
      held == IF mine THEN Holds(in.reg, in.buf) ELSE Empty
      said == IF mine THEN in.buf ELSE <<>>
      iic == Talk(Device(1), Mpu6050Write(in.addr, in.reg, in.buf))
      iic16 == Talk(Device(2), IicWriteAddress16(in.addr, in.reg, in.buf))
      cmd == Talk(Device(1), IicWriteCmd(in.addr, <<in.reg>> \o in.buf))
      spi == SpiTalk(Device(1), Mpu9250Write(in.reg, in.buf))
      both == SpiWriteRead(<<in.reg + 128>>, len)
      dmp == Talk([Device(1) EXCEPT !.chip = TRUE],
                  WriteMem(in.addr, in.at, in.buf)).dmp
  IN /\ in.reg < 128 =>
          /\ iic.regs = held
          /\ Talk(iic, Mpu6050Read(in.addr, in.reg, len)).said = said
          /\ cmd.regs = held
          /\ Talk([cmd EXCEPT !.at = in.reg], IicReadCmd(in.addr, len)).said = said
          /\ spi.regs = Holds(in.reg, in.buf)
          /\ SpiTalk(spi, Mpu9250Read(in.reg, len)).said = in.buf
          /\ SpiTalk(Device(1), SpiWriteCmd(<<in.reg>> \o in.buf)).regs = spi.regs
          /\ SpiTalk(spi, SpiTransmit(<<in.reg + 128>> \o Zeros(len))).said
               = <<Noise>> \o in.buf
          /\ both[1].out = <<in.reg + 128>> /\ both[2] = SpiReadCmd(len)
     /\ iic16.regs = held
     /\ Talk(iic16, IicReadAddress16(in.addr, in.reg, len)).said = said
     /\ SpiSays16([Device(2) EXCEPT !.regs = Holds(in.reg, in.buf)],
                  SpiReadAddress16(in.reg, len)) = in.buf
     /\ dmp = IF mine /\ Low(in.at) + len <= 256
                THEN [k \in 1 .. len |-> <<in.at + k - 1, in.buf[k]>>] ELSE <<>>

-----------------------------------------------------------------------------
(* A handle in any state, and bytes that have room in a chip's registers before
   the one that resets it. *)
Callable(in) ==
  /\ in.h \in [null : BOOLEAN, inited : BOOLEAN, mag_inited : BOOLEAN,
                spi : BOOLEAN, up : BOOLEAN, iic_addr : 0 .. 255]
  /\ in.pin \in {208, 210} /\ in.reg \in 0 .. 106
  /\ in.buf \in Seq(0 .. 255) \ {<<>>} /\ in.reg + Len(in.buf) <= 107

SomeCalls ==
  [h : [null : BOOLEAN, inited : BOOLEAN, mag_inited : BOOLEAN, spi : BOOLEAN,
        up : BOOLEAN, iic_addr : {208}],
   pin : {208, 210}, reg : {27, 73},
   buf : {[k \in 1 .. n |-> 10 * k] : n \in {1, 3, 24, 25}}]

ASSUME BusesAssumption ==
  /\ \A in \in WireInputs : Sendable(in)
  /\ \A in \in AccessInputs : Callable(in)

After(d, access) == Talk(d, access.wire)

AnyChip == [Device(1) EXCEPT !.chip = TRUE, !.regs = [r \in Word |-> r % 128]]
Ak8963 == [Device(1) EXCEPT !.addr = 12, !.regs = [r \in Word |-> 100 + (r % 128)]]

(* A read finds these registers, if the handle reaches the chip; *)
Finds(access, reg, len, reached) ==
  After(AnyChip, access).said =
    IF reached THEN [k \in 1 .. len |-> AnyChip.regs[reg + k - 1]] ELSE <<>>

(* what was put into the fifo is counted and comes out in its order; *)
Queues(set, count, get, buf, reached) ==
  LET full == After(AnyChip, set)
      empty == After(full, get)
  IN reached => /\ full.fifo = buf
                /\ Count(After(full, count).said) = Len(buf)
                /\ empty.said = buf /\ empty.fifo = <<>>

(* a reset takes everything back, and can be seen. *)
Resets(reset, get, reached) ==
  LET new == After(AnyChip, reset)
  IN reached => /\ new.regs = [Empty EXCEPT ![107] = 128]
                /\ Last(After(new, get).said) = 128

(* The magnetometer answers for itself, and the other chip is not touched. *)
Asks(access, reg, len, reached) ==
  /\ After(AnyChip, access) = AnyChip
  /\ After(Ak8963, access).said =
       IF reached THEN [k \in 1 .. len |-> Ak8963.regs[reg + k - 1]] ELSE <<>>

(* What the functions of Access return, and what comes of it. *)
AccessRight(in) ==
  LET h6 == set_addr_pin6050(in.h, in.pin)
      h9 == set_addr_pin9250(in.h, in.pin)
      buf == in.buf
      len == Len(buf)
      usable == ~in.h.null /\ in.h.inited /\ in.h.up
      there6 == usable /\ in.pin = 208
      there9 == usable /\ (in.h.spi \/ in.pin = 208)
      theirs == usable /\ in.h.mag_inited /\ ~in.h.spi
      code == IF in.h.null THEN 2 ELSE IF ~in.h.inited THEN 3
              ELSE IF ~in.h.up THEN 1 ELSE 0
      plain == {fifo_set6050(h6, buf), get_fifo_count6050(h6),
                fifo_get6050(h6, len), get_interrupt_status6050(h6),
                get_iic_status6050(h6), set_reg6050(h6, in.reg, buf),
                get_reg6050(h6, in.reg, len), device_reset6050(h6, 107),
                get_device_reset6050(h6),
                fifo_set9250(h9, buf), get_fifo_count9250(h9),
                fifo_get9250(h9, len), get_interrupt_status9250(h9),
                get_iic_status9250(h9), set_reg9250(h9, in.reg, buf),
                get_reg9250(h9, in.reg, len), device_reset9250(h9, 107),
                get_device_reset9250(h9)}
      mag == {mag_get_info(h9), mag_get_status1(h9), mag_get_status2(h9),
              mag_get_asa(h9), mag_iic_disable(h9)}
  IN /\ \A x \in plain : x.res = code
     /\ \A x \in mag : x.res = 0 <=> theirs
     /\ \A x \in plain \union mag : x.res # 0 => x.wire = <<>>
     /\ ~in.h.null => /\ get_addr_pin6050(h6).pin = in.pin
                      /\ get_addr_pin9250(h9).pin = in.pin
                      /\ get_interface9250(h9).spi = in.h.spi
     /\ Queues(fifo_set6050(h6, buf), get_fifo_count6050(h6),
               fifo_get6050(h6, len), buf, there6)
     /\ Queues(fifo_set9250(h9, buf), get_fifo_count9250(h9),
               fifo_get9250(h9, len), buf, there9)
     /\ Finds(get_interrupt_status6050(h6), 58, 1, there6)
     /\ Finds(get_interrupt_status9250(h9), 58, 1, there9)
     /\ Finds(get_iic_status6050(h6), 54, 1, there6)
     /\ Finds(get_iic_status9250(h9), 54, 1, there9)
     /\ Finds(read_extern_sensor_data6050(h6, len), 73, len, there6 /\ len < 25)
     /\ Finds(read_extern_sensor_data9250(h9, len), 73, len, there9 /\ len < 25)
     /\ Finds(get_reg6050(h6, in.reg, len), in.reg, len, there6)
     /\ Finds(get_reg9250(h9, in.reg, len), in.reg, len, there9)
     /\ there6 => After([AnyChip EXCEPT !.regs = Empty],
                        set_reg6050(h6, in.reg, buf)).regs = Holds(in.reg, buf)
     /\ there9 => After([AnyChip EXCEPT !.regs = Empty],
                        set_reg9250(h9, in.reg, buf)).regs = Holds(in.reg, buf)
     /\ Resets(device_reset6050(h6, 107), get_device_reset6050(h6), there6)
     /\ Resets(device_reset9250(h9, 107), get_device_reset9250(h9), there9)
     /\ Asks(mag_get_info(h9), 1, 1, theirs)
     /\ Asks(mag_get_status1(h9), 2, 1, theirs)
     /\ Asks(mag_get_status2(h9), 9, 1, theirs)
     /\ Asks(mag_get_asa(h9), 16, 3, theirs)
     /\ theirs => After(Ak8963, mag_iic_disable(h9)).regs
                    = [Ak8963.regs EXCEPT ![15] = 27]
     /\ \A reg \in ToSet(buf) :
          /\ motion_threshold_convert_to_register6050(
               motion_threshold_convert_to_data6050(reg) + (reg % 32)) = reg
          /\ motion_threshold_convert_to_register9250(
               motion_threshold_convert_to_data9250(reg) + (reg % 4)) = reg
          /\ motion_duration_convert_to_register6050(
               motion_duration_convert_to_data6050(reg)) = reg
=============================================================================
