------------------------------- MODULE Access -------------------------------
(***************************************************************************)
(* The functions of the two drivers that hand registers and the fifo       *)
(* through to the caller as they are: each looks at the handle and makes   *)
(* one transfer, device_reset two.  The MPU6050 is on I2C; the MPU9250 is  *)
(* on I2C or SPI, as handle->iic_spi says, and its magnetometer, a chip of *)
(* its own with an address of its own, on I2C only.                        *)
(*                                                                         *)
(* A handle h has the fields null, inited, mag_inited, spi (iic_spi) and   *)
(* iic_addr; h.up says that the bus takes what it is given.  A function    *)
(* has a result, res, and what it puts on the wire: I2C messages or SPI    *)
(* exchanges.                                                              *)
(***************************************************************************)
EXTENDS Buses

Denied(h) == IF h.null THEN 2 ELSE IF ~h.inited THEN 3 ELSE 0

MagDenied(h) ==
  IF Denied(h) # 0 THEN Denied(h) ELSE IF ~h.mag_inited THEN 4 ELSE 0

(* A function that was not refused, by code, gives the bus the transfer. *)
Carry(h, code, transfer) ==
  IF code # 0 THEN [res |-> code, wire |-> <<>>]
  ELSE IF ~h.up THEN [res |-> 1, wire |-> <<>>]
  ELSE [res |-> 0, wire |-> transfer]

(* a_mpu9250_read and a_mpu9250_write: the bus that the handle has. *)
Fetch9250(h, reg, len) ==
  IF h.spi THEN <<Mpu9250Read(reg, len)>> ELSE IicRead(h.iic_addr, reg, len)
Store9250(h, reg, buf) ==
  IF h.spi THEN <<Mpu9250Write(reg, buf)>> ELSE IicWrite(h.iic_addr, reg, buf)

Fetch6050(h, reg, len) == Mpu6050Read(h.iic_addr, reg, len)
Store6050(h, reg, buf) == Mpu6050Write(h.iic_addr, reg, buf)

(* a_mpu9250_mag_read and a_mpu9250_mag_write: AK8963_IIC_ADDRESS << 1, and
   over SPI nothing but an error. *)
MagFetch(h, reg, len) ==
  Carry(h, IF MagDenied(h) = 0 /\ h.spi THEN 1 ELSE MagDenied(h),
        IicRead(24, reg, len))
MagStore(h, reg, byte) ==
  Carry(h, IF MagDenied(h) = 0 /\ h.spi THEN 1 ELSE MagDenied(h),
        IicWrite(24, reg, <<byte>>))

(* The two bytes of FIFO_COUNTH, the first of which is the high one. *)
Count(bytes) == 256 * bytes[1] + bytes[2]

-----------------------------------------------------------------------------
(* Which address, and which bus: only a NULL handle is refused. *)

set_addr_pin6050(h, pin) == IF h.null THEN h ELSE [h EXCEPT !.iic_addr = pin]
get_addr_pin6050(h) ==
  IF h.null THEN [res |-> 2] ELSE [res |-> 0, pin |-> h.iic_addr]
set_addr_pin9250(h, pin) == IF h.null THEN h ELSE [h EXCEPT !.iic_addr = pin]
get_addr_pin9250(h) ==
  IF h.null THEN [res |-> 2] ELSE [res |-> 0, pin |-> h.iic_addr]
get_interface9250(h) ==
  IF h.null THEN [res |-> 2] ELSE [res |-> 0, spi |-> h.spi]

-----------------------------------------------------------------------------
(* The MPU6050. *)

get_fifo_count6050(h) == Carry(h, Denied(h), Fetch6050(h, 114, 2))

fifo_get6050(h, len) == Carry(h, Denied(h), Fetch6050(h, 116, len))

fifo_set6050(h, buf) == Carry(h, Denied(h), Store6050(h, 116, buf))

get_interrupt_status6050(h) == Carry(h, Denied(h), Fetch6050(h, 58, 1))

get_iic_status6050(h) == Carry(h, Denied(h), Fetch6050(h, 54, 1))

read_extern_sensor_data6050(h, len) ==
  Carry(h, IF Denied(h) = 0 /\ len > 24 THEN 4 ELSE Denied(h),
        Fetch6050(h, 73, len))

set_reg6050(h, reg, buf) == Carry(h, Denied(h), Store6050(h, reg, buf))

get_reg6050(h, reg, len) == Carry(h, Denied(h), Fetch6050(h, reg, len))

(* prev is what PWR_MGMT_1 holds; its bit 7 is set in it. *)
device_reset6050(h, prev) ==
  Carry(h, Denied(h),
        Fetch6050(h, 107, 1) \o Store6050(h, 107, <<(prev % 128) + 128>>))

get_device_reset6050(h) == Carry(h, Denied(h), Fetch6050(h, 107, 1))

(* (uint8_t)(mg / 32.0f) and back, of whole mg; and ms as they are. *)
motion_threshold_convert_to_register6050(mg) == mg \div 32
motion_threshold_convert_to_data6050(reg) == 32 * reg
motion_duration_convert_to_register6050(ms) == ms
motion_duration_convert_to_data6050(reg) == reg

-----------------------------------------------------------------------------
(* The MPU9250. *)

(* get_fifo_count from the count's second byte (a mutant). *)
get_fifo_count9250Low(h) == Carry(h, Denied(h), Fetch9250(h, 115, 2))

get_fifo_count9250(h) == Carry(h, Denied(h), Fetch9250(h, 114, 2))

fifo_get9250(h, len) == Carry(h, Denied(h), Fetch9250(h, 116, len))

fifo_set9250(h, buf) == Carry(h, Denied(h), Store9250(h, 116, buf))

get_interrupt_status9250(h) == Carry(h, Denied(h), Fetch9250(h, 58, 1))

get_iic_status9250(h) == Carry(h, Denied(h), Fetch9250(h, 54, 1))

read_extern_sensor_data9250(h, len) ==
  Carry(h, IF Denied(h) = 0 /\ len > 24 THEN 4 ELSE Denied(h),
        Fetch9250(h, 73, len))

set_reg9250(h, reg, buf) == Carry(h, Denied(h), Store9250(h, reg, buf))

get_reg9250(h, reg, len) == Carry(h, Denied(h), Fetch9250(h, reg, len))

device_reset9250(h, prev) ==
  Carry(h, Denied(h),
        Fetch9250(h, 107, 1) \o Store9250(h, 107, <<(prev % 128) + 128>>))

get_device_reset9250(h) == Carry(h, Denied(h), Fetch9250(h, 107, 1))

motion_threshold_convert_to_register9250(mg) == mg \div 4
motion_threshold_convert_to_data9250(reg) == 4 * reg

-----------------------------------------------------------------------------
(* The magnetometer. *)

mag_get_info(h) == MagFetch(h, 1, 1)

mag_get_status1(h) == MagFetch(h, 2, 1)

mag_get_status2(h) == MagFetch(h, 9, 1)

mag_get_asa(h) == MagFetch(h, 16, 3)

mag_iic_disable(h) == MagStore(h, 15, 27)
=============================================================================
