---------------------------- MODULE Mpu6050Regs -----------------------------
(***************************************************************************)
(* The options of an MPU6050, as the setters and getters of                *)
(* driver_mpu6050.cpp have them: one definition for each pair, in the      *)
(* order of the file.  The setter's register, mask, shift and argument     *)
(* are in Set, the getter's register, shift and mask in Get.               *)
(*                                                                         *)
(* mpu6050_device_reset is not an option: it puts every register back to   *)
(* its default, and its callers poll it before they set anything.          *)
(***************************************************************************)
EXTENDS RegTable

fifo == Opt("fifo", Set("USER_CTRL", 1, 6, 1), Get("USER_CTRL", 6, 1))
dmp_enable ==
  Split("dmp_enable", 0, "value",
        Set("USER_CTRL", 1, 7, 1), Unread(Set("USER_CTRL", 1, 7, 1)))
iic_master ==
  Opt("iic_master", Set("USER_CTRL", 1, 5, 1), Get("USER_CTRL", 5, 1))
fifo_reset ==
  Command("fifo_reset", Set("USER_CTRL", 1, 2, 1), Get("USER_CTRL", 2, 1))
iic_master_reset ==
  Command("iic_master_reset",
     Set("USER_CTRL", 1, 1, 1), Get("USER_CTRL", 1, 1))
sensor_reset ==
  Command("sensor_reset", Set("USER_CTRL", 1, 0, 1), Get("USER_CTRL", 0, 1))
clock_source ==
  Opt("clock_source", Set("PWR_MGMT_1", 3, 0, 3), Get("PWR_MGMT_1", 0, 3))
temperature_sensor ==
  Inverted("temperature_sensor",
     Set("PWR_MGMT_1", 1, 3, 1), Get("PWR_MGMT_1", 3, 1))
cycle_wake_up ==
  Opt("cycle_wake_up", Set("PWR_MGMT_1", 1, 5, 1), Get("PWR_MGMT_1", 5, 1))
sleep == Opt("sleep", Set("PWR_MGMT_1", 1, 6, 1), Get("PWR_MGMT_1", 6, 1))
standby_mode(source) ==
  At(source, "standby_mode",
     Set("PWR_MGMT_2", 1, source, 1), Get("PWR_MGMT_2", source, 1))
wake_up_frequency ==
  Opt("wake_up_frequency",
     Set("PWR_MGMT_2", 2, 6, 2), Get("PWR_MGMT_2", 6, 2))
signal_path_reset(path) ==
  Split("signal_path_reset", path, "command",
        Set("SIGNAL_PATH_RESET", 1, path, 1),
        Unread(Set("SIGNAL_PATH_RESET", 1, path, 1)))
sample_rate_divider == Whole("sample_rate_divider", "SMPRT_DIV", "SMPRT_DIV")

(* A slip of extern_sync: the getter shifts by one bit too few. *)
extern_syncShifted ==
  Opt("extern_sync", Set("CONFIG", 3, 3, 3), Get("CONFIG", 2, 3))

extern_sync == Opt("extern_sync", Set("CONFIG", 3, 3, 3), Get("CONFIG", 3, 3))
low_pass_filter ==
  Opt("low_pass_filter", Set("CONFIG", 3, 0, 3), Get("CONFIG", 0, 3))
gyroscope_test(axis) ==
  At(axis, "gyroscope_test",
     Set("GYRO_CONFIG", 1, axis, 1), Get("GYRO_CONFIG", axis, 1))
gyroscope_range ==
  Opt("gyroscope_range",
     Set("GYRO_CONFIG", 2, 3, 2), Get("GYRO_CONFIG", 3, 2))
accelerometer_test(axis) ==
  At(axis, "accelerometer_test",
     Set("ACCEL_CONFIG", 1, axis, 1), Get("ACCEL_CONFIG", axis, 1))
accelerometer_range ==
  Opt("accelerometer_range",
     Set("ACCEL_CONFIG", 2, 3, 2), Get("ACCEL_CONFIG", 3, 2))
fifo_enable(bit) ==
  At(bit, "fifo_enable", Set("FIFO_EN", 1, bit, 1), Get("FIFO_EN", bit, 1))
interrupt_level ==
  Opt("interrupt_level",
     Set("INT_PIN_CFG", 1, 7, 1), Get("INT_PIN_CFG", 7, 1))
interrupt_pin_type ==
  Opt("interrupt_pin_type",
     Set("INT_PIN_CFG", 1, 6, 1), Get("INT_PIN_CFG", 6, 1))
interrupt_latch ==
  Inverted("interrupt_latch",
     Set("INT_PIN_CFG", 1, 5, 1), Get("INT_PIN_CFG", 5, 1))
interrupt_read_clear ==
  Opt("interrupt_read_clear",
     Set("INT_PIN_CFG", 1, 4, 1), Get("INT_PIN_CFG", 4, 1))
fsync_interrupt_level ==
  Opt("fsync_interrupt_level",
     Set("INT_PIN_CFG", 1, 3, 1), Get("INT_PIN_CFG", 3, 1))
fsync_interrupt ==
  Opt("fsync_interrupt",
     Set("INT_PIN_CFG", 1, 2, 1), Get("INT_PIN_CFG", 2, 1))
iic_bypass ==
  Opt("iic_bypass", Set("INT_PIN_CFG", 1, 1, 1), Get("INT_PIN_CFG", 1, 1))
interrupt(type) ==
  At(type, "interrupt",
     Set("INT_ENABLE", 1, type, 1), Get("INT_ENABLE", type, 1))
gyroscope_x_test ==
  Opt("gyroscope_x_test",
     Set("SELF_TEST_X", 5, 0, 5), Get("SELF_TEST_X", 0, 5))
gyroscope_y_test ==
  Opt("gyroscope_y_test",
     Set("SELF_TEST_Y", 5, 0, 5), Get("SELF_TEST_Y", 0, 5))
gyroscope_z_test ==
  Opt("gyroscope_z_test",
     Set("SELF_TEST_Z", 5, 0, 5), Get("SELF_TEST_Z", 0, 5))
accelerometer_x_test ==
  Split("accelerometer_x_test", 0, "value",
    <<Piece("SELF_TEST_X", Up(Low(3), 5), {2, 3, 4}, 3),
      Piece("SELF_TEST_A", Up(Low(2), 4), Low(2), 4)>>,
    <<Piece("SELF_TEST_X", {}, {2, 3, 4}, 3),
      Piece("SELF_TEST_A", {}, Low(2), 4)>>)
accelerometer_y_test ==
  Split("accelerometer_y_test", 0, "value",
    <<Piece("SELF_TEST_Y", Up(Low(3), 5), {2, 3, 4}, 3),
      Piece("SELF_TEST_A", Up(Low(2), 2), Low(2), 2)>>,
    <<Piece("SELF_TEST_Y", {}, {2, 3, 4}, 3),
      Piece("SELF_TEST_A", {}, Low(2), 2)>>)
accelerometer_z_test ==
  Split("accelerometer_z_test", 0, "value",
    <<Piece("SELF_TEST_Z", Up(Low(3), 5), {2, 3, 4}, 3),
      Piece("SELF_TEST_A", Up(Low(2), 0), Low(2), 0)>>,
    <<Piece("SELF_TEST_Z", {}, {2, 3, 4}, 3),
      Piece("SELF_TEST_A", {}, Low(2), 0)>>)
motion_threshold ==
  Whole("motion_threshold", "MOTION_THRESHOLD", "MOTION_THRESHOLD")
motion_duration ==
  Whole("motion_duration", "MOTION_DURATION", "MOTION_DURATION")
force_accel_sample ==
  Split("force_accel_sample", 0, "switch",
        Set("ACCEL_CONFIG", 3, 0, 3), Unread(Set("ACCEL_CONFIG", 3, 0, 3)))
iic_clock ==
  Opt("iic_clock", Set("I2C_MST_CTRL", 4, 0, 4), Get("I2C_MST_CTRL", 0, 4))
iic_multi_master ==
  Opt("iic_multi_master",
     Set("I2C_MST_CTRL", 1, 7, 1), Get("I2C_MST_CTRL", 7, 1))
iic_wait_for_external_sensor ==
  Opt("iic_wait_for_external_sensor",
     Set("I2C_MST_CTRL", 1, 6, 1), Get("I2C_MST_CTRL", 6, 1))
iic_read_mode ==
  Opt("iic_read_mode",
     Set("I2C_MST_CTRL", 1, 4, 1), Get("I2C_MST_CTRL", 4, 1))
iic_fifo_enable(slave) ==
  IF slave = 3
    THEN At(slave, "iic_fifo_enable",
            Set("I2C_MST_CTRL", 1, 5, 1), Get("I2C_MST_CTRL", 5, 1))
    ELSE At(slave, "iic_fifo_enable",
            Set("FIFO_EN", 1, slave, 1), Get("FIFO_EN", slave, 1))
get_iic_mode(slave) == Get(SLV_ADDR(slave), 7, 1)
iic_mode(slave) ==
  At(slave, "iic_mode",
     Set(SLV_ADDR(slave), 1, 7, 1), get_iic_mode(slave))
get_iic_address(slave) == Get(SLV_ADDR(slave), 0, 7)
iic_address(slave) ==
  At(slave, "iic_address",
     Set(SLV_ADDR(slave), 7, 0, 7), get_iic_address(slave))
get_iic_register(slave) == Get(SLV_REG(slave), 0, 8)
iic_register(slave) ==
  At(slave, "iic_register", Set(SLV_REG(slave), 8, 0, 8),
     get_iic_register(slave))
iic_data_out(slave) ==
  WholeAt(slave, "iic_data_out", SLV_DO(slave), SLV_DO(slave))
get_iic_enable(slave) == Get(SLV_CTRL(slave), 7, 1)
iic_enable(slave) ==
  At(slave, "iic_enable",
     Set(SLV_CTRL(slave), 1, 7, 1), get_iic_enable(slave))
get_iic_byte_swap(slave) == Get(SLV_CTRL(slave), 6, 1)
iic_byte_swap(slave) ==
  At(slave, "iic_byte_swap",
     Set(SLV_CTRL(slave), 1, 6, 1), get_iic_byte_swap(slave))
get_iic_transaction_mode(slave) == Get(SLV_CTRL(slave), 5, 1)
iic_transaction_mode(slave) ==
  At(slave, "iic_transaction_mode",
     Set(SLV_CTRL(slave), 1, 5, 1), get_iic_transaction_mode(slave))
get_iic_group_order(slave) == Get(SLV_CTRL(slave), 4, 1)
iic_group_order(slave) ==
  At(slave, "iic_group_order",
     Set(SLV_CTRL(slave), 1, 4, 1), get_iic_group_order(slave))
get_iic_transferred_len(slave) == Get(SLV_CTRL(slave), 0, 4)
iic_transferred_len(slave) ==
  At(slave, "iic_transferred_len",
     Set(SLV_CTRL(slave), 4, 0, 4), get_iic_transferred_len(slave))
iic_delay_enable(delay) ==
  At(delay, "iic_delay_enable",
     Set("I2C_MST_DELAY_CTRL", 1, delay, 1),
     Get("I2C_MST_DELAY_CTRL", delay, 1))
iic4_enable ==
  Opt("iic4_enable",
     Set("I2C_SLV4_CTRL", 1, 7, 1), Get("I2C_SLV4_CTRL", 7, 1))
iic4_interrupt ==
  Opt("iic4_interrupt",
     Set("I2C_SLV4_CTRL", 1, 6, 1), Get("I2C_SLV4_CTRL", 6, 1))
iic4_transaction_mode ==
  Opt("iic4_transaction_mode",
     Set("I2C_SLV4_CTRL", 1, 5, 1), Get("I2C_SLV4_CTRL", 5, 1))
iic_delay ==
  Opt("iic_delay", Set("I2C_SLV4_CTRL", 5, 0, 5), Get("I2C_SLV4_CTRL", 0, 5))
iic4_data_out == Whole("iic4_data_out", "I2C_SLV4_DO", "I2C_SLV4_DO")
iic4_data_in == Whole("iic4_data_in", "I2C_SLV4_DI", "I2C_SLV4_DI")

-----------------------------------------------------------------------------
(* The axes are bits 5 to 7, the sources of the fifo bits 3 to 7; slave 4 has
   no byte swap, group order or length of its own. *)
Mpu6050Option ==
  {dmp_enable, fifo, iic_master, fifo_reset, iic_master_reset, sensor_reset,
   clock_source, temperature_sensor, cycle_wake_up, sleep,
   wake_up_frequency, sample_rate_divider, extern_sync, low_pass_filter,
   gyroscope_range, accelerometer_range, interrupt_level,
   interrupt_pin_type, interrupt_latch, interrupt_read_clear,
   fsync_interrupt_level, fsync_interrupt, iic_bypass, gyroscope_x_test,
   gyroscope_y_test, gyroscope_z_test, accelerometer_x_test,
   accelerometer_y_test, accelerometer_z_test, motion_threshold,
   motion_duration, force_accel_sample, iic_clock, iic_multi_master,
   iic_wait_for_external_sensor, iic_read_mode, iic4_enable,
   iic4_interrupt, iic4_transaction_mode, iic_delay, iic4_data_out,
   iic4_data_in}
  \union {standby_mode(i) : i \in 0 .. 5}
  \union {signal_path_reset(i) : i \in 0 .. 2}
  \union UNION {{gyroscope_test(i), accelerometer_test(i)}
                : i \in 5 .. 7}
  \union {fifo_enable(i) : i \in 3 .. 7}
  \union {interrupt(i) : i \in {0, 1, 3, 4, 6}}
  \union UNION {{iic_fifo_enable(i), iic_data_out(i), iic_enable(i),
                  iic_byte_swap(i), iic_transaction_mode(i),
                  iic_group_order(i), iic_transferred_len(i)}
                : i \in 0 .. 3}
  \union UNION {{iic_mode(i), iic_address(i), iic_register(i)}
                : i \in 0 .. 4}
  \union {iic_delay_enable(i) : i \in {0, 1, 2, 3, 4, 7}}

(* The chip clears these by itself when it has done the reset they ask for. *)
Mpu6050Volatile ==
  {fifo_reset, iic_master_reset, sensor_reset}
    \union {signal_path_reset(i) : i \in 0 .. 2}
=============================================================================
