---------------------------- MODULE Mpu9250Regs -----------------------------
(***************************************************************************)
(* The options of an MPU9250 and of the AK8963 magnetometer in it, as the  *)
(* setters and getters of driver_mpu9250.cpp have them: one definition for *)
(* each pair, in the order of the file.  The magnetometer's registers are  *)
(* reached over the same bus, at an address of its own.                    *)
(*                                                                         *)
(* mpu9250_device_reset and mpu9250_mag_set_fifo_mode, which sets up six   *)
(* registers for good, are not options.                                    *)
(***************************************************************************)
EXTENDS RegTable

mag_mode == Opt("mag_mode", Set("CNTL1", 4, 0, 4), Get("CNTL1", 0, 4))
mag_bits == Opt("mag_bits", Set("CNTL1", 1, 4, 1), Get("CNTL1", 4, 1))
mag_reset == Opt("mag_reset", Set("CNTL2", 1, 0, 1), Get("CNTL2", 0, 1))
mag_self_test == Opt("mag_self_test", Set("ASTC", 1, 6, 1), Get("ASTC", 6, 1))
fifo == Opt("fifo", Set("USER_CTRL", 1, 6, 1), Get("USER_CTRL", 6, 1))
dmp_enable ==
  Split("dmp_enable", 0, "value",
        Set("USER_CTRL", 1, 7, 1), Unread(Set("USER_CTRL", 1, 7, 1)))
iic_master ==
  Opt("iic_master", Set("USER_CTRL", 1, 5, 1), Get("USER_CTRL", 5, 1))
disable_iic_slave ==
  Opt("disable_iic_slave", Set("USER_CTRL", 1, 4, 1), Get("USER_CTRL", 4, 1))
fifo_reset ==
  Command("fifo_reset", Set("USER_CTRL", 1, 2, 1), Get("USER_CTRL", 2, 1))
iic_master_reset ==
  Command("iic_master_reset",
     Set("USER_CTRL", 1, 1, 1), Get("USER_CTRL", 1, 1))
sensor_reset ==
  Command("sensor_reset", Set("USER_CTRL", 1, 0, 1), Get("USER_CTRL", 0, 1))
clock_source ==
  Opt("clock_source", Set("PWR_MGMT_1", 3, 0, 3), Get("PWR_MGMT_1", 0, 3))
ptat == Inverted("ptat", Set("PWR_MGMT_1", 1, 3, 1), Get("PWR_MGMT_1", 3, 1))
cycle_wake_up ==
  Opt("cycle_wake_up", Set("PWR_MGMT_1", 1, 5, 1), Get("PWR_MGMT_1", 5, 1))
sleep == Opt("sleep", Set("PWR_MGMT_1", 1, 6, 1), Get("PWR_MGMT_1", 6, 1))
gyro_standby ==
  Opt("gyro_standby", Set("PWR_MGMT_1", 1, 4, 1), Get("PWR_MGMT_1", 4, 1))
standby_mode(source) ==
  At(source, "standby_mode",
     Set("PWR_MGMT_2", 1, source, 1), Get("PWR_MGMT_2", source, 1))
signal_path_reset(path) ==
  Split("signal_path_reset", path, "command",
        Set("SIGNAL_PATH_RESET", 1, path, 1),
        Unread(Set("SIGNAL_PATH_RESET", 1, path, 1)))
sample_rate_divider == Whole("sample_rate_divider", "SMPRT_DIV", "SMPRT_DIV")
extern_sync == Opt("extern_sync", Set("CONFIG", 3, 3, 3), Get("CONFIG", 3, 3))
low_pass_filter ==
  Opt("low_pass_filter", Set("CONFIG", 3, 0, 3), Get("CONFIG", 0, 3))
fifo_mode == Opt("fifo_mode", Set("CONFIG", 1, 6, 1), Get("CONFIG", 6, 1))
gyroscope_test(axis) ==
  At(axis, "gyroscope_test",
     Set("GYRO_CONFIG", 1, axis, 1), Get("GYRO_CONFIG", axis, 1))
gyroscope_range ==
  Opt("gyroscope_range",
     Set("GYRO_CONFIG", 2, 3, 2), Get("GYRO_CONFIG", 3, 2))
gyroscope_choice ==
  Opt("gyroscope_choice",
     Set("GYRO_CONFIG", 2, 0, 2), Get("GYRO_CONFIG", 0, 2))
accelerometer_test(axis) ==
  At(axis, "accelerometer_test",
     Set("ACCEL_CONFIG", 1, axis, 1), Get("ACCEL_CONFIG", axis, 1))
accelerometer_range ==
  Opt("accelerometer_range",
     Set("ACCEL_CONFIG", 2, 3, 2), Get("ACCEL_CONFIG", 3, 2))
fifo_1024kb ==
  Command("fifo_1024kb",
          Set("ACCEL_CONFIG2", 1, 6, 1), Unread(Set("ACCEL_CONFIG2", 1, 6, 1)))

accelerometer_choice ==
  Opt("accelerometer_choice",
     Set("ACCEL_CONFIG2", 1, 3, 1), Get("ACCEL_CONFIG2", 3, 1))
accelerometer_low_pass_filter ==
  Opt("accelerometer_low_pass_filter",
     Set("ACCEL_CONFIG2", 3, 0, 3), Get("ACCEL_CONFIG2", 0, 3))
low_power_accel_output_rate ==
  Opt("low_power_accel_output_rate",
     Set("LP_ACCEL_ODR", 4, 0, 4), Get("LP_ACCEL_ODR", 0, 4))
wake_on_motion ==
  Opt("wake_on_motion",
     Set("MOT_DETECT_CTRL", 1, 7, 1), Get("MOT_DETECT_CTRL", 7, 1))
accel_compare_with_previous_sample ==
  Opt("accel_compare_with_previous_sample",
     Set("MOT_DETECT_CTRL", 1, 6, 1), Get("MOT_DETECT_CTRL", 6, 1))
fifo_enable(bit) ==
  At(bit, "fifo_enable", Set("FIFO_EN", 1, bit, 1), Get("FIFO_EN", bit, 1))
interrupt_level ==
  Opt("interrupt_level",
     Set("INT_PIN_CFG", 1, 7, 1), Get("INT_PIN_CFG", 7, 1))
interrupt_pin_type ==
  Opt("interrupt_pin_type",
     Set("INT_PIN_CFG", 1, 6, 1), Get("INT_PIN_CFG", 6, 1))
interrupt_latch ==
  Inverted("interrupt_latch",
     Set("INT_PIN_CFG", 1, 5, 1), Get("INT_PIN_CFG", 5, 1))
interrupt_read_clear ==
  Opt("interrupt_read_clear",
     Set("INT_PIN_CFG", 1, 4, 1), Get("INT_PIN_CFG", 4, 1))
fsync_interrupt_level ==
  Opt("fsync_interrupt_level",
     Set("INT_PIN_CFG", 1, 3, 1), Get("INT_PIN_CFG", 3, 1))
fsync_interrupt ==
  Opt("fsync_interrupt",
     Set("INT_PIN_CFG", 1, 2, 1), Get("INT_PIN_CFG", 2, 1))
iic_bypass ==
  Opt("iic_bypass", Set("INT_PIN_CFG", 1, 1, 1), Get("INT_PIN_CFG", 1, 1))
interrupt(type) ==
  At(type, "interrupt",
     Set("INT_ENABLE", 1, type, 1), Get("INT_ENABLE", type, 1))
gyroscope_x_test ==
  Whole("gyroscope_x_test", "SELF_TEST_X_GYRO", "SELF_TEST_X_GYRO")
gyroscope_y_test ==
  Whole("gyroscope_y_test", "SELF_TEST_Y_GYRO", "SELF_TEST_Y_GYRO")
gyroscope_z_test ==
  Whole("gyroscope_z_test", "SELF_TEST_Z_GYRO", "SELF_TEST_Z_GYRO")
accelerometer_x_test ==
  Whole("accelerometer_x_test", "SELF_TEST_X_ACCEL", "SELF_TEST_X_ACCEL")
accelerometer_y_test ==
  Whole("accelerometer_y_test", "SELF_TEST_Y_ACCEL", "SELF_TEST_Y_ACCEL")
accelerometer_z_test ==
  Whole("accelerometer_z_test", "SELF_TEST_Z_ACCEL", "SELF_TEST_Z_ACCEL")
accelerometer_x_offset ==
  Word("accelerometer_x_offset", "XA_OFFSET_H", "XA_OFFSET_H")
accelerometer_y_offset ==
  Word("accelerometer_y_offset", "YA_OFFSET_H", "YA_OFFSET_H")
accelerometer_z_offset ==
  Word("accelerometer_z_offset", "ZA_OFFSET_H", "ZA_OFFSET_H")
gyro_x_offset == Word("gyro_x_offset", "XG_OFFSET_H", "XG_OFFSET_H")
gyro_y_offset == Word("gyro_y_offset", "YG_OFFSET_H", "YG_OFFSET_H")
gyro_z_offset == Word("gyro_z_offset", "ZG_OFFSET_H", "ZG_OFFSET_H")
motion_threshold == Whole("motion_threshold", "WOM_THR", "WOM_THR")
iic_clock ==
  Opt("iic_clock", Set("I2C_MST_CTRL", 4, 0, 4), Get("I2C_MST_CTRL", 0, 4))
iic_multi_master ==
  Opt("iic_multi_master",
     Set("I2C_MST_CTRL", 1, 7, 1), Get("I2C_MST_CTRL", 7, 1))
iic_wait_for_external_sensor ==
  Opt("iic_wait_for_external_sensor",
     Set("I2C_MST_CTRL", 1, 6, 1), Get("I2C_MST_CTRL", 6, 1))
iic_read_mode ==
  Opt("iic_read_mode",
     Set("I2C_MST_CTRL", 1, 4, 1), Get("I2C_MST_CTRL", 4, 1))

(* A slip of iic_fifo_enable: slave 3 is treated as the others are. *)
iic_fifo_enableAll(slave) ==
  At(slave, "iic_fifo_enable",
     Set("FIFO_EN", 1, slave, 1), Get("FIFO_EN", slave, 1))

iic_fifo_enable(slave) ==
  IF slave = 3
    THEN At(slave, "iic_fifo_enable",
            Set("I2C_MST_CTRL", 1, 5, 1), Get("I2C_MST_CTRL", 5, 1))
    ELSE At(slave, "iic_fifo_enable",
            Set("FIFO_EN", 1, slave, 1), Get("FIFO_EN", slave, 1))
get_iic_mode(slave) == Get(SLV_ADDR(slave), 7, 1)
iic_mode(slave) ==
  At(slave, "iic_mode",
     Set(SLV_ADDR(slave), 1, 7, 1), get_iic_mode(slave))
get_iic_address(slave) == Get(SLV_ADDR(slave), 0, 7)
iic_address(slave) ==
  At(slave, "iic_address",
     Set(SLV_ADDR(slave), 7, 0, 7), get_iic_address(slave))
get_iic_register(slave) == Get(SLV_REG(slave), 0, 8)
iic_register(slave) ==
  At(slave, "iic_register", Set(SLV_REG(slave), 8, 0, 8),
     get_iic_register(slave))
iic_data_out(slave) ==
  WholeAt(slave, "iic_data_out", SLV_DO(slave), SLV_DO(slave))
get_iic_enable(slave) == Get(SLV_CTRL(slave), 7, 1)
iic_enable(slave) ==
  At(slave, "iic_enable",
     Set(SLV_CTRL(slave), 1, 7, 1), get_iic_enable(slave))
get_iic_byte_swap(slave) == Get(SLV_CTRL(slave), 6, 1)
iic_byte_swap(slave) ==
  At(slave, "iic_byte_swap",
     Set(SLV_CTRL(slave), 1, 6, 1), get_iic_byte_swap(slave))
get_iic_transaction_mode(slave) == Get(SLV_CTRL(slave), 5, 1)
iic_transaction_mode(slave) ==
  At(slave, "iic_transaction_mode",
     Set(SLV_CTRL(slave), 1, 5, 1), get_iic_transaction_mode(slave))
get_iic_group_order(slave) == Get(SLV_CTRL(slave), 4, 1)
iic_group_order(slave) ==
  At(slave, "iic_group_order",
     Set(SLV_CTRL(slave), 1, 4, 1), get_iic_group_order(slave))
get_iic_transferred_len(slave) == Get(SLV_CTRL(slave), 0, 4)
iic_transferred_len(slave) ==
  At(slave, "iic_transferred_len",
     Set(SLV_CTRL(slave), 4, 0, 4), get_iic_transferred_len(slave))
iic_delay_enable(delay) ==
  At(delay, "iic_delay_enable",
     Set("I2C_MST_DELAY_CTRL", 1, delay, 1),
     Get("I2C_MST_DELAY_CTRL", delay, 1))
iic4_enable ==
  Opt("iic4_enable",
     Set("I2C_SLV4_CTRL", 1, 7, 1), Get("I2C_SLV4_CTRL", 7, 1))
iic4_interrupt ==
  Opt("iic4_interrupt",
     Set("I2C_SLV4_CTRL", 1, 6, 1), Get("I2C_SLV4_CTRL", 6, 1))
iic4_transaction_mode ==
  Opt("iic4_transaction_mode",
     Set("I2C_SLV4_CTRL", 1, 5, 1), Get("I2C_SLV4_CTRL", 5, 1))
iic_delay ==
  Opt("iic_delay", Set("I2C_SLV4_CTRL", 5, 0, 5), Get("I2C_SLV4_CTRL", 0, 5))
iic4_data_out == Whole("iic4_data_out", "I2C_SLV4_DO", "I2C_SLV4_DO")
iic4_data_in == Whole("iic4_data_in", "I2C_SLV4_DI", "I2C_SLV4_DI")

-----------------------------------------------------------------------------
(* The axes are bits 5 to 7, the sources of the fifo bits 3 to 7; slave 4 has
   no byte swap, group order or length of its own. *)
Mpu9250Option ==
  {dmp_enable, mag_mode, mag_bits, mag_reset, mag_self_test, fifo, iic_master,
   disable_iic_slave, fifo_reset, iic_master_reset, sensor_reset,
   clock_source, ptat, cycle_wake_up, sleep, gyro_standby,
   sample_rate_divider, extern_sync, low_pass_filter, fifo_mode,
   gyroscope_range, gyroscope_choice, accelerometer_range, fifo_1024kb,
   accelerometer_choice, accelerometer_low_pass_filter,
   low_power_accel_output_rate, wake_on_motion,
   accel_compare_with_previous_sample, interrupt_level,
   interrupt_pin_type, interrupt_latch, interrupt_read_clear,
   fsync_interrupt_level, fsync_interrupt, iic_bypass, gyroscope_x_test,
   gyroscope_y_test, gyroscope_z_test, accelerometer_x_test,
   accelerometer_y_test, accelerometer_z_test, accelerometer_x_offset,
   accelerometer_y_offset, accelerometer_z_offset, gyro_x_offset,
   gyro_y_offset, gyro_z_offset, motion_threshold, iic_clock,
   iic_multi_master, iic_wait_for_external_sensor, iic_read_mode,
   iic4_enable, iic4_interrupt, iic4_transaction_mode, iic_delay,
   iic4_data_out, iic4_data_in}
  \union {standby_mode(i) : i \in 0 .. 5}
  \union {signal_path_reset(i) : i \in 0 .. 2}
  \union UNION {{gyroscope_test(i), accelerometer_test(i)}
                : i \in 5 .. 7}
  \union {fifo_enable(i) : i \in 3 .. 7}
  \union {interrupt(i) : i \in {0, 1, 3, 4, 6}}
  \union UNION {{iic_fifo_enable(i), iic_data_out(i), iic_enable(i),
                  iic_byte_swap(i), iic_transaction_mode(i),
                  iic_group_order(i), iic_transferred_len(i)}
                : i \in 0 .. 3}
  \union UNION {{iic_mode(i), iic_address(i), iic_register(i)}
                : i \in 0 .. 4}
  \union {iic_delay_enable(i) : i \in {0, 1, 2, 3, 4, 7}}

(* The chip clears these by itself when it has done the reset, or the
   single measurement, they ask for. *)
Mpu9250Volatile ==
  {fifo_reset, iic_master_reset, sensor_reset, mag_reset, mag_mode}
    \union {signal_path_reset(i) : i \in 0 .. 2}

Mpu9250Wide == {"XA_OFFSET_H", "YA_OFFSET_H", "ZA_OFFSET_H",
                "XG_OFFSET_H", "YG_OFFSET_H", "ZG_OFFSET_H"}
=============================================================================
